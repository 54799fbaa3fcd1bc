--------------------------- MODULE RegistryProofs ---------------------------
(***************************************************************************)
(* Theorems about the profiles a manager knows, for any profiles, files,   *)
(* configurations and number of clones: the counts are exact (Counted),    *)
(* clones are apart (Apart) and the streams in the cache are those of the  *)
(* configuration (Fresh).  A stream is the least set that holds its root   *)
(* and is closed under who awaits whose TERMINATION, which makes the       *)
(* arguments about streams arguments about closed sets.                    *)
(***************************************************************************)
EXTENDS Registry, SequenceTheorems, FiniteSetTheorems, WellFoundedInduction,
        TLAPS

(***************************************************************************)
(* Least numbers, and functions that are defined by recursion: over 0..N   *)
(* one is what its equation says (Recursion), for the least number at      *)
(* which it would not be (LeastOf) has one before it.                      *)
(***************************************************************************)

LEMMA LeastOf ==
    ASSUME NEW T \in SUBSET Nat, T # {}
    PROVE  \E x \in T : \A y \in T : x <= y
<1>1. PICK x \in T : \A y \in T : ~(<<y, x>> \in OpToRel(<, Nat))
    BY NatLessThanWellFounded, WFMin
<1>2. \A y \in T : ~(y < x)
    BY <1>1 DEF OpToRel
<1>3. \A y \in T : x <= y
    BY <1>2
<1> QED
    BY <1>3

\* A set of numbers that holds 0, and with each but the last the next one.
LEMMA Upward ==
    ASSUME NEW N \in Nat, NEW G, 0 \in G, \A n \in 1..N : n - 1 \in G => n \in G
    PROVE  0..N \subseteq G
<1> DEFINE T == {n \in 0..N : n \notin G}
<1>1. SUFFICES ASSUME T # {} PROVE FALSE
    OBVIOUS
<1>2. PICK n \in T : \A m \in T : n <= m
    <2>1. T \in SUBSET Nat
        OBVIOUS
    <2> HIDE DEF T
    <2> QED
        BY <1>1, <2>1, LeastOf
<1>3. n \in 1..N /\ n - 1 \in 0..N
    BY <1>2
<1>4. n - 1 \notin T
    BY <1>2, <1>3
<1> QED
    BY <1>2, <1>3, <1>4

Steps(f, N, base, g) == f = [n \in 0..N |-> IF n = 0 THEN base ELSE g[n][f[n - 1]]]

LEMMA Recursion ==
    ASSUME NEW N \in Nat, NEW S, NEW base \in S, NEW g \in [1..N -> [S -> S]]
    PROVE  \E f \in [0..N -> S] : Steps(f, N, base, g)
<1> DEFINE G == {n \in 0..N : \E f \in [0..n -> S] : Steps(f, n, base, g)}
<1>1. 0 \in G
    <2> DEFINE f == [m \in 0..0 |-> base]
    <2>1. f = [m \in 0..0 |-> IF m = 0 THEN base ELSE g[m][f[m - 1]]]
        OBVIOUS
    <2>2. Steps(f, 0, base, g) /\ f \in [0..0 -> S]
        BY <2>1 DEF Steps
    <2> QED
        BY <2>2
<1>2. ASSUME NEW n \in 1..N, n - 1 \in G PROVE n \in G
    <2>1. PICK f \in [0..n - 1 -> S] : Steps(f, n - 1, base, g)
        BY <1>2
    <2> DEFINE e == g[n][f[n - 1]]
               h == [m \in 0..n |-> IF m = n THEN e ELSE f[m]]
    <2>2. n \in Nat /\ n # 0 /\ n - 1 \in 0..n - 1 /\ f[n - 1] \in S /\ g[n] \in [S -> S] /\ e \in S
        OBVIOUS
    <2> HIDE DEF e
    <2>3. h \in [0..n -> S]
        <3>1. \A m \in 0..n : m # n => m \in 0..n - 1
            OBVIOUS
        <3> QED
            BY <2>2, <3>1
    <2>4. \A m \in 0..n : h[m] = IF m = 0 THEN base ELSE g[m][h[m - 1]]
        <3>1. TAKE m \in 0..n
        <3>2. CASE m = n
            <4>1. n \in 0..n /\ n - 1 \in 0..n /\ n - 1 # n
                BY <2>2
            <4>2. h[n] = e /\ h[n - 1] = f[n - 1]
                BY <4>1
            <4> HIDE DEF h
            <4> QED
                BY <2>2, <3>2, <4>2 DEF e
        <3>3. CASE m # n
            <4>1. m \in 0..n - 1 /\ (m # 0 => m - 1 \in 0..n /\ m - 1 # n)
                BY <3>3
            <4>2. h[m] = f[m] /\ (m # 0 => h[m - 1] = f[m - 1])
                BY <3>3, <4>1
            <4>3. f[m] = IF m = 0 THEN base ELSE g[m][f[m - 1]]
                BY <2>1, <4>1 DEF Steps
            <4> HIDE DEF h
            <4> QED
                BY <4>1, <4>2, <4>3
        <3> QED
            BY <3>2, <3>3
    <2>5. h = [m \in 0..n |-> IF m = 0 THEN base ELSE g[m][h[m - 1]]]
        BY <2>4
    <2> HIDE DEF h
    <2>6. Steps(h, n, base, g)
        BY <2>5 DEF Steps
    <2> QED
        BY <2>3, <2>6
<1> HIDE DEF G
<1>3. 0..N \subseteq G
    BY <1>1, <1>2, Upward
<1>4. N \in G
    BY <1>3
<1> QED
    BY <1>4 DEF G

Subscriptions == [on : Names, type : Types, by : Names]

ClosedUnder(T, subscribed) ==
    \A s \in subscribed : s.type = "TERMINATION" /\ s.on \in T => s.by \in T

(***************************************************************************)
(* What is reached by subscriptions.                                       *)
(***************************************************************************)

LEMMA NamesFinite == IsFiniteSet(Names) /\ Cardinality(Names) \in Nat
<1>1. IsFiniteSet(0..MaxClones)
    BY BoundsAssumption, FS_Interval
<1>2. IsFiniteSet(Names)
    BY <1>1, BoundsAssumption, FS_Product DEF Names
<1> QED
    BY <1>2, FS_CardinalityType

LEMMA NearerIs ==
    ASSUME NEW subscribed \in SUBSET Subscriptions, NEW near \in SUBSET Names
    PROVE  /\ near \subseteq Nearer(subscribed, near)
           /\ Nearer(subscribed, near) \in SUBSET Names
           /\ Nearer(subscribed, near) = near => ClosedUnder(near, subscribed)
           /\ \A T : near \subseteq T /\ ClosedUnder(T, subscribed)
                     => Nearer(subscribed, near) \subseteq T
<1>1. \A s \in subscribed : s.by \in Names
    BY DEF Subscriptions
<1>2. \A p : p \in Nearer(subscribed, near) <=>
                 \/ p \in near
                 \/ \E s \in subscribed : s.type = "TERMINATION" /\ s.on \in near /\ s.by = p
    BY DEF Nearer
<1> QED
    BY <1>1, <1>2 DEF ClosedUnder

\* The recursive function of Reached is what its equation says.
LEMMA ReachedBy ==
    ASSUME NEW subscribed \in SUBSET Subscriptions, NEW root \in Names
    PROVE  \E f \in [0..Cardinality(Names) -> SUBSET Names] :
               /\ Reached(subscribed, root) = f[Cardinality(Names)]
               /\ f[0] = {root}
               /\ \A k \in 1..Cardinality(Names) : f[k] = Nearer(subscribed, f[k - 1])
<1> DEFINE N == Cardinality(Names)
           Reaches(f) == f = [k \in 0..N |-> IF k = 0 THEN {root} ELSE Nearer(subscribed, f[k - 1])]
           reached == CHOOSE f : Reaches(f)
<1>1. N \in Nat
    BY NamesFinite
<1>2. {root} \in SUBSET Names
    OBVIOUS
<1>3. \E f \in [0..N -> SUBSET Names] : Reaches(f)
    <2> DEFINE g == [k \in 1..N |-> [T \in SUBSET Names |-> Nearer(subscribed, T)]]
    <2>1. g \in [1..N -> [SUBSET Names -> SUBSET Names]]
        BY NearerIs
    <2>2. \A k \in 1..N : \A T \in SUBSET Names : g[k][T] = Nearer(subscribed, T)
        OBVIOUS
    <2> HIDE DEF g, N
    <2>3. PICK f \in [0..N -> SUBSET Names] : Steps(f, N, {root}, g)
        BY <1>1, <1>2, <2>1, Recursion
    <2>4. f = [k \in 0..N |-> IF k = 0 THEN {root} ELSE g[k][f[k - 1]]]
        BY <2>3 DEF Steps
    <2>5. \A k \in 0..N : f[k] = IF k = 0 THEN {root} ELSE Nearer(subscribed, f[k - 1])
        <3>1. TAKE k \in 0..N
        <3>2. k # 0 => k \in 1..N /\ k - 1 \in 0..N
            BY <1>1
        <3>3. k # 0 => f[k - 1] \in SUBSET Names
            BY <2>3, <3>2
        <3>4. f[k] = IF k = 0 THEN {root} ELSE g[k][f[k - 1]]
            BY <2>4
        <3> QED
            BY <2>2, <3>2, <3>3, <3>4
    <2> QED
        BY <2>3, <2>5
<1>4. Reaches(reached)
    BY <1>3
<1>5. Reached(subscribed, root) = reached[N]
    BY DEF Reached
<1> HIDE DEF reached
<1>6. \A k \in 0..N : reached[k] = IF k = 0 THEN {root} ELSE Nearer(subscribed, reached[k - 1])
    BY <1>4
<1> HIDE DEF N
<1>7. reached[0] = {root} /\ \A k \in 1..N : reached[k] = Nearer(subscribed, reached[k - 1])
    <2>1. 0 \in 0..N /\ \A k \in 1..N : k \in 0..N /\ k # 0
        BY <1>1
    <2> QED
        BY <1>6, <2>1
<1>8. \A k \in 0..N : reached[k] \in SUBSET Names
    <2> DEFINE G == {k \in 0..N : reached[k] \in SUBSET Names}
    <2>1. 0 \in G
        BY <1>1, <1>2, <1>7
    <2>2. ASSUME NEW k \in 1..N, k - 1 \in G PROVE k \in G
        <3>1. k \in 0..N
            BY <1>1
        <3> QED
            BY <1>7, <2>2, <3>1, NearerIs
    <2> HIDE DEF G
    <2>3. 0..N \subseteq G
        BY <1>1, <2>1, <2>2, Upward
    <2> QED
        BY <2>3 DEF G
<1>9. reached \in [0..N -> SUBSET Names]
    <2>1. reached = [k \in 0..N |-> IF k = 0 THEN {root} ELSE Nearer(subscribed, reached[k - 1])]
        BY <1>4 DEF N
    <2>2. reached = [k \in 0..N |-> reached[k]]
        BY <2>1
    <2> QED
        BY <1>8, <2>2
<1> QED
    BY <1>5, <1>7, <1>9 DEF N

\* It is the least set that holds the root and is closed under the subscriptions.
LEMMA ReachedIs ==
    ASSUME NEW subscribed \in SUBSET Subscriptions, NEW root \in Names
    PROVE  /\ root \in Reached(subscribed, root)
           /\ Reached(subscribed, root) \subseteq Names
           /\ ClosedUnder(Reached(subscribed, root), subscribed)
           /\ \A T : root \in T /\ ClosedUnder(T, subscribed) => Reached(subscribed, root) \subseteq T
<1> DEFINE N == Cardinality(Names)
<1>1. N \in Nat /\ IsFiniteSet(Names)
    BY NamesFinite
<1> PICK f \in [0..N -> SUBSET Names] :
               /\ Reached(subscribed, root) = f[N]
               /\ f[0] = {root}
               /\ \A k \in 1..N : f[k] = Nearer(subscribed, f[k - 1])
    BY ReachedBy
<1> HIDE DEF N
<1>2. \A k \in 1..N : k \in 0..N /\ k - 1 \in 0..N /\ f[k] \in SUBSET Names /\ f[k - 1] \in SUBSET Names
    BY <1>1
<1>3. N \in 0..N /\ 0 \in 0..N
    BY <1>1
<1>4. \A k \in 0..N : root \in f[k]
    <2> DEFINE G == {k \in 0..N : root \in f[k]}
    <2>1. 0 \in G
        BY <1>3
    <2>2. ASSUME NEW k \in 1..N, k - 1 \in G PROVE k \in G
        BY <1>2, <2>2, NearerIs
    <2> HIDE DEF G
    <2>3. 0..N \subseteq G
        BY <1>1, <2>1, <2>2, Upward
    <2> QED
        BY <2>3 DEF G
<1>5. ASSUME NEW T, root \in T, ClosedUnder(T, subscribed) PROVE f[N] \subseteq T
    <2> DEFINE G == {k \in 0..N : f[k] \subseteq T}
    <2>1. 0 \in G
        BY <1>3, <1>5
    <2>2. ASSUME NEW k \in 1..N, k - 1 \in G PROVE k \in G
        BY <1>2, <1>5, <2>2, NearerIs
    <2> HIDE DEF G
    <2>3. 0..N \subseteq G
        BY <1>1, <2>1, <2>2, Upward
    <2> QED
        BY <1>3, <2>3 DEF G
<1>6. ClosedUnder(f[N], subscribed)
    <2> DEFINE Settles(k) == ClosedUnder(f[k], subscribed) \/ Cardinality(f[k]) > k
               G == {k \in 0..N : Settles(k)}
    <2>1. 0 \in G
        <3>1. Cardinality(f[0]) = 1
            BY FS_Singleton
        <3>2. Cardinality(f[0]) > 0
            BY <3>1
        <3> QED
            BY <1>3, <3>2
    <2>2. ASSUME NEW k \in 1..N, k - 1 \in G PROVE k \in G
        <3> DEFINE near == f[k - 1]
                   next == f[k]
        <3>1. next = Nearer(subscribed, near) /\ near \in SUBSET Names /\ next \in SUBSET Names
            BY <1>2
        <3>2. /\ near \subseteq next
              /\ next = near => ClosedUnder(near, subscribed)
              /\ ClosedUnder(near, subscribed) => next \subseteq near
            BY <3>1, NearerIs
        <3>3. IsFiniteSet(next) /\ IsFiniteSet(near)
            BY <1>1, <3>1, FS_Subset
        <3>4. k \in Nat /\ k \in 0..N /\ Settles(k - 1)
            BY <1>1, <1>2, <2>2
        <3>5. Cardinality(next) \in Nat /\ Cardinality(near) \in Nat
            BY <3>3, FS_CardinalityType
        <3>6. CASE next = near
            <4>1. ClosedUnder(next, subscribed)
                BY <3>2, <3>6
            <4> QED
                BY <3>4, <4>1
        <3>7. CASE next # near
            <4>1. Cardinality(near) <= Cardinality(next) /\ Cardinality(near) # Cardinality(next)
                BY <3>2, <3>3, <3>7, FS_Subset
            <4>2. ~ClosedUnder(near, subscribed)
                BY <3>2, <3>7
            <4>3. Cardinality(near) > k - 1
                BY <3>4, <4>2
            <4> HIDE DEF near, next
            <4>4. Cardinality(next) > k
                BY <3>4, <3>5, <4>1, <4>3
            <4> QED
                BY <3>4, <4>4 DEF next
        <3> QED
            BY <3>6, <3>7
    <2> HIDE DEF G
    <2>3. 0..N \subseteq G
        BY <1>1, <2>1, <2>2, Upward
    <2>4. Settles(N)
        BY <1>3, <2>3 DEF G
    <2>5. f[N] \in SUBSET Names
        BY <1>3
    <2>6. Cardinality(f[N]) <= N /\ Cardinality(f[N]) \in Nat
        BY <1>1, <2>5, FS_Subset, FS_CardinalityType DEF N
    <2>7. ~(Cardinality(f[N]) > N)
        BY <1>1, <2>6
    <2> QED
        BY <2>4, <2>7
<1>7. f[N] \subseteq Names
    BY <1>3
<1> QED
    BY <1>3, <1>4, <1>5, <1>6, <1>7

(***************************************************************************)
(* What profiles await, by configuration.                                  *)
(***************************************************************************)

AwaitsIn(c, p) ==
    {[on |-> <<w.on, p[2]>>, type |-> w.type, by |-> p] : w \in c.waits[p[1]]}
    \cup {[on |-> <<b, p[2]>>, type |-> "TERMINATION", by |-> p] : b \in c.checks[p[1]]}

SubsIn(c, S) == UNION {AwaitsIn(c, p) : p \in S}

NamedIn(c, S) == {s.on : s \in SubsIn(c, S)}

LEMMA ConfType ==
    ASSUME conf \in Configs
    PROVE  /\ conf.files \in Seq(SUBSET Bases) /\ conf.resets \in BOOLEAN
           /\ \A b \in Bases :
                /\ conf.waits[b] \subseteq [on : Bases, type : Types] /\ conf.checks[b] \subseteq Bases
                /\ \A w \in conf.waits[b] : w.type = "ACTIVATION" => w.on = b
<1>1. conf \in Configuration
    BY ConfigsAssumption
<1>2. /\ conf.files \in Seq(SUBSET Bases) /\ conf.resets \in BOOLEAN
      /\ conf.waits \in [Bases -> SUBSET [on : Bases, type : Types]]
      /\ conf.checks \in [Bases -> SUBSET Bases]
    BY <1>1 DEF Configuration
<1> QED
    BY <1>2, ConfigsAssumption

LEMMA AwaitsAre ==
    /\ \A p : Awaits(p) = AwaitsIn(conf, p)
    /\ \A S : Union(Awaits, S) = SubsIn(conf, S)
<1>1. \A p : Awaits(p) = AwaitsIn(conf, p)
    BY DEF Awaits, AwaitsIn, Suffixed, Base
<1> QED
    BY <1>1 DEF Union, SubsIn

LEMMA NameIs ==
    ASSUME NEW p \in Names
    PROVE  p[1] \in Bases /\ p[2] \in 0..MaxClones /\ p = <<p[1], p[2]>>
BY DEF Names

\* Who awaits waits within its own copy, and only a root waits for ACTIVATION, its own.
LEMMA ByName ==
    ASSUME NEW c, NEW p, NEW s \in AwaitsIn(c, p)
    PROVE  /\ s.on[1] \in NamedBy(c, p[1])
           /\ s.type = "TERMINATION" => s.on[1] \in FollowedBy(c, p[1])
           /\ s.type = "ACTIVATION" => \E w \in c.waits[p[1]] : w.type = "ACTIVATION"
<1>1. CASE \E w \in c.waits[p[1]] : s = [on |-> <<w.on, p[2]>>, type |-> w.type, by |-> p]
    <2>1. PICK w \in c.waits[p[1]] : s = [on |-> <<w.on, p[2]>>, type |-> w.type, by |-> p]
        BY <1>1
    <2>2. s.on[1] = w.on /\ s.type = w.type
        BY <2>1
    <2> QED
        BY <2>2 DEF NamedBy, FollowedBy
<1>2. CASE \E b \in c.checks[p[1]] : s = [on |-> <<b, p[2]>>, type |-> "TERMINATION", by |-> p]
    <2>1. PICK b \in c.checks[p[1]] : s = [on |-> <<b, p[2]>>, type |-> "TERMINATION", by |-> p]
        BY <1>2
    <2>2. s.on[1] = b /\ s.type = "TERMINATION"
        BY <2>1
    <2> QED
        BY <2>2 DEF NamedBy, FollowedBy
<1> QED
    BY <1>1, <1>2 DEF AwaitsIn

LEMMA AwaitsOf ==
    ASSUME conf \in Configs, NEW p \in Names, NEW s \in AwaitsIn(conf, p)
    PROVE  /\ s \in Subscriptions /\ s.by = p /\ s.on[2] = p[2]
           /\ s.type = "ACTIVATION" => s.on = p
<1>1. p[1] \in Bases /\ p[2] \in 0..MaxClones /\ p = <<p[1], p[2]>>
    BY NameIs
<1>2. CASE \E w \in conf.waits[p[1]] : s = [on |-> <<w.on, p[2]>>, type |-> w.type, by |-> p]
    <2>1. PICK w \in conf.waits[p[1]] : s = [on |-> <<w.on, p[2]>>, type |-> w.type, by |-> p]
        BY <1>2
    <2>2. w.on \in Bases /\ w.type \in Types /\ (w.type = "ACTIVATION" => w.on = p[1])
        BY <1>1, ConfType
    <2>3. s.on = <<w.on, p[2]>> /\ s.type = w.type /\ s.by = p
        BY <2>1
    <2>4. <<w.on, p[2]>> \in Names
        BY <1>1, <2>2 DEF Names
    <2> QED
        BY <1>1, <2>1, <2>2, <2>3, <2>4 DEF Subscriptions
<1>3. CASE \E b \in conf.checks[p[1]] : s = [on |-> <<b, p[2]>>, type |-> "TERMINATION", by |-> p]
    <2>1. PICK b \in conf.checks[p[1]] : s = [on |-> <<b, p[2]>>, type |-> "TERMINATION", by |-> p]
        BY <1>3
    <2>2. b \in Bases
        BY <1>1, ConfType
    <2>3. <<b, p[2]>> \in Names
        BY <1>1, <2>2 DEF Names
    <2> QED
        BY <2>1, <2>3 DEF Subscriptions, Types
<1> QED
    BY <1>2, <1>3 DEF AwaitsIn

LEMMA SubsAre ==
    ASSUME conf \in Configs, NEW S \in SUBSET Names
    PROVE  /\ SubsIn(conf, S) \in SUBSET Subscriptions
           /\ \A s \in SubsIn(conf, S) : s.by \in S /\ s \in AwaitsIn(conf, s.by) /\ s.on[2] = s.by[2]
           /\ \A p \in S : AwaitsIn(conf, p) \subseteq SubsIn(conf, S)
           /\ \A T \in SUBSET S : SubsIn(conf, T) \subseteq SubsIn(conf, S)
           /\ \A T \in SUBSET Names : SubsIn(conf, S \cup T) = SubsIn(conf, S) \cup SubsIn(conf, T)
           /\ NamedIn(conf, S) \in SUBSET Names
           /\ ClosedUnder(S, SubsIn(conf, S))
<1>1. \A s : s \in SubsIn(conf, S) <=> \E p \in S : s \in AwaitsIn(conf, p)
    BY DEF SubsIn
<1>2. \A s \in SubsIn(conf, S) : /\ s \in Subscriptions /\ s.by \in S /\ s \in AwaitsIn(conf, s.by)
                                 /\ s.on[2] = s.by[2]
    BY <1>1, AwaitsOf
<1>3. NamedIn(conf, S) \in SUBSET Names
    BY <1>2 DEF NamedIn, Subscriptions
<1> QED
    BY <1>1, <1>2, <1>3 DEF SubsIn, ClosedUnder

\* The copies of a profile await the copies of what it awaits.
LEMMA AwaitsCopied ==
    ASSUME conf \in Configs, NEW p \in Names, NEW s \in AwaitsIn(conf, p), NEW n \in 0..MaxClones
    PROVE  /\ <<p[1], n>> \in Names
           /\ [on |-> <<s.on[1], n>>, type |-> s.type, by |-> <<p[1], n>>] \in AwaitsIn(conf, <<p[1], n>>)
<1>1. <<p[1], n>> \in Names
    BY NameIs DEF Names
<1> DEFINE q == <<p[1], n>>
<1>2. q[1] = p[1] /\ q[2] = n
    OBVIOUS
<1>3. CASE \E w \in conf.waits[p[1]] : s = [on |-> <<w.on, p[2]>>, type |-> w.type, by |-> p]
    <2>1. PICK w \in conf.waits[p[1]] : s = [on |-> <<w.on, p[2]>>, type |-> w.type, by |-> p]
        BY <1>3
    <2>2. s.on[1] = w.on /\ s.type = w.type
        BY <2>1
    <2> HIDE DEF q
    <2>3. [on |-> <<w.on, q[2]>>, type |-> w.type, by |-> q] \in AwaitsIn(conf, q)
        BY <1>2 DEF AwaitsIn
    <2> QED
        BY <1>1, <1>2, <2>2, <2>3 DEF q
<1>4. CASE \E b \in conf.checks[p[1]] : s = [on |-> <<b, p[2]>>, type |-> "TERMINATION", by |-> p]
    <2>1. PICK b \in conf.checks[p[1]] : s = [on |-> <<b, p[2]>>, type |-> "TERMINATION", by |-> p]
        BY <1>4
    <2>2. s.on[1] = b /\ s.type = "TERMINATION"
        BY <2>1
    <2> HIDE DEF q
    <2>3. [on |-> <<b, q[2]>>, type |-> "TERMINATION", by |-> q] \in AwaitsIn(conf, q)
        BY <1>2 DEF AwaitsIn
    <2> QED
        BY <1>1, <1>2, <2>2, <2>3 DEF q
<1> QED
    BY <1>3, <1>4 DEF AwaitsIn

LEMMA ChecksAre ==
    ASSUME conf \in Configs, NEW S \in SUBSET Names
    PROVE  \A c \in Union(Checked, S) : /\ c \in Names \X S /\ c[1][2] = c[2][2]
                                        /\ \E s \in SubsIn(conf, S) : s.on = c[1]
<1>1. SUFFICES ASSUME NEW p \in S, NEW c \in Checked(p)
               PROVE  /\ c \in Names \X S /\ c[1][2] = c[2][2]
                      /\ \E s \in AwaitsIn(conf, p) : s.on = c[1]
    BY DEF Union, SubsIn
<1>2. PICK b \in conf.checks[p[1]] : c = <<<<b, p[2]>>, p>>
    BY DEF Checked, Base, Suffixed
<1>3. p[1] \in Bases /\ p[2] \in 0..MaxClones /\ b \in Bases
    BY <1>2, NameIs, ConfType
<1>4. [on |-> <<b, p[2]>>, type |-> "TERMINATION", by |-> p] \in AwaitsIn(conf, p)
    BY <1>2 DEF AwaitsIn
<1>5. <<b, p[2]>> \in Names
    BY <1>3 DEF Names
<1> QED
    BY <1>2, <1>4, <1>5

(***************************************************************************)
(* Types, what the tables are made of, and the counts.                     *)
(***************************************************************************)

\* Each stream is what some of the subscriptions of the profiles S lead to.
BuiltFrom(c, cache, S) ==
    /\ DOMAIN cache \subseteq S
    /\ \A r \in DOMAIN cache : \E X \in SUBSET SubsIn(c, S) : cache[r] = Reached(X, r)

\* Subscriptions are among those configured, and so are those that the cache is
\* built from.
Built ==
    /\ checkers = checkedByMap
    /\ waitEventMap \subseteq SubsIn(conf, profiles)
    /\ BuiltFrom(conf, streamCache, profiles)

\* The count of declared profiles is never too low: reset() may leave it too high.
Counts ==
    ~exited => /\ forwardDeclaredProfiles >= Cardinality(declared)
               /\ nonTerminatedProfiles = Cardinality(profiles \ terminated)

Typed == TypeOK /\ Built /\ Counts

LEMMA PartFinite == \A S \in SUBSET Names : IsFiniteSet(S) /\ Cardinality(S) \in Nat
BY NamesFinite, FS_Subset, FS_CardinalityType

LEMMA JoinCount ==
    ASSUME NEW S \in SUBSET Names, NEW T \in SUBSET Names, S \cap T = {}
    PROVE  Cardinality(S \cup T) = Cardinality(S) + Cardinality(T)
<1>1. IsFiniteSet(S) /\ IsFiniteSet(T) /\ Cardinality(S) \in Nat /\ Cardinality(T) \in Nat
    BY PartFinite
<1>2. Cardinality(S \cup T) = Cardinality(S) + Cardinality(T) - Cardinality(S \cap T)
    BY <1>1, FS_Union
<1>3. Cardinality(S \cap T) = 0
    BY FS_EmptySet
<1> QED
    BY <1>1, <1>2, <1>3

LEMMA SplitCount ==
    ASSUME NEW S \in SUBSET Names, NEW T
    PROVE  Cardinality(S) = Cardinality(S \ T) + Cardinality(S \cap T)
<1>1. S \ T \in SUBSET Names /\ S \cap T \in SUBSET Names /\ (S \ T) \cap (S \cap T) = {}
    OBVIOUS
<1>2. (S \ T) \cup (S \cap T) = S
    OBVIOUS
<1> QED
    BY <1>1, <1>2, JoinCount

\* What the declared names become when new profiles, which name others, are created,
\* counted as the count is.
CountedOn(old, known, new, named) ==
    Cardinality((old \cup named) \ (known \cup new))
    = Cardinality(old) + (Cardinality(named \ (new \cup known \cup old)) - Cardinality(new \cap old))

\* What is declared and not created grows as the count does.
LEMMA ForwardCount ==
    ASSUME NEW old \in SUBSET Names, NEW known \in SUBSET Names, NEW new \in SUBSET Names,
           NEW named \in SUBSET Names, old \cap known = {}
    PROVE  CountedOn(old, known, new, named)
<1> DEFINE rest == old \ new
           more == named \ (new \cup known \cup old)
           named2 == (old \cup named) \ (known \cup new)
           both == old \cap new
<1>1. named2 = rest \cup more /\ rest \cap more = {}
    OBVIOUS
<1>2. rest \in SUBSET Names /\ more \in SUBSET Names /\ both \in SUBSET Names
    OBVIOUS
<1>3. Cardinality(named2) = Cardinality(rest) + Cardinality(more)
    BY <1>1, <1>2, JoinCount
<1>4. Cardinality(old) = Cardinality(rest) + Cardinality(both)
    BY SplitCount
<1>5. new \cap old = both
    OBVIOUS
<1>6. Cardinality(rest) \in Nat /\ Cardinality(more) \in Nat /\ Cardinality(both) \in Nat
    BY <1>2, PartFinite
<1>7. Cardinality(named2) = Cardinality(old) + (Cardinality(more) - Cardinality(both))
    BY <1>3, <1>4, <1>6
<1> QED
    BY <1>5, <1>7 DEF CountedOn

LEMMA NamedAre ==
    \A S : {s.on : s \in Union(Awaits, S)} = NamedIn(conf, S)
BY AwaitsAre DEF NamedIn

\* configureProfile of a set of profiles.
LEMMA Configuring ==
    ASSUME Typed, ~exited, conf' = conf, NEW new \in SUBSET Names, Configured(new)
    PROVE  /\ profiles' = profiles \cup new
           /\ declared' = (declared \cup NamedIn(conf, new)) \ (profiles \cup new)
           /\ waitEventMap' = waitEventMap \cup SubsIn(conf, new)
           /\ activeList' = activeList \cup {p \in new : AwaitsIn(conf, p) = {} \/
                  \E s \in AwaitsIn(conf, p) : s.type = "ACTIVATION"}
           /\ terminated' = terminated
           /\ forwardDeclaredProfiles' - Cardinality(declared')
                  = forwardDeclaredProfiles - Cardinality(declared)
           /\ forwardDeclaredProfiles' \in Nat /\ Cardinality(declared') \in Nat
           /\ nonTerminatedProfiles' \in Nat
           /\ checkers' = checkedByMap'
           /\ checkers' = checkers \cup Union(Checked, new)
           /\ checkers' \subseteq Names \X (profiles \cup new)
           /\ forwardDeclaredProfiles' >= Cardinality(declared')
           /\ ~Fails(new) => new \cap profiles = {}
           /\ ~Fails(new) => nonTerminatedProfiles' = Cardinality((profiles \cup new) \ terminated)
<1> DEFINE named == NamedIn(conf, new)
<1>1. conf \in Configs /\ profiles \in SUBSET Names /\ declared \in SUBSET Names
      /\ declared \cap profiles = {} /\ terminated \subseteq profiles
      /\ forwardDeclaredProfiles \in Nat /\ nonTerminatedProfiles \in Nat
    BY DEF Typed, TypeOK
<1>2. named \in SUBSET Names
    BY <1>1, SubsAre
<1>3. {s.on : s \in Union(Awaits, new)} = named /\ Union(Awaits, new) = SubsIn(conf, new)
    BY NamedAre, AwaitsAre
<1>4. /\ profiles' = profiles \cup new
      /\ declared' = (declared \cup named) \ (profiles \cup new)
      /\ waitEventMap' = waitEventMap \cup SubsIn(conf, new)
      /\ terminated' = terminated
      /\ forwardDeclaredProfiles' = forwardDeclaredProfiles +
             (Cardinality(named \ (new \cup profiles \cup declared)) - Cardinality(new \cap declared))
      /\ nonTerminatedProfiles' = nonTerminatedProfiles + Cardinality(new)
      /\ checkers' = checkedByMap \cup Union(Checked, new)
      /\ checkers' = checkedByMap'
    BY <1>3 DEF Configured, Forward
<1>5. activeList' = activeList \cup {p \in new : AwaitsIn(conf, p) = {} \/
                  \E s \in AwaitsIn(conf, p) : s.type = "ACTIVATION"}
    BY AwaitsAre DEF Configured
<1>6. Cardinality(declared') = Cardinality(declared) +
          (Cardinality(named \ (new \cup profiles \cup declared)) - Cardinality(new \cap declared))
    <2> HIDE DEF named
    <2>a. declared \in SUBSET Names /\ profiles \in SUBSET Names /\ declared \cap profiles = {}
        BY <1>1
    <2>1. CountedOn(declared, profiles, new, named)
        BY <2>a, <1>2, ForwardCount
    <2>2. declared' = (declared \cup named) \ (profiles \cup new)
        BY <1>4
    <2> QED
        BY <2>1, <2>2 DEF CountedOn
<1>7. /\ Cardinality(declared) \in Nat /\ Cardinality(declared') \in Nat /\ Cardinality(new) \in Nat
      /\ Cardinality(named \ (new \cup profiles \cup declared)) \in Nat
      /\ Cardinality(new \cap declared) \in Nat
    BY <1>1, <1>2, <1>4, PartFinite
<1>8. forwardDeclaredProfiles >= Cardinality(declared)
    BY DEF Typed, Counts
<1>9. /\ forwardDeclaredProfiles' - Cardinality(declared')
             = forwardDeclaredProfiles - Cardinality(declared)
      /\ forwardDeclaredProfiles' \in Nat /\ nonTerminatedProfiles' \in Nat
      /\ forwardDeclaredProfiles' >= Cardinality(declared')
    <2> DEFINE d == Cardinality(declared)
               e == Cardinality(declared')
               f == forwardDeclaredProfiles
               g == forwardDeclaredProfiles'
               a == Cardinality(named \ (new \cup profiles \cup declared))
               b == Cardinality(new \cap declared)
    <2>1. /\ d \in Nat /\ e \in Nat /\ f \in Nat /\ a \in Nat /\ b \in Nat
          /\ g = f + (a - b) /\ e = d + (a - b) /\ f >= d
        BY <1>1, <1>4, <1>6, <1>7, <1>8
    <2> HIDE DEF d, e, f, g, a, b
    <2>2. g - e = f - d /\ g \in Nat /\ g >= e
        BY <2>1
    <2>3. nonTerminatedProfiles' \in Nat
        BY <1>1, <1>4, <1>7
    <2> QED
        BY <2>2, <2>3 DEF d, e, f, g
<1>10. /\ checkers' = checkers \cup Union(Checked, new)
       /\ checkers' \subseteq Names \X (profiles \cup new)
    <2>1. checkers = checkedByMap /\ checkers \subseteq Names \X profiles
        BY DEF Typed, TypeOK, Built
    <2>2. Union(Checked, new) \subseteq Names \X new
        BY <1>1, ChecksAre
    <2> QED
        BY <1>4, <2>1, <2>2
<1>11. ASSUME ~Fails(new)
       PROVE  new \cap profiles = {} /\ nonTerminatedProfiles' = Cardinality((profiles \cup new) \ terminated)
    <2>1. new \cap profiles = {}
        BY <1>11 DEF Fails
    <2>2. (profiles \cup new) \ terminated = (profiles \ terminated) \cup new
        BY <1>1, <2>1
    <2>3. Cardinality((profiles \ terminated) \cup new) = Cardinality(profiles \ terminated) + Cardinality(new)
        BY <1>1, <2>1, JoinCount
    <2>4. nonTerminatedProfiles = Cardinality(profiles \ terminated)
        BY DEF Typed, Counts
    <2> QED
        BY <1>4, <2>1, <2>2, <2>3, <2>4
<1> QED
    BY <1>4, <1>5, <1>7, <1>9, <1>10, <1>11

LEMMA BuiltMore ==
    ASSUME conf \in Configs, NEW S \in SUBSET Names, NEW T \in SUBSET S, NEW cache, BuiltFrom(conf, cache, T),
           NEW W \in SUBSET SubsIn(conf, S), NEW roots \in SUBSET S
    PROVE  BuiltFrom(conf, Cached(cache, W, roots), S)
<1> DEFINE new == Cached(cache, W, roots)
<1>1. /\ DOMAIN new = DOMAIN cache \cup roots
      /\ \A r \in DOMAIN cache : new[r] = cache[r]
      /\ \A r \in roots : r \notin DOMAIN cache => new[r] = Reached(W, r)
    BY DEF Cached
<1> HIDE DEF new
<1>2. SubsIn(conf, T) \subseteq SubsIn(conf, S)
    BY SubsAre
<1>3. DOMAIN cache \subseteq T /\ \A r \in DOMAIN cache : \E X \in SUBSET SubsIn(conf, T) : cache[r] = Reached(X, r)
    BY DEF BuiltFrom
<1>4. ASSUME NEW r \in DOMAIN new PROVE \E X \in SUBSET SubsIn(conf, S) : new[r] = Reached(X, r)
    <2>1. CASE r \in DOMAIN cache
        <3>1. PICK X \in SUBSET SubsIn(conf, T) : cache[r] = Reached(X, r)
            BY <1>3, <2>1
        <3> QED
            BY <1>1, <1>2, <2>1, <3>1
    <2>2. CASE r \notin DOMAIN cache
        BY <1>1, <1>4, <2>2
    <2> QED
        BY <2>1, <2>2
<1>5. BuiltFrom(conf, new, S)
    BY <1>1, <1>3, <1>4 DEF BuiltFrom
<1> QED
    BY <1>5 DEF new

LEMMA BuiltWithin ==
    ASSUME conf \in Configs, NEW S \in SUBSET Names, NEW cache, BuiltFrom(conf, cache, S), NEW r \in DOMAIN cache
    PROVE  r \in S /\ r \in cache[r] /\ cache[r] \subseteq S
<1>1. PICK X \in SUBSET SubsIn(conf, S) : cache[r] = Reached(X, r)
    BY DEF BuiltFrom
<1>2. r \in S /\ SubsIn(conf, S) \in SUBSET Subscriptions /\ ClosedUnder(S, SubsIn(conf, S))
    BY SubsAre DEF BuiltFrom
<1>3. X \in SUBSET Subscriptions /\ ClosedUnder(S, X)
    BY <1>1, <1>2 DEF ClosedUnder
<1>4. r \in Reached(X, r) /\ Reached(X, r) \subseteq S
    BY <1>2, <1>3, ReachedIs
<1> QED
    BY <1>1, <1>2, <1>4

LEMMA InitTyped == Init => Typed
<1> SUFFICES ASSUME Init PROVE Typed
    OBVIOUS
<1>1. /\ conf \in Configs /\ config = 0 /\ toReload = 0 /\ declared = {} /\ profiles = {}
      /\ forwardDeclaredProfiles = 0 /\ checkedByMap = {} /\ checkers = {} /\ waitEventMap = {}
      /\ activeList = {} /\ streamCache = <<>> /\ terminated = {} /\ nonTerminatedProfiles = 0
      /\ clonedStreams = [r \in Originals(Bases) |-> 0]
    BY DEF Init
<1>2. Len(conf.files) \in Nat /\ 0 \in 0..MaxClones
    BY <1>1, ConfType, LenProperties, BoundsAssumption
<1>3. DOMAIN streamCache = {} /\ Cardinality({}) = 0
    BY <1>1, FS_EmptySet
<1>4. clonedStreams \in [Originals(Bases) -> 0..MaxClones]
    BY <1>1, <1>2
<1>5. 0 \in 0..Len(conf.files)
    BY <1>2
<1>6. TypeOK
    BY <1>1, <1>3, <1>4, <1>5 DEF TypeOK
<1>7. Built
    BY <1>1, <1>3 DEF Built, BuiltFrom
<1>8. Counts
    BY <1>1, <1>3 DEF Counts
<1> QED
    BY <1>6, <1>7, <1>8 DEF Typed

\* What is left to show of a step that configures profiles.
LEMMA ConfiguringTyped ==
    ASSUME Typed, ~exited, conf' = conf, NEW new \in SUBSET Names, Configured(new),
           Fails(new) => exited',
           config' \in 0..Len(conf.files), toReload' = toReload,
           BuiltFrom(conf, streamCache', profiles \cup new),
           clonedStreams' \in [Originals(Bases) -> 0..MaxClones]
    PROVE  Typed'
<1>1. conf \in Configs /\ profiles \in SUBSET Names /\ declared \in SUBSET Names
      /\ declared \cap profiles = {} /\ terminated \subseteq profiles /\ toReload \in 0..Len(conf.files)
      /\ activeList \subseteq profiles
    BY DEF Typed, TypeOK
<1>2. /\ profiles' = profiles \cup new
      /\ declared' = (declared \cup NamedIn(conf, new)) \ (profiles \cup new)
      /\ waitEventMap' = waitEventMap \cup SubsIn(conf, new)
      /\ terminated' = terminated
      /\ forwardDeclaredProfiles' \in Nat /\ nonTerminatedProfiles' \in Nat
      /\ checkers' = checkedByMap'
      /\ checkers' \subseteq Names \X (profiles \cup new)
      /\ forwardDeclaredProfiles' >= Cardinality(declared')
      /\ ~Fails(new) => nonTerminatedProfiles' = Cardinality((profiles \cup new) \ terminated)
    BY Configuring
<1>20. activeList' \subseteq activeList \cup new
    <2>1. activeList' = activeList \cup {p \in new : AwaitsIn(conf, p) = {} \/
                  \E s \in AwaitsIn(conf, p) : s.type = "ACTIVATION"}
        BY Configuring
    <2> QED
        BY <2>1
<1> DEFINE S == profiles \cup new
<1>3. S \in SUBSET Names /\ profiles \in SUBSET S /\ new \in SUBSET S
    BY <1>1
<1>4. waitEventMap' \subseteq SubsIn(conf, S)
    <2>1. waitEventMap \subseteq SubsIn(conf, profiles)
        BY DEF Typed, Built
    <2>2. SubsIn(conf, S) = SubsIn(conf, profiles) \cup SubsIn(conf, new)
        BY <1>1, SubsAre
    <2> QED
        BY <1>2, <2>1, <2>2
<1>5. \A s \in SubsIn(conf, S) : s \in [on : Names, type : Types, by : S]
    <2>1. \A s \in SubsIn(conf, S) : s \in Subscriptions /\ s.by \in S
        BY <1>1, <1>3, SubsAre
    <2> QED
        BY <2>1 DEF Subscriptions
<1>6. \A r \in DOMAIN streamCache' : streamCache'[r] \subseteq S
    BY <1>1, <1>3, BuiltWithin
<1>7. NamedIn(conf, new) \in SUBSET Names
    BY <1>1, SubsAre
<1> HIDE DEF S
<1>8. profiles' = S /\ declared' \subseteq Names /\ declared' \cap S = {} /\ terminated \subseteq S
      /\ activeList' \subseteq S
    BY <1>1, <1>2, <1>20, <1>3, <1>7 DEF S
<1>9. checkers' \subseteq Names \X S /\ checkedByMap' \subseteq Names \X Names
    BY <1>2, <1>3 DEF S
<1>10. waitEventMap' \subseteq [on : Names, type : Types, by : S]
    BY <1>4, <1>5
<1>11. TypeOK'
    BY <1>1, <1>2, <1>3, <1>6, <1>8, <1>9, <1>10 DEF TypeOK
<1>12. Built'
    BY <1>2, <1>4, <1>8 DEF Built, S
<1>13. Counts'
    BY <1>2, <1>8 DEF Counts, S
<1> QED
    BY <1>11, <1>12, <1>13 DEF Typed

\* What a clone is copied from, and the copies.
CacheAt(root) == Cached(streamCache, waitEventMap, {root})
CloneNumber(root) == clonedStreams[root] + 1
Copies(S, n) == {<<p[1], n>> : p \in S}

LEMMA CopiesAre ==
    ASSUME NEW S \in SUBSET Names, NEW n \in 0..MaxClones
    PROVE  /\ Copies(S, n) \in SUBSET Names
           /\ \A q \in Copies(S, n) : q[2] = n /\ \E p \in S : q = <<p[1], n>>
           /\ \A p \in S : <<p[1], n>> \in Copies(S, n)
BY NameIs DEF Copies, Names

LEMMA OriginalsAre ==
    ASSUME NEW S \in SUBSET Bases
    PROVE  /\ Originals(S) \in SUBSET Names
           /\ \A p : p \in Originals(S) <=> p \in Names /\ p[2] = 0 /\ p[1] \in S
<1>1. 0 \in 0..MaxClones
    BY BoundsAssumption
<1> QED
    BY <1>1, NameIs DEF Originals, Names

\* The next file.
LEMMA Loading ==
    ASSUME Typed, LoadConfiguration
    PROVE  LET new == Originals(conf.files[config + 1]) IN
           /\ ~exited /\ conf' = conf /\ toReload' = toReload
           /\ config \in Nat /\ config + 1 \in 1..Len(conf.files) /\ config' = config + 1
           /\ conf.files[config + 1] \in SUBSET Bases /\ new \in SUBSET Names
           /\ Configured(new) /\ exited' = Fails(new)
           /\ streamCache' = Cached(streamCache, waitEventMap', activeList')
           /\ waitEventMap' \subseteq SubsIn(conf, profiles \cup new)
           /\ activeList' \subseteq profiles \cup new
           /\ BuiltFrom(conf, streamCache', profiles \cup new)
           /\ clonedStreams' = clonedStreams
<1> DEFINE new == Originals(conf.files[config + 1])
           S == profiles \cup new
<1>1. conf \in Configs /\ config \in 0..Len(conf.files) /\ profiles \in SUBSET Names
      /\ activeList \subseteq profiles
    BY DEF Typed, TypeOK
<1>2. conf.files \in Seq(SUBSET Bases) /\ Len(conf.files) \in Nat /\ config < Len(conf.files)
    BY <1>1, ConfType, LenProperties DEF LoadConfiguration
<1>3. config \in Nat /\ config + 1 \in 1..Len(conf.files)
    BY <1>1, <1>2
<1>4. conf.files[config + 1] \in SUBSET Bases
    BY <1>2, <1>3, ElementOfSeq
<1>5. new \in SUBSET Names
    BY <1>4, OriginalsAre
<1>6. /\ ~exited /\ conf' = conf /\ toReload' = toReload /\ config' = config + 1
      /\ Configured(new) /\ exited' = Fails(new)
      /\ streamCache' = Cached(streamCache, waitEventMap', activeList')
      /\ clonedStreams' = clonedStreams
    BY DEF LoadConfiguration
<1> HIDE DEF new
<1>7. /\ waitEventMap' = waitEventMap \cup SubsIn(conf, new)
      /\ activeList' = activeList \cup {p \in new : AwaitsIn(conf, p) = {} \/
                  \E s \in AwaitsIn(conf, p) : s.type = "ACTIVATION"}
    BY <1>5, <1>6, Configuring
<1>8. S \in SUBSET Names /\ profiles \in SUBSET S /\ activeList' \in SUBSET S
    BY <1>1, <1>5, <1>7
<1>9. waitEventMap' \in SUBSET SubsIn(conf, S)
    <2>1. waitEventMap \subseteq SubsIn(conf, profiles)
        BY DEF Typed, Built
    <2>2. SubsIn(conf, S) = SubsIn(conf, profiles) \cup SubsIn(conf, new)
        BY <1>1, <1>5, SubsAre
    <2> QED
        BY <1>7, <2>1, <2>2
<1>10. BuiltFrom(conf, streamCache, profiles)
    BY DEF Typed, Built
<1>11. BuiltFrom(conf, streamCache', S)
    BY <1>1, <1>6, <1>8, <1>9, <1>10, BuiltMore
<1> QED
    BY <1>3, <1>4, <1>5, <1>6, <1>8, <1>9, <1>11 DEF new

\* A copy of a stream.
LEMMA Cloning ==
    ASSUME Typed, NEW root \in Names, CloneStream(root)
    PROVE  LET n == CloneNumber(root)
               stream == CacheAt(root)[root]
               new == Copies(stream, n)
           IN
           /\ ~exited /\ conf' = conf /\ config' = config /\ toReload' = toReload
           /\ root \in profiles /\ root[2] = 0
           /\ n \in 1..MaxClones /\ clonedStreams[root] \in Nat
           /\ stream \in SUBSET profiles /\ root \in stream /\ new \in SUBSET Names
           /\ <<root[1], n>> \in new
           /\ Configured(new) /\ exited' = (Fails(new) \/ forwardDeclaredProfiles' > 0)
           /\ BuiltFrom(conf, CacheAt(root), profiles)
           /\ streamCache' = Cached(CacheAt(root), waitEventMap', {<<root[1], n>>})
           /\ waitEventMap' = waitEventMap \cup SubsIn(conf, new)
           /\ waitEventMap' \subseteq SubsIn(conf, profiles \cup new)
           /\ BuiltFrom(conf, streamCache', profiles \cup new)
           /\ root \in Originals(Bases)
           /\ clonedStreams' = [clonedStreams EXCEPT ![root] = n]
<1> DEFINE n == CloneNumber(root)
           cache == CacheAt(root)
           stream == cache[root]
           new == Copies(stream, n)
           S == profiles \cup new
<1>1. conf \in Configs /\ profiles \in SUBSET Names /\ clonedStreams \in [Originals(Bases) -> 0..MaxClones]
    BY DEF Typed, TypeOK
<1>2. /\ ~exited /\ conf' = conf /\ config' = config /\ toReload' = toReload
      /\ root \in profiles /\ root[2] = 0 /\ clonedStreams[root] < MaxClones
      /\ Configured(new) /\ exited' = (Fails(new) \/ forwardDeclaredProfiles' > 0)
      /\ streamCache' = Cached(cache, waitEventMap', {<<root[1], n>>})
      /\ clonedStreams' = [clonedStreams EXCEPT ![root] = n]
    BY DEF CloneStream, Ready, Base, CacheAt, CloneNumber, Copies
<1>3. root \in Originals(Bases)
    BY <1>1, <1>2, OriginalsAre, NameIs
<1>4. clonedStreams[root] \in Nat /\ n \in 1..MaxClones
    BY <1>1, <1>2, <1>3, BoundsAssumption DEF CloneNumber
<1>5. BuiltFrom(conf, cache, profiles)
    <2>1. BuiltFrom(conf, streamCache, profiles) /\ waitEventMap \in SUBSET SubsIn(conf, profiles)
        BY DEF Typed, Built
    <2> QED
        BY <1>1, <1>2, <2>1, BuiltMore DEF CacheAt
<1>6. root \in DOMAIN cache
    BY DEF CacheAt, Cached
<1> HIDE DEF cache, n
<1>7. stream \in SUBSET profiles /\ root \in stream
    BY <1>1, <1>5, <1>6, BuiltWithin
<1>8. n \in 0..MaxClones /\ stream \in SUBSET Names
    BY <1>1, <1>4, <1>7
<1>9. new \in SUBSET Names /\ <<root[1], n>> \in new
    BY <1>7, <1>8, CopiesAre
<1> HIDE DEF new, stream
<1>10. waitEventMap' = waitEventMap \cup SubsIn(conf, new)
    BY <1>2, <1>9, Configuring
<1>11. S \in SUBSET Names /\ profiles \in SUBSET S /\ {<<root[1], n>>} \in SUBSET S
    BY <1>1, <1>9
<1>12. waitEventMap' \in SUBSET SubsIn(conf, S)
    <2>1. waitEventMap \subseteq SubsIn(conf, profiles)
        BY DEF Typed, Built
    <2>2. SubsIn(conf, S) = SubsIn(conf, profiles) \cup SubsIn(conf, new)
        BY <1>1, <1>9, SubsAre
    <2> QED
        BY <1>10, <2>1, <2>2
<1>13. BuiltFrom(conf, streamCache', S)
    BY <1>1, <1>2, <1>5, <1>11, <1>12, BuiltMore
<1> QED
    BY <1>2, <1>3, <1>4, <1>5, <1>7, <1>9, <1>10, <1>12, <1>13 DEF new, stream, cache, n

LEMMA TypedLoad == Typed /\ LoadConfiguration => Typed'
<1> SUFFICES ASSUME Typed, LoadConfiguration PROVE Typed'
    OBVIOUS
<1>1. /\ ~exited /\ conf' = conf /\ toReload' = toReload
      /\ config' = config + 1 /\ config + 1 \in 1..Len(conf.files)
      /\ Originals(conf.files[config + 1]) \in SUBSET Names
      /\ Configured(Originals(conf.files[config + 1]))
      /\ exited' = Fails(Originals(conf.files[config + 1]))
      /\ BuiltFrom(conf, streamCache', profiles \cup Originals(conf.files[config + 1]))
      /\ clonedStreams' = clonedStreams
    BY Loading
<1>2. clonedStreams' \in [Originals(Bases) -> 0..MaxClones]
    BY <1>1 DEF Typed, TypeOK
<1>3. config' \in 0..Len(conf.files)
    <2>1. Len(conf.files) \in Nat
        BY ConfType, LenProperties DEF Typed, TypeOK
    <2> QED
        BY <1>1, <2>1
<1> QED
    BY <1>1, <1>2, <1>3, ConfiguringTyped

LEMMA TypedClone == ASSUME NEW root \in Names PROVE Typed /\ CloneStream(root) => Typed'
<1> SUFFICES ASSUME Typed, CloneStream(root) PROVE Typed'
    OBVIOUS
<1> DEFINE new == Copies(CacheAt(root)[root], CloneNumber(root))
<1>1. /\ ~exited /\ conf' = conf /\ toReload' = toReload /\ config' = config
      /\ new \in SUBSET Names /\ Configured(new)
      /\ exited' = (Fails(new) \/ forwardDeclaredProfiles' > 0)
      /\ BuiltFrom(conf, streamCache', profiles \cup new)
      /\ clonedStreams' = [clonedStreams EXCEPT ![root] = CloneNumber(root)]
      /\ CloneNumber(root) \in 1..MaxClones
    BY Cloning
<1> HIDE DEF new
<1>2. clonedStreams' \in [Originals(Bases) -> 0..MaxClones]
    <2>1. CloneNumber(root) \in 0..MaxClones /\ clonedStreams \in [Originals(Bases) -> 0..MaxClones]
        BY <1>1, BoundsAssumption DEF Typed, TypeOK
    <2> QED
        BY <1>1, <2>1
<1>3. config' \in 0..Len(conf.files)
    BY <1>1 DEF Typed, TypeOK
<1> QED
    BY <1>1, <1>2, <1>3, ConfiguringTyped

LEMMA TypedActivate == ASSUME NEW root \in Names PROVE Typed /\ Activate(root) => Typed'
<1> SUFFICES ASSUME Typed, Activate(root) PROVE Typed'
    OBVIOUS
<1>1. /\ root \in profiles /\ waitEventMap' \subseteq waitEventMap
      /\ activeList' = activeList \cup {root}
      /\ UNCHANGED <<conf, config, toReload, declared, profiles, forwardDeclaredProfiles, checkedByMap,
                     checkers, streamCache, clonedStreams, terminated, nonTerminatedProfiles, exited>>
    BY DEF Activate
<1>2. TypeOK'
    BY <1>1 DEF Typed, TypeOK
<1>3. Built'
    BY <1>1 DEF Typed, Built
<1>4. Counts'
    BY <1>1 DEF Typed, Counts
<1> QED
    BY <1>2, <1>3, <1>4 DEF Typed

LEMMA TypedTerminate == ASSUME NEW p \in Names PROVE Typed /\ Terminate(p) => Typed'
<1> SUFFICES ASSUME Typed, Terminate(p) PROVE Typed'
    OBVIOUS
<1>1. /\ ~exited /\ p \in profiles \ terminated /\ waitEventMap' \subseteq waitEventMap
      /\ terminated' = terminated \cup {p} /\ nonTerminatedProfiles' = nonTerminatedProfiles - 1
      /\ UNCHANGED <<conf, config, toReload, declared, profiles, forwardDeclaredProfiles, checkedByMap,
                     checkers, activeList, streamCache, clonedStreams, exited>>
    BY DEF Terminate, Ready
<1>2. profiles \ terminated \in SUBSET Names
    BY DEF Typed, TypeOK
<1>3. IsFiniteSet(profiles \ terminated)
    BY <1>2, PartFinite
<1>4. profiles' \ terminated' = (profiles \ terminated) \ {p}
    BY <1>1
<1>5. Cardinality(profiles' \ terminated') = Cardinality(profiles \ terminated) - 1
    BY <1>1, <1>3, <1>4, FS_RemoveElement
<1>6. nonTerminatedProfiles = Cardinality(profiles \ terminated)
    BY <1>1 DEF Typed, Counts
<1>7. nonTerminatedProfiles' = Cardinality(profiles' \ terminated')
    BY <1>1, <1>5, <1>6
<1>8. nonTerminatedProfiles' \in Nat
    <2>1. profiles' \ terminated' \in SUBSET Names
        BY <1>1, <1>2, <1>4
    <2> QED
        BY <1>7, <2>1, PartFinite
<1>9. TypeOK'
    BY <1>1, <1>8 DEF Typed, TypeOK
<1>10. Built'
    BY <1>1 DEF Typed, Built
<1>11. Counts'
    BY <1>1, <1>7 DEF Typed, Counts
<1> QED
    BY <1>9, <1>10, <1>11 DEF Typed

LEMMA TypedStreamReset == ASSUME NEW root \in Names PROVE Typed /\ StreamReset(root) => Typed'
<1> SUFFICES ASSUME Typed, StreamReset(root) PROVE Typed'
    OBVIOUS
<1> DEFINE nodes == streamCache[root]
<1>1. /\ ~exited /\ root \in DOMAIN streamCache
      /\ waitEventMap' = waitEventMap \cup SubsIn(conf, nodes)
      /\ nonTerminatedProfiles' = nonTerminatedProfiles + Cardinality(nodes \cap terminated)
      /\ terminated' = terminated \ nodes
      /\ UNCHANGED <<conf, config, toReload, declared, profiles, forwardDeclaredProfiles, checkedByMap,
                     checkers, activeList, streamCache, clonedStreams, exited>>
    BY AwaitsAre DEF StreamReset, Ready, Signalled
<1>2. conf \in Configs /\ profiles \in SUBSET Names /\ terminated \subseteq profiles /\ nodes \subseteq profiles
    BY <1>1 DEF Typed, TypeOK
<1> HIDE DEF nodes
<1>3. SubsIn(conf, nodes) \subseteq SubsIn(conf, profiles)
    BY <1>2, SubsAre
<1>4. \A s \in SubsIn(conf, profiles) : s \in [on : Names, type : Types, by : profiles]
    <2>1. \A s \in SubsIn(conf, profiles) : s \in Subscriptions /\ s.by \in profiles
        BY <1>2, SubsAre
    <2> QED
        BY <2>1 DEF Subscriptions
<1>5. waitEventMap' \subseteq SubsIn(conf, profiles)
    BY <1>1, <1>3 DEF Typed, Built
<1>6. Cardinality(profiles \ terminated') = Cardinality(profiles \ terminated) + Cardinality(nodes \cap terminated)
    <2>1. profiles \ terminated' = (profiles \ terminated) \cup (nodes \cap terminated)
        BY <1>1, <1>2
    <2>2. /\ profiles \ terminated \in SUBSET Names /\ nodes \cap terminated \in SUBSET Names
          /\ (profiles \ terminated) \cap (nodes \cap terminated) = {}
        BY <1>2
    <2> QED
        BY <2>1, <2>2, JoinCount
<1>7. nonTerminatedProfiles = Cardinality(profiles \ terminated)
    BY <1>1 DEF Typed, Counts
<1>8. nonTerminatedProfiles' = Cardinality(profiles' \ terminated')
    BY <1>1, <1>6, <1>7
<1>9. nonTerminatedProfiles' \in Nat
    <2>1. profiles' \ terminated' \in SUBSET Names
        BY <1>1, <1>2
    <2> QED
        BY <1>8, <2>1, PartFinite
<1>10. terminated' \subseteq profiles
    BY <1>1, <1>2
<1>11. waitEventMap' \subseteq [on : Names, type : Types, by : profiles]
    BY <1>4, <1>5
<1>12. TypeOK'
    BY <1>1, <1>9, <1>10, <1>11 DEF Typed, TypeOK
<1>13. Built'
    BY <1>1, <1>5 DEF Typed, Built
<1>14. Counts'
    BY <1>1, <1>8 DEF Typed, Counts
<1> QED
    BY <1>12, <1>13, <1>14 DEF Typed

LEMMA TypedReset == Typed /\ Reset => Typed'
<1> SUFFICES ASSUME Typed, Reset PROVE Typed'
    OBVIOUS
<1>1. /\ declared' = {} /\ profiles' = {} /\ config' = 0 /\ toReload' = config
      /\ checkedByMap' = {} /\ checkers' = {} /\ waitEventMap' = {}
      /\ activeList' = {} /\ streamCache' = <<>> /\ terminated' = {} /\ nonTerminatedProfiles' = 0
      /\ clonedStreams' = [r \in Originals(Bases) |-> 0]
      /\ UNCHANGED <<conf, forwardDeclaredProfiles, exited>>
    BY DEF Reset
<1>2. Len(conf.files) \in Nat /\ 0 \in 0..MaxClones
    BY ConfType, LenProperties, BoundsAssumption DEF Typed, TypeOK
<1>3. DOMAIN streamCache' = {} /\ Cardinality({}) = 0
    BY <1>1, FS_EmptySet
<1>4. clonedStreams' \in [Originals(Bases) -> 0..MaxClones]
    BY <1>1, <1>2
<1>5. 0 \in 0..Len(conf.files)
    BY <1>2
<1>6. TypeOK'
    BY <1>1, <1>3, <1>4, <1>5 DEF Typed, TypeOK
<1>7. Built'
    BY <1>1, <1>3 DEF Built, BuiltFrom
<1>8. profiles' \ terminated' = {}
    BY <1>1
<1>9. forwardDeclaredProfiles' >= Cardinality(declared')
    BY <1>1, <1>3 DEF Typed, TypeOK
<1>10. Counts'
    BY <1>1, <1>3, <1>8, <1>9 DEF Counts
<1> QED
    BY <1>6, <1>7, <1>10 DEF Typed

LEMMA TypedNext == Typed /\ [Next]_vars => Typed'
<1> SUFFICES ASSUME Typed, [Next]_vars PROVE Typed'
    OBVIOUS
<1>1. CASE LoadConfiguration
    BY <1>1, TypedLoad
<1>2. CASE \E p \in Names : CloneStream(p) \/ Activate(p) \/ Terminate(p) \/ StreamReset(p)
    BY <1>2, TypedClone, TypedActivate, TypedTerminate, TypedStreamReset
<1>3. CASE Reset
    BY <1>3, TypedReset
<1>4. CASE UNCHANGED vars
    <2>1. /\ UNCHANGED <<conf, config, toReload, declared, profiles, forwardDeclaredProfiles, checkedByMap,
                         checkers, waitEventMap, activeList, streamCache, clonedStreams, terminated,
                         nonTerminatedProfiles, exited>>
        BY <1>4 DEF vars, tables
    <2>2. TypeOK'
        BY <2>1 DEF Typed, TypeOK
    <2>3. Built'
        BY <2>1 DEF Typed, Built
    <2>4. Counts'
        BY <2>1 DEF Typed, Counts
    <2> QED
        BY <2>2, <2>3, <2>4 DEF Typed
<1> QED
    BY <1>1, <1>2, <1>3, <1>4 DEF Next

LEMMA AlwaysTyped == Spec => []Typed
BY InitTyped, TypedNext, PTL DEF Spec

\* The tables name the profiles there are, a subscription or a stream nobody else,
\* whatever was loaded, cloned and reset, and the counts are numbers.
THEOREM TypeCorrect == Spec => []TypeOK
<1>1. Typed => TypeOK
    BY DEF Typed
<1> QED
    BY <1>1, AlwaysTyped, PTL

(***************************************************************************)
(* What is known after some files, and the two counts.                     *)
(***************************************************************************)

\* An original is known when its file has been loaded, a copy when its original is,
\* and what is awaited when it is at least declared; copies await only copies.
Known ==
    ~exited =>
        /\ \A p \in Names : p[2] = 0 => (p \in profiles <=> p[1] \in Loaded(conf, config))
        /\ \A p \in profiles : <<p[1], 0>> \in profiles
        /\ \A s \in SubsIn(conf, profiles) : s.on \in profiles \cup declared
        /\ \A d \in declared : d[2] = 0

Exact ==
    ~exited /\ Whole(conf) => /\ forwardDeclaredProfiles = Cardinality(declared)
                              /\ conf.resets => declared = {}

Unmoved ==
    UNCHANGED <<conf, config, toReload, declared, profiles, forwardDeclaredProfiles, checkedByMap, checkers,
                streamCache, clonedStreams, exited>>

LEMMA OthersUnmoved ==
    ASSUME NEW p \in Names, Activate(p) \/ Terminate(p) \/ StreamReset(p)
    PROVE  Unmoved
BY DEF Activate, Terminate, StreamReset, Unmoved

LEMMA StutterUnmoved == UNCHANGED vars => Unmoved
BY DEF vars, tables, Unmoved

LEMMA LoadedNext ==
    ASSUME NEW c, NEW n \in Nat
    PROVE  Loaded(c, n + 1) = Loaded(c, n) \cup c.files[n + 1] /\ Loaded(c, 0) = {}
<1>1. \A i : i \in 1..n + 1 <=> i \in 1..n \/ i = n + 1
    OBVIOUS
<1>2. 1..0 = {}
    OBVIOUS
<1>3. \A x : x \in Loaded(c, n + 1) <=> x \in Loaded(c, n) \/ x \in c.files[n + 1]
    BY <1>1 DEF Loaded
<1>4. Loaded(c, 0) = {}
    BY <1>2 DEF Loaded
<1> QED
    BY <1>3, <1>4

LEMMA InitKnown == Init => Known /\ Exact
<1> SUFFICES ASSUME Init PROVE Known /\ Exact
    OBVIOUS
<1>1. conf \in Configs /\ config = 0 /\ profiles = {} /\ declared = {} /\ forwardDeclaredProfiles = 0
    BY DEF Init
<1>2. Loaded(conf, 0) = {}
    BY LoadedNext
<1>3. SubsIn(conf, {}) = {}
    BY DEF SubsIn
<1>4. Known
    BY <1>1, <1>2, <1>3 DEF Known
<1>5. Exact
    BY <1>1, FS_EmptySet DEF Exact
<1> QED
    BY <1>4, <1>5

LEMMA NothingDeclared ==
    ASSUME Typed, ~exited, forwardDeclaredProfiles = 0
    PROVE  declared = {}
<1>1. declared \in SUBSET Names /\ 0 >= Cardinality(declared)
    BY DEF Typed, TypeOK, Counts
<1>2. IsFiniteSet(declared) /\ Cardinality(declared) \in Nat
    BY <1>1, PartFinite
<1>3. Cardinality(declared) = 0
    BY <1>1, <1>2
<1> QED
    BY <1>2, <1>3, FS_EmptySet

LEMMA KnownLoad ==
    ASSUME Typed, Known, LoadConfiguration, ~exited'
    PROVE  Known' /\ Originals(conf.files[config + 1]) \cap profiles = {}
<1> DEFINE new == Originals(conf.files[config + 1])
           S == profiles \cup new
<1>1. /\ ~exited /\ conf' = conf /\ config \in Nat /\ config' = config + 1
      /\ conf.files[config + 1] \in SUBSET Bases /\ new \in SUBSET Names
      /\ Configured(new) /\ exited' = Fails(new)
    BY Loading
<1>2. conf \in Configs /\ profiles \in SUBSET Names
    BY DEF Typed, TypeOK
<1>3. \A p : p \in new <=> p \in Names /\ p[2] = 0 /\ p[1] \in conf.files[config + 1]
    BY <1>1, OriginalsAre
<1>4. Loaded(conf, config + 1) = Loaded(conf, config) \cup conf.files[config + 1]
    BY <1>1, LoadedNext
<1> HIDE DEF new
<1>5. /\ profiles' = S
      /\ declared' = (declared \cup NamedIn(conf, new)) \ S
      /\ new \cap profiles = {}
    BY <1>1, Configuring
<1>6. SubsIn(conf, S) = SubsIn(conf, profiles) \cup SubsIn(conf, new)
    BY <1>1, <1>2, SubsAre
<1>7. \A s \in SubsIn(conf, new) : s.on \in NamedIn(conf, new) /\ s.by \in new /\ s.on[2] = s.by[2]
    BY <1>1, <1>2, SubsAre DEF NamedIn
<1>8. \A d \in NamedIn(conf, new) : d[2] = 0
    BY <1>3, <1>7 DEF NamedIn
<1>9. \A p \in Names : p[2] = 0 => (p \in S <=> p[1] \in Loaded(conf, config + 1))
    BY <1>1, <1>3, <1>4 DEF Known
<1>10. \A p \in S : <<p[1], 0>> \in S
    <2>1. \A p \in new : p = <<p[1], 0>>
        BY <1>3, NameIs
    <2> QED
        BY <1>1, <2>1 DEF Known
<1>11. \A s \in SubsIn(conf, S) : s.on \in S \cup declared'
    BY <1>1, <1>5, <1>6, <1>7 DEF Known
<1>12. \A d \in declared' : d[2] = 0
    BY <1>1, <1>5, <1>8 DEF Known
<1> HIDE DEF S
<1>13. Known'
    BY <1>1, <1>5, <1>9, <1>10, <1>11, <1>12 DEF Known
<1> QED
    BY <1>5, <1>13 DEF new

LEMMA KnownClone ==
    ASSUME Typed, Known, NEW root \in Names, CloneStream(root), ~exited'
    PROVE  /\ Known' /\ declared' = {}
           /\ Copies(CacheAt(root)[root], CloneNumber(root)) \cap profiles = {}
<1> DEFINE n == CloneNumber(root)
           stream == CacheAt(root)[root]
           new == Copies(stream, n)
           S == profiles \cup new
<1>1. /\ ~exited /\ conf' = conf /\ config' = config
      /\ n \in 1..MaxClones /\ stream \in SUBSET profiles /\ new \in SUBSET Names
      /\ Configured(new) /\ exited' = (Fails(new) \/ forwardDeclaredProfiles' > 0)
    BY Cloning
<1>2. conf \in Configs /\ profiles \in SUBSET Names
    BY DEF Typed, TypeOK
<1>3. n \in 0..MaxClones /\ n # 0
    BY <1>1, BoundsAssumption
<1> HIDE DEF stream, n
<1>4. \A q \in new : q[2] = n /\ \E p \in stream : q = <<p[1], n>>
    BY <1>1, <1>2, <1>3, CopiesAre
<1> HIDE DEF new
<1>5. /\ profiles' = S
      /\ declared' = (declared \cup NamedIn(conf, new)) \ S
      /\ new \cap profiles = {}
    BY <1>1, Configuring
<1>6. Typed'
    BY TypedClone DEF stream, n
<1>7. forwardDeclaredProfiles' = 0
    <2>1. forwardDeclaredProfiles' \in Nat
        BY <1>6 DEF Typed, TypeOK
    <2>2. ~(forwardDeclaredProfiles' > 0)
        BY <1>1
    <2> QED
        BY <2>1, <2>2
<1>8. declared' = {}
    <2>1. declared' \in SUBSET Names /\ 0 >= Cardinality(declared')
        BY <1>6, <1>7 DEF Typed, TypeOK, Counts
    <2>2. IsFiniteSet(declared') /\ Cardinality(declared') \in Nat
        BY <2>1, PartFinite
    <2>3. Cardinality(declared') = 0
        BY <2>1, <2>2
    <2> QED
        BY <2>2, <2>3, FS_EmptySet
<1>9. SubsIn(conf, S) = SubsIn(conf, profiles) \cup SubsIn(conf, new)
    BY <1>1, <1>2, SubsAre
<1>10. \A s \in SubsIn(conf, new) : s.on \in NamedIn(conf, new)
    BY DEF NamedIn
<1>11. \A p \in Names : p[2] = 0 => (p \in S <=> p[1] \in Loaded(conf, config))
    BY <1>1, <1>3, <1>4 DEF Known
<1>12. \A p \in S : <<p[1], 0>> \in S
    <2>1. \A q \in new : \E p \in profiles : q[1] = p[1]
        BY <1>1, <1>4
    <2> QED
        BY <1>1, <2>1 DEF Known
<1>13. \A s \in SubsIn(conf, S) : s.on \in S \cup declared'
    BY <1>1, <1>5, <1>9, <1>10 DEF Known
<1> HIDE DEF S
<1>14. Known'
    BY <1>1, <1>5, <1>8, <1>11, <1>12, <1>13 DEF Known
<1> QED
    BY <1>5, <1>8, <1>14 DEF new, stream, n

LEMMA KnownNext == Typed /\ Known /\ [Next]_vars => Known'
<1> SUFFICES ASSUME Typed, Known, [Next]_vars, ~exited' PROVE Known'
    BY DEF Known
<1>1. CASE LoadConfiguration
    BY <1>1, KnownLoad
<1>2. CASE \E p \in Names : CloneStream(p)
    BY <1>2, KnownClone
<1>3. CASE Unmoved
    BY <1>3 DEF Unmoved, Known
<1>4. CASE Reset
    <2>1. profiles' = {} /\ declared' = {} /\ config' = 0 /\ conf' = conf
        BY <1>4 DEF Reset
    <2>2. Loaded(conf, 0) = {} /\ SubsIn(conf, {}) = {}
        BY LoadedNext DEF SubsIn
    <2> QED
        BY <2>1, <2>2 DEF Known
<1> QED
    BY <1>1, <1>2, <1>3, <1>4, OthersUnmoved, StutterUnmoved DEF Next

LEMMA ExactNext == Typed /\ Known /\ Exact /\ [Next]_vars => Exact'
<1> SUFFICES ASSUME Typed, Known, Exact, [Next]_vars, ~exited', Whole(conf')
             PROVE  /\ forwardDeclaredProfiles' = Cardinality(declared')
                    /\ conf'.resets => declared' = {}
    BY DEF Exact
<1>1. CASE LoadConfiguration
    <2> DEFINE new == Originals(conf.files[config + 1])
    <2>1. /\ ~exited /\ conf' = conf /\ config \in Nat /\ config + 1 \in 1..Len(conf.files)
          /\ new \in SUBSET Names /\ Configured(new) /\ config' = config + 1
        BY <1>1, Loading
    <2>2. conf \in Configs /\ profiles \in SUBSET Names
        BY DEF Typed, TypeOK
    <2>3. forwardDeclaredProfiles = Cardinality(declared) /\ (conf.resets => declared = {})
        BY <2>1 DEF Exact
    <2>4. /\ forwardDeclaredProfiles' - Cardinality(declared') = forwardDeclaredProfiles - Cardinality(declared)
          /\ forwardDeclaredProfiles' \in Nat /\ Cardinality(declared') \in Nat
          /\ profiles' = profiles \cup new
          /\ declared' = (declared \cup NamedIn(conf, new)) \ (profiles \cup new)
        BY <2>1, Configuring
    <2>5. forwardDeclaredProfiles' = Cardinality(declared')
        <3>1. forwardDeclaredProfiles \in Nat
            BY DEF Typed, TypeOK
        <3> QED
            BY <2>3, <2>4, <3>1
    <2>6. ASSUME conf.resets PROVE NamedIn(conf, new) \subseteq profiles'
        <3>1. SUFFICES ASSUME NEW s \in SubsIn(conf, new) PROVE s.on \in profiles'
            BY DEF NamedIn
        <3>2. s.by \in new /\ s \in AwaitsIn(conf, s.by) /\ s.on[2] = s.by[2] /\ s.on \in Names
            BY <2>1, <2>2, <3>1, SubsAre DEF Subscriptions
        <3>3. config + 1 \in DOMAIN conf.files
            BY <2>1, <2>2, ConfType, LenProperties
        <3>4. s.on[1] \in Loaded(conf, config + 1)
            <4>1. s.by[1] \in conf.files[config + 1] /\ s.on[1] \in NamedBy(conf, s.by[1])
                BY <3>2, ByName DEF Originals
            <4> QED
                BY <2>1, <2>6, <3>3, <4>1 DEF Whole
        <3>5. s.on[2] = 0
            BY <3>2 DEF Originals
        <3>6. Known'
            BY <1>1, KnownLoad
        <3> QED
            BY <2>1, <3>2, <3>4, <3>5, <3>6 DEF Known
    <2> QED
        BY <2>1, <2>3, <2>4, <2>5, <2>6
<1>2. ASSUME NEW root \in Names, CloneStream(root)
      PROVE  forwardDeclaredProfiles' = Cardinality(declared') /\ declared' = {}
    <2>1. declared' = {}
        BY <1>2, KnownClone
    <2> DEFINE new == Copies(CacheAt(root)[root], CloneNumber(root))
    <2>2. ~exited /\ conf' = conf /\ new \in SUBSET Names /\ Configured(new)
        BY <1>2, Cloning
    <2> HIDE DEF new
    <2>3. forwardDeclaredProfiles = Cardinality(declared) /\ forwardDeclaredProfiles \in Nat
        BY <2>2 DEF Exact, Typed, TypeOK
    <2>4. /\ forwardDeclaredProfiles' - Cardinality(declared') = forwardDeclaredProfiles - Cardinality(declared)
          /\ forwardDeclaredProfiles' \in Nat /\ Cardinality(declared') \in Nat
        BY <2>2, Configuring
    <2> QED
        BY <2>1, <2>3, <2>4
<1>3. CASE Unmoved
    BY <1>3 DEF Unmoved, Exact
<1>4. CASE Reset
    BY <1>4 DEF Reset, Ready, Exact
<1> QED
    BY <1>1, <1>2, <1>3, <1>4, OthersUnmoved, StutterUnmoved DEF Next

\* The counts by which the manager decides that a configuration is complete and that
\* a master has finished are exact (getOrGeneratePid, configureProfile, signalReset),
\* unless it is reset while a profile is named that no file has described: reset()
\* leaves that count as it is.
THEOREM Counted ==
    ASSUME \A c \in Configs : Whole(c)
    PROVE  Spec => []CountsExact
<1>1. Typed /\ Exact => CountsExact
    BY DEF Typed, TypeOK, Counts, Exact, CountsExact
<1>2. Spec => [](Known /\ Exact)
    <2>1. (Known /\ Exact) /\ Typed /\ [Next]_vars => (Known /\ Exact)'
        BY KnownNext, ExactNext
    <2> QED
        BY <2>1, InitKnown, AlwaysTyped, PTL DEF Spec
<1> QED
    BY <1>1, <1>2, AlwaysTyped, PTL

(***************************************************************************)
(* Clones are whole and apart.                                             *)
(***************************************************************************)

CheckedApart == \A c \in checkers : c[1][2] = c[2][2]

\* The streams of an original and of its clones stay in the cache, as copies.
Copied ==
    ~exited =>
        \A r \in Originals(Bases) : \A n \in 1..clonedStreams[r] :
            /\ r \in DOMAIN streamCache /\ <<r[1], n>> \in DOMAIN streamCache
            /\ streamCache[<<r[1], n>>] = Copies(streamCache[r], n)

\* A clone that does not end the process awaits, and is awaited by, none but itself.
LEMMA CloneClosed ==
    ASSUME Typed, Known, NEW root \in Names, CloneStream(root), ~exited',
           NEW s \in SubsIn(conf, profiles \cup Copies(CacheAt(root)[root], CloneNumber(root))),
           s.on \in Copies(CacheAt(root)[root], CloneNumber(root))
    PROVE  s.by \in Copies(CacheAt(root)[root], CloneNumber(root))
<1> DEFINE n == CloneNumber(root)
           stream == CacheAt(root)[root]
           new == Copies(stream, n)
<1>1. /\ ~exited /\ n \in 1..MaxClones /\ stream \in SUBSET profiles /\ new \in SUBSET Names
    BY Cloning
<1>2. conf \in Configs /\ profiles \in SUBSET Names
    BY DEF Typed, TypeOK
<1>3. n \in 0..MaxClones /\ n # 0
    BY <1>1, BoundsAssumption
<1>4. new \cap profiles = {}
    BY KnownClone
<1>10. s.on \in new
    OBVIOUS
<1> HIDE DEF n, stream
<1>5. s.on[2] = n
    BY <1>1, <1>2, <1>3, <1>10, CopiesAre
<1> HIDE DEF new
<1>6. SubsIn(conf, profiles \cup new) = SubsIn(conf, profiles) \cup SubsIn(conf, new)
    BY <1>1, <1>2, SubsAre
<1>7. s \notin SubsIn(conf, profiles)
    <2>1. SUFFICES ASSUME s \in SubsIn(conf, profiles) PROVE FALSE
        OBVIOUS
    <2>2. s.on \in profiles \cup declared /\ \A d \in declared : d[2] = 0
        BY <1>1, <2>1 DEF Known
    <2>3. s.on \in new
        BY DEF new, stream, n
    <2> QED
        BY <1>3, <1>4, <1>5, <2>2, <2>3
<1>8. s \in SubsIn(conf, new)
    BY <1>6, <1>7 DEF new, stream, n
<1>9. s.by \in new
    BY <1>1, <1>2, <1>8, SubsAre
<1> QED
    BY <1>9 DEF new, stream, n

\* What is reached from the copy of the root are the copies of what is in its stream.
LEMMA CloneReached ==
    ASSUME Typed, Known, NEW root \in Names, CloneStream(root), ~exited'
    PROVE  LET n == CloneNumber(root)
               stream == CacheAt(root)[root]
           IN /\ <<root[1], n>> \notin DOMAIN CacheAt(root)
              /\ streamCache'[<<root[1], n>>] = Copies(stream, n)
              /\ Reached(waitEventMap', <<root[1], n>>) = Copies(stream, n)
<1> DEFINE n == CloneNumber(root)
           stream == CacheAt(root)[root]
           new == Copies(stream, n)
           copy == <<root[1], n>>
           S == profiles \cup new
           reached == Reached(waitEventMap', copy)
<1>1. /\ ~exited /\ n \in 1..MaxClones /\ stream \in SUBSET profiles /\ new \in SUBSET Names
      /\ root \in stream /\ copy \in new
      /\ BuiltFrom(conf, CacheAt(root), profiles)
      /\ streamCache' = Cached(CacheAt(root), waitEventMap', {copy})
      /\ waitEventMap' = waitEventMap \cup SubsIn(conf, new)
      /\ waitEventMap' \subseteq SubsIn(conf, S)
    BY Cloning
<1>2. conf \in Configs /\ profiles \in SUBSET Names
    BY DEF Typed, TypeOK
<1>3. n \in 0..MaxClones /\ new \cap profiles = {}
    BY <1>1, BoundsAssumption, KnownClone
<1>4. \A s \in waitEventMap' : s.on \in new => s.by \in new
    BY <1>1, CloneClosed
<1>5. \A q \in new : \E p \in stream : q = <<p[1], n>>
    BY <1>1, <1>2, <1>3, CopiesAre
<1>6. \A p \in stream : <<p[1], n>> \in new
    BY <1>1, <1>2, <1>3, CopiesAre
<1>7. copy \notin DOMAIN CacheAt(root)
    BY <1>1, <1>3 DEF BuiltFrom
<1>8. streamCache'[copy] = reached
    <2> HIDE DEF copy, reached
    <2> QED
        BY <1>1, <1>7 DEF reached, Cached
<1>9. PICK X \in SUBSET SubsIn(conf, profiles) : stream = Reached(X, root)
    <2>1. root \in DOMAIN CacheAt(root)
        BY DEF CacheAt, Cached
    <2> QED
        BY <1>1, <2>1 DEF BuiltFrom
<1> HIDE DEF n, stream, new
<1>10. S \in SUBSET Names /\ SubsIn(conf, S) \in SUBSET Subscriptions
    BY <1>1, <1>2, SubsAre
<1>11. copy \in Names /\ waitEventMap' \in SUBSET Subscriptions
    BY <1>1, <1>10
<1> HIDE DEF S, copy
<1>12. reached \subseteq new
    <2>1. ClosedUnder(new, waitEventMap')
        BY <1>4 DEF ClosedUnder
    <2> QED
        BY <1>1, <1>11, <2>1, ReachedIs
<1>13. copy \in reached /\ ClosedUnder(reached, waitEventMap')
    BY <1>11, ReachedIs
<1> HIDE DEF reached
<1>14. stream \subseteq {p \in stream : <<p[1], n>> \in reached}
    <2> DEFINE T == {p \in stream : <<p[1], n>> \in reached}
    <2>1. SubsIn(conf, profiles) \in SUBSET Subscriptions
        BY <1>2, SubsAre
    <2>2. X \in SUBSET Subscriptions /\ ClosedUnder(stream, X)
        BY <1>9, <2>1, ReachedIs
    <2>3. root \in T
        BY <1>1, <1>13 DEF copy
    <2>4. ASSUME NEW s \in X, s.type = "TERMINATION", s.on \in T PROVE s.by \in T
        <3>1. s \in SubsIn(conf, profiles)
            BY <1>9
        <3>2. s.by \in Names /\ s \in AwaitsIn(conf, s.by)
            BY <1>2, <3>1, SubsAre
        <3>3. s.by \in stream
            BY <2>2, <2>4 DEF ClosedUnder
        <3> DEFINE by == <<s.by[1], n>>
                   t == [on |-> <<s.on[1], n>>, type |-> s.type, by |-> by]
        <3>4. t \in AwaitsIn(conf, by)
            BY <1>2, <1>3, <3>2, AwaitsCopied
        <3>5. by \in new
            BY <1>6, <3>3
        <3>6. t.type = "TERMINATION" /\ t.on \in reached /\ t.by = by
            BY <2>4
        <3> HIDE DEF t, by
        <3>7. t \in waitEventMap'
            BY <1>1, <1>2, <3>4, <3>5, SubsAre
        <3>8. by \in reached
            BY <1>13, <3>6, <3>7 DEF ClosedUnder
        <3> QED
            BY <3>3, <3>8 DEF by
    <2>5. ClosedUnder(T, X)
        BY <2>4 DEF ClosedUnder
    <2> HIDE DEF T
    <2>6. stream \subseteq T
        BY <1>1, <1>2, <1>9, <2>2, <2>3, <2>5, ReachedIs
    <2> QED
        BY <2>6 DEF T
<1>15. new \subseteq reached
    BY <1>5, <1>14
<1> QED
    BY <1>7, <1>8, <1>12, <1>15 DEF new, stream, n, copy, reached

LEMMA CheckedNext == Typed /\ CheckedApart /\ [Next]_vars => CheckedApart'
<1> SUFFICES ASSUME Typed, CheckedApart, [Next]_vars PROVE CheckedApart'
    OBVIOUS
<1>1. ASSUME ~exited, conf' = conf, NEW new \in SUBSET Names, Configured(new) PROVE CheckedApart'
    <2>1. checkers' = checkers \cup Union(Checked, new)
        BY <1>1, Configuring
    <2>2. \A c \in Union(Checked, new) : c[1][2] = c[2][2]
        BY <1>1, ChecksAre DEF Typed, TypeOK
    <2> QED
        BY <2>1, <2>2 DEF CheckedApart
<1>2. CASE LoadConfiguration
    BY <1>1, <1>2, Loading
<1>3. CASE \E p \in Names : CloneStream(p)
    BY <1>1, <1>3, Cloning
<1>4. CASE Unmoved
    BY <1>4 DEF Unmoved, CheckedApart
<1>5. CASE Reset
    BY <1>5 DEF Reset, CheckedApart
<1> QED
    BY <1>2, <1>3, <1>4, <1>5, OthersUnmoved, StutterUnmoved DEF Next

LEMMA CopiedNext == Typed /\ Known /\ Copied /\ [Next]_vars => Copied'
<1> SUFFICES ASSUME Typed, Known, Copied, [Next]_vars, ~exited' PROVE Copied'
    BY DEF Copied
<1>1. CASE LoadConfiguration
    <2>1. ~exited /\ streamCache' = Cached(streamCache, waitEventMap', activeList')
          /\ clonedStreams' = clonedStreams
        BY <1>1, Loading
    <2>2. DOMAIN streamCache' = DOMAIN streamCache \cup activeList'
          /\ \A r \in DOMAIN streamCache : streamCache'[r] = streamCache[r]
        BY <2>1 DEF Cached
    <2> QED
        BY <2>1, <2>2 DEF Copied
<1>2. ASSUME NEW root \in Names, CloneStream(root) PROVE Copied'
    <2> DEFINE n == CloneNumber(root)
               cache == CacheAt(root)
               stream == cache[root]
               copy == <<root[1], n>>
    <2>1. /\ ~exited /\ n \in 1..MaxClones /\ clonedStreams[root] \in Nat /\ root \in Originals(Bases)
          /\ clonedStreams' = [clonedStreams EXCEPT ![root] = n]
          /\ streamCache' = Cached(cache, waitEventMap', {copy})
        BY <1>2, Cloning
    <2>2. streamCache'[copy] = Copies(stream, n)
        BY <1>2, CloneReached
    <2>3. DOMAIN cache = DOMAIN streamCache \cup {root}
          /\ \A r \in DOMAIN streamCache : cache[r] = streamCache[r]
        BY DEF CacheAt, Cached
    <2>4. clonedStreams \in [Originals(Bases) -> 0..MaxClones]
        BY DEF Typed, TypeOK
    <2>5. \A m \in 1..n : m = n \/ m \in 1..clonedStreams[root]
        BY <2>1 DEF CloneNumber
    <2>6. copy \notin DOMAIN cache
        BY <1>2, CloneReached
    <2> HIDE DEF cache, n, stream
    <2>7. DOMAIN streamCache' = DOMAIN cache \cup {copy}
          /\ \A r \in DOMAIN cache : streamCache'[r] = cache[r]
        BY <2>1 DEF Cached
    <2>8. root \in DOMAIN cache /\ streamCache'[root] = stream /\ root \in DOMAIN streamCache'
        BY <2>3, <2>7 DEF stream
    <2>9. ASSUME NEW r \in Originals(Bases), NEW m \in 1..clonedStreams'[r]
          PROVE  /\ r \in DOMAIN streamCache' /\ <<r[1], m>> \in DOMAIN streamCache'
                 /\ streamCache'[<<r[1], m>>] = Copies(streamCache'[r], m)
        <3>1. CASE r = root /\ m = n
            BY <2>2, <2>7, <2>8, <3>1
        <3>2. CASE ~(r = root /\ m = n)
            <4>1. m \in 1..clonedStreams[r]
                <5>1. CASE r = root
                    <6>1. clonedStreams'[r] = n
                        BY <2>1, <2>4, <5>1
                    <6> QED
                        BY <2>5, <2>9, <3>2, <5>1, <6>1
                <5>2. CASE r # root
                    BY <2>1, <2>4, <2>9, <5>2
                <5> QED
                    BY <5>1, <5>2
            <4>2. /\ r \in DOMAIN streamCache /\ <<r[1], m>> \in DOMAIN streamCache
                  /\ streamCache[<<r[1], m>>] = Copies(streamCache[r], m)
                BY <2>1, <4>1 DEF Copied
            <4>3. streamCache'[r] = streamCache[r] /\ streamCache'[<<r[1], m>>] = streamCache[<<r[1], m>>]
                BY <2>3, <2>7, <4>2
            <4> QED
                BY <2>3, <2>7, <4>2, <4>3
        <3> QED
            BY <3>1, <3>2
    <2> QED
        BY <2>9 DEF Copied
<1>3. CASE Unmoved
    BY <1>3 DEF Unmoved, Copied
<1>4. CASE Reset
    <2>1. clonedStreams' = [r \in Originals(Bases) |-> 0]
        BY <1>4 DEF Reset
    <2>2. 1..0 = {}
        OBVIOUS
    <2> QED
        BY <2>1, <2>2 DEF Copied
<1> QED
    BY <1>1, <1>2, <1>3, <1>4, OthersUnmoved, StutterUnmoved DEF Next

\* A clone is a copy of the whole stream (cloneStream), and its profiles wait for and
\* check none but each other: whatever is loaded, played, terminated and reset.
THEOREM Apart == Spec => []ClonesApart
<1>1. Typed /\ CheckedApart /\ Copied => ClonesApart
    <2> SUFFICES ASSUME Typed, CheckedApart, Copied, ~exited PROVE ClonesApart
        BY DEF ClonesApart
    <2>1. conf \in Configs /\ profiles \in SUBSET Names /\ waitEventMap \subseteq SubsIn(conf, profiles)
        BY DEF Typed, TypeOK, Built
    <2>2. \A s \in waitEventMap : s.on[2] = s.by[2]
        BY <2>1, SubsAre
    <2>3. \A r \in Originals(Bases) : \A n \in 1..clonedStreams[r] :
              streamCache[<<Base(r), n>>] = {<<Base(p), n>> : p \in streamCache[r]}
        BY DEF Copied, Copies, Base
    <2> QED
        BY <2>2, <2>3 DEF ClonesApart, CheckedApart
<1>2. Init => CheckedApart /\ Copied
    <2> SUFFICES ASSUME Init PROVE CheckedApart /\ Copied
        OBVIOUS
    <2>1. clonedStreams = [r \in Originals(Bases) |-> 0] /\ checkers = {}
        BY DEF Init
    <2>2. 1..0 = {}
        OBVIOUS
    <2> QED
        BY <2>1, <2>2 DEF CheckedApart, Copied
<1>3. Spec => [](CheckedApart /\ Copied /\ Known)
    <2>1. (CheckedApart /\ Copied /\ Known) /\ Typed /\ [Next]_vars => (CheckedApart /\ Copied /\ Known)'
        BY CheckedNext, CopiedNext, KnownNext
    <2> QED
        BY <2>1, <1>2, InitKnown, AlwaysTyped, PTL DEF Spec
<1> QED
    BY <1>1, <1>3, AlwaysTyped, PTL

(***************************************************************************)
(* The streams in the cache are those of the configuration.                *)
(***************************************************************************)

Term(s) == s.type = "TERMINATION"

\* A subscription is used up only by a termination.
Heard(subs, waiting, ended) == \A s \in subs : Term(s) => s \in waiting \/ s.on \in ended

\* What has terminated has seen what it follows terminate.
Ended(subs, ended) == \A s \in subs : Term(s) /\ s.by \in ended => s.on \in ended

\* Among those terminated there is always a first one: they follow one another in no circle.
Ordered(c, ended) ==
    \A S \in SUBSET ended : S # {} => \E p \in S : \A s \in AwaitsIn(c, p) : Term(s) => s.on \notin S

\* Only followers are not active from the start; an active profile has its stream in
\* the cache, or is one of a clone that follows another.
Roots(c, known, active, cached) ==
    /\ \A p \in known \ active : AwaitsIn(c, p) # {} /\ \A s \in AwaitsIn(c, p) : Term(s)
    /\ \A p \in active :
           /\ AwaitsIn(c, p) = {} \/ \E s \in AwaitsIn(c, p) : s.type = "ACTIVATION"
           /\ p \in cached \/ (p[2] > 0 /\ \E s \in AwaitsIn(c, p) : Term(s))

\* Whoever follows an original has a copy where the original has one.
Followed(subs, known) ==
    \A s \in subs : Term(s) /\ s.on[2] = 0 =>
        \A n \in 1..MaxClones : <<s.on[1], n>> \in known => <<s.by[1], n>> \in known

Anew(subs, cache) == \A r \in DOMAIN cache : cache[r] = Reached(subs, r)

Lasting ==
    ~exited /\ Settled(conf) =>
        /\ Heard(SubsIn(conf, profiles), waitEventMap, terminated)
        /\ Ended(SubsIn(conf, profiles), terminated)
        /\ Ordered(conf, terminated)
        /\ Roots(conf, profiles, activeList, DOMAIN streamCache)
        /\ Followed(SubsIn(conf, profiles), profiles)
        /\ Anew(SubsIn(conf, profiles), streamCache)

LEMMA ReachedSame ==
    ASSUME NEW B \in SUBSET Subscriptions, NEW A \in SUBSET B, NEW root \in Names,
           ClosedUnder(Reached(A, root), B)
    PROVE  Reached(B, root) = Reached(A, root)
<1>1. A \in SUBSET Subscriptions
    OBVIOUS
<1>2. root \in Reached(A, root) /\ \A T : root \in T /\ ClosedUnder(T, A) => Reached(A, root) \subseteq T
    BY <1>1, ReachedIs
<1>3. /\ root \in Reached(B, root) /\ ClosedUnder(Reached(B, root), B)
      /\ \A T : root \in T /\ ClosedUnder(T, B) => Reached(B, root) \subseteq T
    BY ReachedIs
<1>4. ClosedUnder(Reached(B, root), A)
    BY <1>3 DEF ClosedUnder
<1> QED
    BY <1>2, <1>3, <1>4

\* With no termination yet, the subscriptions lead to the whole stream.
LEMMA Intact ==
    ASSUME NEW subs \in SUBSET Subscriptions, NEW waiting \in SUBSET subs, NEW ended, NEW root \in Names,
           Heard(subs, waiting, ended), Reached(waiting, root) \cap ended = {}
    PROVE  Reached(waiting, root) = Reached(subs, root)
<1>1. waiting \in SUBSET Subscriptions
    OBVIOUS
<1>2. ClosedUnder(Reached(waiting, root), waiting)
    BY <1>1, ReachedIs
<1>3. ClosedUnder(Reached(waiting, root), subs)
    BY <1>2 DEF ClosedUnder, Heard, Term
<1> QED
    BY <1>3, ReachedSame

\* Streams that nobody new follows remain as they are.
LEMMA AnewGrown ==
    ASSUME conf \in Configs, NEW S \in SUBSET Names, NEW new \in SUBSET Names, NEW cache,
           BuiltFrom(conf, cache, S), Anew(SubsIn(conf, S), cache),
           \A s \in SubsIn(conf, new) : Term(s) => s.on \notin S
    PROVE  Anew(SubsIn(conf, S \cup new), cache)
<1> SUFFICES ASSUME NEW r \in DOMAIN cache PROVE cache[r] = Reached(SubsIn(conf, S \cup new), r)
    BY DEF Anew
<1>1. r \in Names /\ cache[r] \subseteq S /\ cache[r] = Reached(SubsIn(conf, S), r)
    BY BuiltWithin DEF Anew
<1>2. S \cup new \in SUBSET Names /\ SubsIn(conf, S \cup new) = SubsIn(conf, S) \cup SubsIn(conf, new)
    BY SubsAre
<1>3. SubsIn(conf, S) \in SUBSET Subscriptions /\ SubsIn(conf, S \cup new) \in SUBSET Subscriptions
    BY <1>2, SubsAre
<1>4. ClosedUnder(cache[r], SubsIn(conf, S))
    BY <1>1, <1>3, ReachedIs
<1>5. ClosedUnder(cache[r], SubsIn(conf, S \cup new))
    BY <1>1, <1>2, <1>4 DEF ClosedUnder, Term
<1> QED
    BY <1>1, <1>2, <1>3, <1>5, ReachedSame

\* In a stream all but the root follow somebody.
LEMMA StreamFollows ==
    ASSUME conf \in Configs, NEW S \in SUBSET Names, NEW X \in SUBSET SubsIn(conf, S), NEW root \in Names,
           NEW p \in Reached(X, root), p # root
    PROVE  \E s \in AwaitsIn(conf, p) : Term(s)
<1> DEFINE T == {root} \cup {q \in Names : \E s \in AwaitsIn(conf, q) : Term(s)}
<1>1. SubsIn(conf, S) \in SUBSET Subscriptions
    BY SubsAre
<1>2. X \in SUBSET Subscriptions
    BY <1>1
<1>3. ASSUME NEW s \in X, s.type = "TERMINATION" PROVE s.by \in T
    <2>1. s \in SubsIn(conf, S)
        OBVIOUS
    <2>2. s.by \in Names /\ s \in AwaitsIn(conf, s.by)
        BY <2>1, SubsAre
    <2> QED
        BY <1>3, <2>2 DEF Term
<1>4. ClosedUnder(T, X)
    BY <1>3 DEF ClosedUnder
<1>5. root \in T
    OBVIOUS
<1> HIDE DEF T
<1>6. Reached(X, root) \subseteq T
    BY <1>2, <1>4, <1>5, ReachedIs
<1> QED
    BY <1>6 DEF T

\* A stream is within one copy.
LEMMA StreamOfOne ==
    ASSUME conf \in Configs, NEW S \in SUBSET Names, NEW X \in SUBSET SubsIn(conf, S), NEW root \in Names
    PROVE  \A p \in Reached(X, root) : p[2] = root[2]
<1> DEFINE T == {q \in Names : q[2] = root[2]}
<1>1. SubsIn(conf, S) \in SUBSET Subscriptions /\ \A s \in SubsIn(conf, S) : s.on[2] = s.by[2] /\ s.by \in Names
    BY SubsAre
<1>2. X \in SUBSET Subscriptions /\ ClosedUnder(T, X) /\ root \in T
    BY <1>1 DEF ClosedUnder
<1> HIDE DEF T
<1>3. Reached(X, root) \subseteq T
    BY <1>2, ReachedIs
<1> QED
    BY <1>3 DEF T

\* What configuring profiles that nobody knows and that follow no known ones keeps.
LEMMA LastingGrown ==
    ASSUME Typed, ~exited, conf' = conf, NEW new \in SUBSET Names, Configured(new), new \cap profiles = {},
           Heard(SubsIn(conf, profiles), waitEventMap, terminated),
           Ended(SubsIn(conf, profiles), terminated), Ordered(conf, terminated)
    PROVE  /\ Heard(SubsIn(conf, profiles'), waitEventMap', terminated')
           /\ Ended(SubsIn(conf, profiles'), terminated') /\ Ordered(conf, terminated')
<1>1. conf \in Configs /\ profiles \in SUBSET Names /\ terminated \subseteq profiles
    BY DEF Typed, TypeOK
<1>2. /\ profiles' = profiles \cup new /\ waitEventMap' = waitEventMap \cup SubsIn(conf, new)
      /\ terminated' = terminated
    BY Configuring
<1>3. SubsIn(conf, profiles') = SubsIn(conf, profiles) \cup SubsIn(conf, new)
    BY <1>1, <1>2, SubsAre
<1>4. \A s \in SubsIn(conf, new) : s.by \in new
    BY <1>1, SubsAre
<1>5. Heard(SubsIn(conf, profiles'), waitEventMap', terminated')
    BY <1>2, <1>3 DEF Heard
<1>6. Ended(SubsIn(conf, profiles'), terminated')
    BY <1>1, <1>2, <1>3, <1>4 DEF Ended
<1> QED
    BY <1>2, <1>5, <1>6

\* Who is active after new profiles are configured.
LEMMA RootsGrown ==
    ASSUME Typed, ~exited, conf' = conf, NEW new \in SUBSET Names, Configured(new),
           NEW cached, NEW cached2, cached \subseteq cached2, Roots(conf, profiles, activeList, cached),
           \A p \in new : p \in activeList' => p \in cached2 \/ (p[2] > 0 /\ \E s \in AwaitsIn(conf, p) : Term(s))
    PROVE  Roots(conf, profiles', activeList', cached2)
<1>1. conf \in Configs
    BY DEF Typed, TypeOK
<1>2. /\ profiles' = profiles \cup new
      /\ activeList' = activeList \cup {p \in new : AwaitsIn(conf, p) = {} \/
                  \E s \in AwaitsIn(conf, p) : s.type = "ACTIVATION"}
    BY Configuring
<1>3. \A p \in new : \A s \in AwaitsIn(conf, p) : s.type = "ACTIVATION" \/ Term(s)
    BY <1>1, AwaitsOf DEF Subscriptions, Types, Term
<1>4. \A p \in profiles' \ activeList' : AwaitsIn(conf, p) # {} /\ \A s \in AwaitsIn(conf, p) : Term(s)
    BY <1>2, <1>3 DEF Roots
<1>5. ASSUME NEW p \in activeList'
      PROVE  /\ AwaitsIn(conf, p) = {} \/ \E s \in AwaitsIn(conf, p) : s.type = "ACTIVATION"
             /\ p \in cached2 \/ (p[2] > 0 /\ \E s \in AwaitsIn(conf, p) : Term(s))
    <2>1. CASE p \in activeList
        BY <2>1 DEF Roots
    <2>2. CASE p \notin activeList
        BY <1>2, <1>5, <2>2
    <2> QED
        BY <2>1, <2>2
<1> QED
    BY <1>4, <1>5 DEF Roots

LEMMA LastingLoad ==
    ASSUME Typed, Known, Lasting, LoadConfiguration, ~exited', Settled(conf)
    PROVE  Lasting'
<1> DEFINE k == config + 1
           new == Originals(conf.files[k])
           S == profiles \cup new
           U == SubsIn(conf, S)
<1>1. /\ ~exited /\ conf' = conf /\ config \in Nat /\ k \in 1..Len(conf.files) /\ config' = k
      /\ conf.files[k] \in SUBSET Bases /\ new \in SUBSET Names
      /\ Configured(new)
      /\ streamCache' = Cached(streamCache, waitEventMap', activeList')
      /\ waitEventMap' \subseteq U
      /\ activeList' \subseteq S
      /\ new \cap profiles = {}
    BY Loading, KnownLoad
<1>2. conf \in Configs /\ profiles \in SUBSET Names /\ terminated \subseteq profiles
      /\ BuiltFrom(conf, streamCache, profiles)
    BY DEF Typed, TypeOK, Built
<1>3. \A p : p \in new <=> p \in Names /\ p[2] = 0 /\ p[1] \in conf.files[k]
    BY <1>1, OriginalsAre
<1>4. /\ Heard(SubsIn(conf, profiles), waitEventMap, terminated)
      /\ Ended(SubsIn(conf, profiles), terminated) /\ Ordered(conf, terminated)
      /\ Roots(conf, profiles, activeList, DOMAIN streamCache)
      /\ Followed(SubsIn(conf, profiles), profiles) /\ Anew(SubsIn(conf, profiles), streamCache)
    BY <1>1 DEF Lasting
<1>5. Len(conf.files) \in Nat /\ DOMAIN conf.files = 1..Len(conf.files)
    BY <1>2, ConfType, LenProperties
<1>6. \A p \in profiles : \E i \in 1..config : p[1] \in conf.files[i]
    <2>1. TAKE p \in profiles
    <2>2. <<p[1], 0>> \in profiles
        BY <1>1, <2>1 DEF Known
    <2>3. <<p[1], 0>> \in Names /\ <<p[1], 0>>[2] = 0 /\ <<p[1], 0>>[1] = p[1]
        BY <1>2, <2>2
    <2>4. p[1] \in Loaded(conf, config)
        BY <1>1, <2>2, <2>3 DEF Known
    <2> QED
        BY <2>4 DEF Loaded
<1>7. \A s \in SubsIn(conf, new) : s.by \in new /\ s \in AwaitsIn(conf, s.by) /\ s.on[2] = s.by[2] /\ s.on \in Names
    BY <1>1, <1>2, SubsAre DEF Subscriptions
<1>8. \A s \in SubsIn(conf, new) : Term(s) => s.on \notin profiles /\ <<s.on[1], 0>> \notin profiles
    <2>1. SUFFICES ASSUME NEW s \in SubsIn(conf, new), Term(s), NEW p \in profiles, p[1] = s.on[1]
                   PROVE  FALSE
        OBVIOUS
    <2>2. PICK i \in 1..config : s.on[1] \in conf.files[i]
        BY <1>6, <2>1
    <2>3. i \in DOMAIN conf.files /\ k \in DOMAIN conf.files /\ i < k
        BY <1>1, <1>5, <2>2
    <2>4. s.by \in new /\ s \in AwaitsIn(conf, s.by)
        BY <1>7
    <2>5. s.by[1] \in conf.files[k] /\ s.on[1] \in FollowedBy(conf, s.by[1])
        BY <1>3, <2>1, <2>4, ByName DEF Term
    <2> HIDE DEF k, new
    <2> QED
        BY <2>2, <2>3, <2>5 DEF Settled
<1> HIDE DEF new, k
<1>9. profiles' = S /\ terminated' = terminated
    BY <1>1, Configuring
<1>10. /\ Heard(U, waitEventMap', terminated') /\ Ended(U, terminated') /\ Ordered(conf, terminated')
    BY <1>1, <1>4, <1>9, LastingGrown
<1>11. DOMAIN streamCache' = DOMAIN streamCache \cup activeList'
       /\ (\A r \in DOMAIN streamCache : streamCache'[r] = streamCache[r])
       /\ \A r \in activeList' \ DOMAIN streamCache : streamCache'[r] = Reached(waitEventMap', r)
    BY <1>1 DEF Cached
<1>12. Roots(conf, profiles', activeList', DOMAIN streamCache')
    <2>1. DOMAIN streamCache \subseteq DOMAIN streamCache' /\ \A p \in new : p \in activeList' => p \in DOMAIN streamCache'
        BY <1>11
    <2> QED
        BY <1>1, <1>4, <2>1, RootsGrown
<1>13. U = SubsIn(conf, profiles) \cup SubsIn(conf, new) /\ U \in SUBSET Subscriptions /\ S \in SUBSET Names
    BY <1>1, <1>2, SubsAre
<1>14. Followed(U, S)
    <2>1. SUFFICES ASSUME NEW s \in U, Term(s), s.on[2] = 0, NEW n \in 1..MaxClones, <<s.on[1], n>> \in S
                   PROVE  <<s.by[1], n>> \in S
        BY DEF Followed
    <2>2. n # 0
        BY BoundsAssumption
    <2>3. <<s.on[1], n>> \in profiles
        BY <1>3, <2>1, <2>2
    <2>4. CASE s \in SubsIn(conf, profiles)
        BY <1>4, <2>1, <2>3, <2>4 DEF Followed
    <2>5. CASE s \in SubsIn(conf, new)
        <3>1. <<<<s.on[1], n>>[1], 0>> \in profiles
            BY <1>1, <2>3 DEF Known
        <3> QED
            BY <1>8, <2>1, <2>5, <3>1
    <2> QED
        BY <1>13, <2>4, <2>5
<1>15. Anew(U, streamCache)
    BY <1>1, <1>2, <1>4, <1>8, AnewGrown
<1>16. ASSUME NEW r \in activeList', r \notin DOMAIN streamCache PROVE streamCache'[r] = Reached(U, r)
    <2>1. r \in new
        <3>1. SUFFICES ASSUME r \notin new PROVE FALSE
            OBVIOUS
        <3>2. r \in activeList
            <4>1. activeList' = activeList \cup {p \in new : AwaitsIn(conf, p) = {} \/
                      \E s \in AwaitsIn(conf, p) : s.type = "ACTIVATION"}
                BY <1>1, Configuring
            <4> QED
                BY <1>16, <3>1, <4>1
        <3>3. /\ \E s \in AwaitsIn(conf, r) : s.type = "ACTIVATION"
              /\ \E s \in AwaitsIn(conf, r) : Term(s)
            BY <1>4, <1>16, <3>2 DEF Roots
        <3>4. r \in profiles /\ r \in Names
            BY <1>1, <1>2, <1>16, <3>1
        <3>5. PICK i \in 1..config : r[1] \in conf.files[i]
            BY <1>6, <3>4
        <3>6. Len(conf.files) > 1
            BY <1>1, <1>5, <3>5 DEF k
        <3> DEFINE p == <<r[1], 0>>
        <3>7. p \in Originals(Bases)
            BY <3>4, NameIs DEF Originals
        <3>8. /\ \E s \in AwaitsIn(conf, p) : s.type = "ACTIVATION"
              /\ \E s \in AwaitsIn(conf, p) : Term(s)
            <4>1. 0 \in 0..MaxClones
                BY BoundsAssumption
            <4>2. \A s \in AwaitsIn(conf, r) : \E t \in AwaitsIn(conf, p) : t.type = s.type
                <5>1. TAKE s \in AwaitsIn(conf, r)
                <5> DEFINE t == [on |-> <<s.on[1], 0>>, type |-> s.type, by |-> p]
                <5>2. t \in AwaitsIn(conf, p)
                    BY <1>2, <3>4, <4>1, AwaitsCopied
                <5>3. t.type = s.type
                    OBVIOUS
                <5> QED
                    BY <5>2, <5>3
            <4> HIDE DEF p
            <4> QED
                BY <3>3, <4>2 DEF Term
        <3>9. /\ \E w \in conf.waits[p[1]] : w.type = "ACTIVATION"
              /\ FollowedBy(conf, p[1]) # {}
            BY <3>8, ByName DEF Term
        <3>10. p[1] \in Bases
            BY <3>7 DEF Originals
        <3> HIDE DEF p
        <3> QED
            BY <3>6, <3>9, <3>10 DEF Settled
    <2>2. r \in Names /\ r \notin terminated
        BY <1>1, <1>2, <2>1
    <2> DEFINE T == {p \in Names : p \notin terminated}
    <2>3. ClosedUnder(T, waitEventMap')
        <3>1. \A s \in waitEventMap' : s \in U /\ s.by \in Names
            BY <1>1, <1>13 DEF Subscriptions
        <3> QED
            BY <1>9, <1>10, <3>1 DEF ClosedUnder, Ended, Term
    <2>4. r \in T
        BY <2>2
    <2> HIDE DEF T
    <2>5. waitEventMap' \in SUBSET Subscriptions /\ waitEventMap' \in SUBSET U
        BY <1>1, <1>13
    <2> DEFINE W == waitEventMap'
               E == terminated'
    <2>6. Heard(U, W, E)
        BY <1>10
    <2>7. W \in SUBSET Subscriptions /\ W \in SUBSET U /\ ClosedUnder(T, W)
        BY <2>3, <2>5
    <2>8. E = terminated
        BY <1>9
    <2>9. streamCache'[r] = Reached(W, r)
        BY <1>11, <1>16
    <2> HIDE DEF W, E, U
    <2>10. Reached(W, r) \subseteq T
        BY <2>2, <2>4, <2>7, ReachedIs
    <2>11. Reached(W, r) \cap E = {}
        BY <2>8, <2>10 DEF T
    <2>12. Reached(W, r) = Reached(U, r)
        BY <1>13, <2>2, <2>6, <2>7, <2>11, Intact
    <2> QED
        BY <2>9, <2>12
<1>17. Anew(U, streamCache')
    <2>1. ASSUME NEW r \in DOMAIN streamCache' PROVE streamCache'[r] = Reached(U, r)
        <3>1. CASE r \in DOMAIN streamCache
            BY <1>11, <1>15, <3>1 DEF Anew
        <3>2. CASE r \notin DOMAIN streamCache
            BY <1>11, <1>16, <2>1, <3>2
        <3> QED
            BY <3>1, <3>2
    <2> QED
        BY <2>1 DEF Anew
<1> HIDE DEF S, U
<1>18. U = SubsIn(conf, profiles') /\ conf' = conf
    BY <1>1, <1>9 DEF U
<1> QED
    BY <1>9, <1>10, <1>12, <1>14, <1>17, <1>18 DEF Lasting

LEMMA LastingClone ==
    ASSUME Typed, Known, Lasting, NEW root \in Names, CloneStream(root), ~exited', Settled(conf)
    PROVE  Lasting'
<1> DEFINE n == CloneNumber(root)
           cache == CacheAt(root)
           stream == cache[root]
           new == Copies(stream, n)
           copy == <<root[1], n>>
           S == profiles \cup new
           V == SubsIn(conf, profiles)
           U == SubsIn(conf, S)
<1>1. /\ ~exited /\ conf' = conf /\ n \in 1..MaxClones /\ stream \in SUBSET profiles /\ new \in SUBSET Names
      /\ root \in profiles /\ root[2] = 0 /\ root \in stream /\ copy \in new
      /\ Configured(new)
      /\ BuiltFrom(conf, cache, profiles)
      /\ streamCache' = Cached(cache, waitEventMap', {copy})
      /\ waitEventMap' \subseteq U
    BY Cloning
<1>2. conf \in Configs /\ profiles \in SUBSET Names /\ terminated \subseteq profiles
      /\ waitEventMap \in SUBSET V
    BY DEF Typed, TypeOK, Built
<1>3. /\ Heard(V, waitEventMap, terminated) /\ Ended(V, terminated) /\ Ordered(conf, terminated)
      /\ Roots(conf, profiles, activeList, DOMAIN streamCache)
      /\ Followed(V, profiles) /\ Anew(V, streamCache)
    BY <1>1 DEF Lasting
<1>4. /\ new \cap profiles = {} /\ declared' = {} /\ Known'
    BY KnownClone
<1>5. n \in 0..MaxClones /\ n # 0 /\ 0 \in 0..MaxClones
    BY <1>1, BoundsAssumption
<1>6. /\ \A q \in new : q[2] = n /\ \E p \in stream : q = <<p[1], n>>
      /\ \A p \in stream : <<p[1], n>> \in new
    BY <1>1, <1>2, <1>5, CopiesAre
<1>7. /\ streamCache'[copy] = new /\ Reached(waitEventMap', copy) = new /\ copy \notin DOMAIN cache
    BY <1>4, CloneReached
<1>8. \A s \in U : s.on \in new => s.by \in new
    BY CloneClosed
<1>9. /\ DOMAIN cache = DOMAIN streamCache \cup {root}
      /\ \A r \in DOMAIN streamCache : cache[r] = streamCache[r]
      /\ root \notin DOMAIN streamCache => stream = Reached(waitEventMap, root)
    BY DEF CacheAt, Cached
<1> HIDE DEF n, cache, stream, new, copy
<1>10. /\ DOMAIN streamCache' = DOMAIN cache \cup {copy}
       /\ \A r \in DOMAIN cache : streamCache'[r] = cache[r]
    BY <1>1, <1>7 DEF Cached
<1>11. profiles' = S /\ terminated' = terminated /\ S \in SUBSET Names
    BY <1>1, <1>2, Configuring
<1>12. U = V \cup SubsIn(conf, new) /\ U \in SUBSET Subscriptions /\ V \in SUBSET Subscriptions /\ V \in SUBSET U
    BY <1>1, <1>2, SubsAre
<1>13. \A s \in SubsIn(conf, new) : s.by \in new /\ s \in AwaitsIn(conf, s.by) /\ s.on[2] = n /\ s.on \in Names
    BY <1>1, <1>2, <1>6, SubsAre DEF Subscriptions
<1>14. \A s \in V : s.by \in profiles /\ s.on \in Names /\ s.by \in Names /\ s.on[2] = s.by[2] /\ s \in AwaitsIn(conf, s.by)
    BY <1>2, SubsAre DEF Subscriptions
<1>15. PICK X \in SUBSET V : stream = Reached(X, root)
    <2>1. root \in DOMAIN cache
        BY <1>9
    <2> QED
        BY <1>1, <2>1 DEF BuiltFrom, stream
<1>16. \A p \in stream : p \in Names /\ p[2] = 0 /\ p = <<p[1], 0>>
    BY <1>1, <1>2, <1>15, StreamOfOne, NameIs
<1>17. \A p \in stream : p # root => \E s \in AwaitsIn(conf, p) : Term(s)
    BY <1>2, <1>15, StreamFollows
\* the clone follows nobody known
<1>18. \A s \in SubsIn(conf, new) : Term(s) => s.on \notin profiles
    <2>1. SUFFICES ASSUME NEW s \in SubsIn(conf, new), Term(s), s.on \in profiles PROVE FALSE
        OBVIOUS
    <2>2. s.by \in new /\ s.by \in Names /\ s \in AwaitsIn(conf, s.by) /\ s.on[2] = n /\ s.on \in Names
        BY <1>1, <1>13, <2>1
    <2>3. PICK p \in stream : s.by = <<p[1], n>>
        BY <1>6, <2>2
    <2>4. p \in profiles /\ p = <<p[1], 0>>
        BY <1>1, <1>16, <2>3
    <2> DEFINE t == [on |-> <<s.on[1], 0>>, type |-> s.type, by |-> <<s.by[1], 0>>]
    <2>5. t \in AwaitsIn(conf, <<s.by[1], 0>>)
        BY <1>2, <1>5, <2>2, AwaitsCopied
    <2>6. <<s.by[1], 0>> = p
        BY <2>3, <2>4
    <2>7. t.on = <<s.on[1], 0>> /\ t.by = p /\ Term(t)
        BY <2>1, <2>6 DEF Term
    <2>8. t \in AwaitsIn(conf, p)
        BY <2>5, <2>6
    <2> HIDE DEF t
    <2>9. t \in V
        BY <1>2, <2>4, <2>8, SubsAre
    <2>10. t.on[1] = s.on[1] /\ t.on[2] = 0
        BY <2>7
    <2>11. s.on = <<s.on[1], n>>
        BY <2>2, NameIs
    <2>12. <<t.on[1], n>> \in profiles
        BY <2>1, <2>10, <2>11
    <2>13. <<t.by[1], n>> \in profiles
        BY <1>1, <1>3, <2>7, <2>9, <2>10, <2>12 DEF Followed
    <2> QED
        BY <1>4, <2>2, <2>3, <2>7, <2>13
\* the stream that is copied is the configured one
<1>19. stream = Reached(V, root)
    <2>1. CASE root \in DOMAIN streamCache
        BY <1>3, <1>9, <2>1 DEF Anew, stream
    <2>2. CASE root \notin DOMAIN streamCache
        <3>1. stream = Reached(waitEventMap, root)
            BY <1>9, <2>2
        <3>2. AwaitsIn(conf, root) # {} /\ \A s \in AwaitsIn(conf, root) : Term(s)
            <4>1. root \notin activeList
                BY <1>1, <1>3, <2>2 DEF Roots
            <4> QED
                BY <1>1, <1>3, <4>1 DEF Roots
        <3>3. \A p \in stream : \E s \in AwaitsIn(conf, p) : Term(s)
            BY <1>17, <3>2
        <3>4. ASSUME NEW p \in stream, NEW s \in AwaitsIn(conf, p), Term(s) PROVE s.on \in stream /\ s \in V
            <4>1. p \in Names /\ p \in profiles /\ p[2] = 0
                BY <1>1, <1>16
            <4>2. s \in V /\ s.on \in Names /\ s.on[2] = 0
                BY <1>2, <3>4, <4>1, SubsAre, AwaitsOf DEF Subscriptions
            <4> DEFINE by == <<p[1], n>>
                       t == [on |-> <<s.on[1], n>>, type |-> s.type, by |-> by]
            <4>3. t \in AwaitsIn(conf, by)
                BY <1>2, <1>5, <4>1, AwaitsCopied
            <4>4. by \in new
                BY <1>6
            <4>5. t.on = <<s.on[1], n>> /\ Term(t)
                BY <3>4 DEF Term
            <4> HIDE DEF t, by
            <4>6. t \in SubsIn(conf, new)
                BY <1>1, <1>2, <4>3, <4>4, SubsAre
            <4>7. t.on \in S
                <5>1. t \in SubsIn(conf, profiles')
                    BY <1>11, <1>12, <4>6
                <5>2. \A x \in SubsIn(conf', profiles') : x.on \in profiles' \cup declared'
                    BY <1>4 DEF Known
                <5> QED
                    BY <1>1, <1>4, <1>11, <5>1, <5>2
            <4>8. t.on \in new
                BY <1>18, <4>5, <4>6, <4>7
            <4>9. PICK q \in stream : t.on = <<q[1], n>>
                BY <1>6, <4>8
            <4>10. s.on = q
                <5>1. q[1] = s.on[1] /\ q = <<q[1], 0>>
                    BY <1>16, <4>5, <4>9
                <5>2. s.on = <<s.on[1], 0>>
                    BY <4>2, NameIs
                <5> QED
                    BY <5>1, <5>2
            <4> QED
                BY <4>2, <4>9, <4>10
        <3>5. stream \cap terminated = {}
            <4> DEFINE R == stream \cap terminated
            <4>1. SUFFICES ASSUME R # {} PROVE FALSE
                OBVIOUS
            <4>2. R \in SUBSET terminated
                OBVIOUS
            <4>3. PICK p \in R : \A s \in AwaitsIn(conf, p) : Term(s) => s.on \notin R
                BY <1>3, <4>1, <4>2 DEF Ordered
            <4>4. PICK s \in AwaitsIn(conf, p) : Term(s)
                BY <3>3, <4>3
            <4>5. s.on \in stream /\ s \in V
                BY <3>4, <4>3, <4>4
            <4>6. s.by = p
                BY <1>2, <1>16, <4>3, <4>4, AwaitsOf
            <4>7. s.on \in terminated
                BY <1>3, <4>3, <4>4, <4>5, <4>6 DEF Ended
            <4> QED
                BY <4>3, <4>4, <4>5, <4>7
        <3>6. Reached(waitEventMap, root) \cap terminated = {}
            BY <3>1, <3>5
        <3> HIDE DEF V
        <3> QED
            BY <1>2, <1>3, <1>12, <3>1, <3>6, Intact
    <2> QED
        BY <2>1, <2>2
<1>20. ClosedUnder(stream, V)
    BY <1>1, <1>2, <1>12, <1>19, ReachedIs
<1>21. Anew(V, cache)
    <2>1. cache[root] = stream
        BY DEF stream
    <2> QED
        BY <1>3, <1>9, <1>19, <2>1 DEF Anew
<1>22. Anew(U, cache)
    BY <1>1, <1>2, <1>18, <1>21, AnewGrown
<1>23. Reached(U, copy) = new
    <2>1. ClosedUnder(new, U)
        BY <1>8 DEF ClosedUnder, new, n, stream, cache
    <2> DEFINE W == waitEventMap'
    <2>2. W \in SUBSET U /\ Reached(W, copy) = new /\ copy \in Names
        BY <1>1, <1>7
    <2> HIDE DEF W, U
    <2> QED
        BY <1>12, <2>1, <2>2, ReachedSame
<1>24. Anew(U, streamCache')
    BY <1>7, <1>10, <1>22, <1>23 DEF Anew
<1>25. Heard(U, waitEventMap', terminated') /\ Ended(U, terminated') /\ Ordered(conf, terminated')
    BY <1>1, <1>3, <1>4, <1>11, LastingGrown
<1>26. Roots(conf, profiles', activeList', DOMAIN streamCache')
    <2>1. ASSUME NEW p \in new, p # copy PROVE p[2] > 0 /\ \E s \in AwaitsIn(conf, p) : Term(s)
        <3>1. PICK q \in stream : p = <<q[1], n>>
            BY <1>6
        <3>2. q # root
            BY <2>1, <3>1 DEF copy
        <3>3. PICK s \in AwaitsIn(conf, q) : Term(s)
            BY <1>17, <3>2
        <3>4. q \in Names
            BY <1>16
        <3> DEFINE t == [on |-> <<s.on[1], n>>, type |-> s.type, by |-> <<q[1], n>>]
        <3>5. t \in AwaitsIn(conf, <<q[1], n>>)
            BY <1>2, <1>5, <3>4, AwaitsCopied
        <3>6. Term(t)
            BY <3>3 DEF Term
        <3>7. p[2] > 0
            BY <1>1, <1>6
        <3> QED
            BY <3>1, <3>5, <3>6, <3>7
    <2>2. DOMAIN streamCache \subseteq DOMAIN streamCache' /\ copy \in DOMAIN streamCache'
        BY <1>9, <1>10
    <2> QED
        BY <1>1, <1>3, <2>1, <2>2, RootsGrown
<1>27. Followed(U, S)
    <2>1. SUFFICES ASSUME NEW s \in U, Term(s), s.on[2] = 0, NEW m \in 1..MaxClones, <<s.on[1], m>> \in S
                   PROVE  <<s.by[1], m>> \in S
        BY DEF Followed
    <2>2. s \in V
        BY <1>5, <1>12, <1>13, <2>1
    <2>3. CASE <<s.on[1], m>> \in profiles
        BY <1>3, <2>1, <2>2, <2>3 DEF Followed
    <2>4. CASE <<s.on[1], m>> \in new
        <3>1. m = n
            BY <1>6, <2>4
        <3>2. PICK p \in stream : <<s.on[1], m>> = <<p[1], n>>
            BY <1>6, <2>4
        <3>3. s.on = <<s.on[1], 0>> /\ p = <<p[1], 0>> /\ s.on[1] = p[1]
            BY <1>14, <1>16, <2>1, <2>2, <3>2, NameIs
        <3>4. s.on \in stream
            BY <3>2, <3>3
        <3>5. s.by \in stream
            BY <1>20, <2>1, <2>2, <3>4 DEF ClosedUnder, Term
        <3> QED
            BY <1>6, <3>1, <3>5
    <2> QED
        BY <2>1, <2>3, <2>4
<1> HIDE DEF S, U, V
<1>28. U = SubsIn(conf, profiles') /\ conf' = conf
    BY <1>1, <1>11 DEF U
<1> QED
    BY <1>11, <1>24, <1>25, <1>26, <1>27, <1>28 DEF Lasting

LEMMA LastingActivate ==
    ASSUME Typed, Lasting, NEW root \in Names, Activate(root)
    PROVE  Lasting'
<1> SUFFICES ASSUME ~exited', Settled(conf') PROVE Lasting'
    BY DEF Lasting
<1> DEFINE V == SubsIn(conf, profiles)
           own == [on |-> root, type |-> "ACTIVATION", by |-> root]
<1>1. /\ root \in profiles /\ own \in waitEventMap /\ waitEventMap' = waitEventMap \ {own}
      /\ activeList' = activeList \cup {root}
      /\ UNCHANGED <<conf, profiles, streamCache, terminated, exited>>
    BY DEF Activate
<1>2. conf \in Configs /\ profiles \in SUBSET Names /\ waitEventMap \subseteq V
    BY DEF Typed, TypeOK, Built
<1>3. /\ Heard(V, waitEventMap, terminated) /\ Ended(V, terminated) /\ Ordered(conf, terminated)
      /\ Roots(conf, profiles, activeList, DOMAIN streamCache)
      /\ Followed(V, profiles) /\ Anew(V, streamCache)
    BY <1>1 DEF Lasting
<1>4. own.by = root /\ ~Term(own)
    BY DEF Term
<1> HIDE DEF own
<1>5. own \in AwaitsIn(conf, root)
    BY <1>1, <1>2, <1>4, SubsAre
<1>6. activeList' = activeList
    BY <1>1, <1>3, <1>4, <1>5 DEF Roots
<1>7. Heard(V, waitEventMap', terminated)
    BY <1>1, <1>3, <1>4 DEF Heard
<1> HIDE DEF V
<1>8. V = SubsIn(conf', profiles')
    BY <1>1 DEF V
<1> QED
    BY <1>1, <1>3, <1>6, <1>7, <1>8 DEF Lasting

LEMMA LastingTerminate ==
    ASSUME Typed, Lasting, NEW p \in Names, Terminate(p)
    PROVE  Lasting'
<1> SUFFICES ASSUME ~exited', Settled(conf') PROVE Lasting'
    BY DEF Lasting
<1> DEFINE V == SubsIn(conf, profiles)
           T == terminated \cup {p}
<1>1. /\ p \in profiles /\ p \notin terminated /\ terminated' = T
      /\ \A s \in waitEventMap : s.by # p
      /\ waitEventMap' = {s \in waitEventMap : s.on # p}
      /\ UNCHANGED <<conf, profiles, activeList, streamCache, exited>>
    BY DEF Terminate
<1>2. conf \in Configs /\ profiles \in SUBSET Names /\ waitEventMap \subseteq V
    BY DEF Typed, TypeOK, Built
<1>3. /\ Heard(V, waitEventMap, terminated) /\ Ended(V, terminated) /\ Ordered(conf, terminated)
      /\ Roots(conf, profiles, activeList, DOMAIN streamCache)
      /\ Followed(V, profiles) /\ Anew(V, streamCache)
    BY <1>1 DEF Lasting
<1>4. Heard(V, waitEventMap', T)
    BY <1>1, <1>3 DEF Heard
<1>5. \A s \in V : Term(s) /\ s.by = p => s.on \in terminated
    BY <1>1, <1>3 DEF Heard
<1>6. Ended(V, T)
    BY <1>3, <1>5 DEF Ended
<1>7. ASSUME NEW q \in T, NEW s \in AwaitsIn(conf, q), Term(s) PROVE s.on \in terminated
    <2>1. q \in profiles /\ q \in Names
        BY <1>1, <1>2 DEF Typed, TypeOK
    <2>2. s \in V /\ s.by = q
        BY <1>2, <2>1, SubsAre, AwaitsOf
    <2> HIDE DEF V
    <2> QED
        BY <1>3, <1>5, <1>7, <2>2 DEF Ended
<1>8. Ordered(conf, T)
    <2>1. SUFFICES ASSUME NEW S \in SUBSET T, S # {}
                   PROVE  \E q \in S : \A s \in AwaitsIn(conf, q) : Term(s) => s.on \notin S
        BY DEF Ordered
    <2>2. CASE S \ {p} = {}
        <3>1. S = {p}
            BY <2>1, <2>2
        <3> QED
            BY <1>1, <1>7, <3>1
    <2>3. CASE S \ {p} # {}
        <3>1. S \ {p} \in SUBSET terminated
            OBVIOUS
        <3>2. PICK q \in S \ {p} : \A s \in AwaitsIn(conf, q) : Term(s) => s.on \notin S \ {p}
            BY <1>3, <2>3, <3>1 DEF Ordered
        <3>3. \A s \in AwaitsIn(conf, q) : Term(s) => s.on # p
            BY <1>1, <1>7, <3>2
        <3> QED
            BY <3>2, <3>3
    <2> QED
        BY <2>2, <2>3
<1> HIDE DEF V, T
<1>9. V = SubsIn(conf', profiles')
    BY <1>1 DEF V
<1> QED
    BY <1>1, <1>3, <1>4, <1>6, <1>8, <1>9 DEF Lasting

LEMMA LastingStreamReset ==
    ASSUME Typed, Lasting, NEW root \in Names, StreamReset(root)
    PROVE  Lasting'
<1> SUFFICES ASSUME ~exited', Settled(conf') PROVE Lasting'
    BY DEF Lasting
<1> DEFINE V == SubsIn(conf, profiles)
           nodes == streamCache[root]
           T == terminated \ nodes
<1>1. /\ root \in DOMAIN streamCache
      /\ waitEventMap' = waitEventMap \cup SubsIn(conf, nodes)
      /\ terminated' = T
      /\ UNCHANGED <<conf, profiles, activeList, streamCache, exited>>
    BY AwaitsAre DEF StreamReset
<1>2. conf \in Configs /\ profiles \in SUBSET Names /\ nodes \in SUBSET Names
      /\ BuiltFrom(conf, streamCache, profiles)
    BY <1>1 DEF Typed, TypeOK, Built
<1>3. /\ Heard(V, waitEventMap, terminated) /\ Ended(V, terminated) /\ Ordered(conf, terminated)
      /\ Roots(conf, profiles, activeList, DOMAIN streamCache)
      /\ Followed(V, profiles) /\ Anew(V, streamCache)
    BY <1>1 DEF Lasting
<1>4. ClosedUnder(nodes, V)
    <2>1. nodes = Reached(V, root) /\ V \in SUBSET Subscriptions
        BY <1>1, <1>2, <1>3, SubsAre DEF Anew
    <2> QED
        BY <2>1, ReachedIs
<1> HIDE DEF nodes
<1>5. Heard(V, waitEventMap', T)
    <2>1. SUFFICES ASSUME NEW s \in V, Term(s), s \notin waitEventMap, s.on \in nodes
                   PROVE  s \in SubsIn(conf, nodes)
        BY <1>1, <1>3 DEF Heard
    <2>2. s.by \in nodes
        BY <1>4, <2>1 DEF ClosedUnder, Term
    <2>3. s \in AwaitsIn(conf, s.by)
        BY <1>2, <2>1, SubsAre
    <2> QED
        BY <1>2, <2>2, <2>3, SubsAre
<1>6. Ended(V, T)
    BY <1>3, <1>4 DEF Ended, ClosedUnder, Term
<1>7. Ordered(conf, T)
    BY <1>3 DEF Ordered
<1> HIDE DEF V, T
<1>8. V = SubsIn(conf', profiles')
    BY <1>1 DEF V
<1> QED
    BY <1>1, <1>3, <1>5, <1>6, <1>7, <1>8 DEF Lasting

LEMMA OfNone ==
    \A c, W, cache : DOMAIN cache = {} =>
        /\ SubsIn(c, {}) = {} /\ Heard({}, W, {}) /\ Ended({}, {}) /\ Ordered(c, {})
        /\ Roots(c, {}, {}, {}) /\ Followed({}, {}) /\ Anew({}, cache)
BY DEF SubsIn, Heard, Ended, Ordered, Roots, Followed, Anew

LEMMA LastingNext == Typed /\ Known /\ Lasting /\ [Next]_vars => Lasting'
<1> SUFFICES ASSUME Typed, Known, Lasting, [Next]_vars PROVE Lasting'
    OBVIOUS
<1>1. ASSUME LoadConfiguration \/ \E p \in Names : CloneStream(p) PROVE conf' = conf
    BY <1>1 DEF LoadConfiguration, CloneStream
<1>2. CASE LoadConfiguration
    <2>1. CASE ~exited' /\ Settled(conf)
        BY <1>2, <2>1, LastingLoad
    <2>2. CASE ~(~exited' /\ Settled(conf))
        BY <1>1, <1>2, <2>2 DEF Lasting
    <2> QED
        BY <2>1, <2>2
<1>3. ASSUME NEW p \in Names, CloneStream(p) PROVE Lasting'
    <2>1. CASE ~exited' /\ Settled(conf)
        BY <1>3, <2>1, LastingClone
    <2>2. CASE ~(~exited' /\ Settled(conf))
        BY <1>1, <1>3, <2>2 DEF Lasting
    <2> QED
        BY <2>1, <2>2
<1>4. CASE \E p \in Names : Activate(p) \/ Terminate(p) \/ StreamReset(p)
    BY <1>4, LastingActivate, LastingTerminate, LastingStreamReset
<1>5. CASE Reset
    <2>1. profiles' = {} /\ activeList' = {} /\ streamCache' = <<>> /\ terminated' = {}
        BY <1>5 DEF Reset
    <2>2. DOMAIN streamCache' = {}
        BY <2>1
    <2> QED
        BY <2>1, <2>2, OfNone DEF Lasting
<1>6. CASE UNCHANGED vars
    BY <1>6 DEF vars, tables, Lasting
<1> QED
    BY <1>2, <1>3, <1>4, <1>5, <1>6 DEF Next

\* A stream in the cache is what the configured waits lead to, whatever has been
\* cloned, terminated and reset since it was built (getStream, "refresh the stream
\* cache" in loadConfiguration), if no profile follows one of an earlier file and, of
\* several files, no root follows another profile.
THEOREM Fresh ==
    ASSUME \A c \in Configs : Settled(c)
    PROVE  Spec => []StreamsFresh
<1>1. Typed /\ Lasting => StreamsFresh
    BY AwaitsAre DEF Typed, TypeOK, Lasting, Anew, StreamsFresh
<1>2. Init => Lasting
    <2>1. ASSUME Init PROVE profiles = {} /\ activeList = {} /\ terminated = {} /\ DOMAIN streamCache = {}
        BY <2>1 DEF Init
    <2> QED
        BY <2>1, OfNone DEF Lasting
<1>3. Spec => [](Known /\ Lasting)
    <2>1. (Known /\ Lasting) /\ Typed /\ [Next]_vars => (Known /\ Lasting)'
        BY KnownNext, LastingNext
    <2> QED
        BY <2>1, <1>2, InitKnown, AlwaysTyped, PTL DEF Spec
<1> QED
    BY <1>1, <1>3, AlwaysTyped, PTL
=============================================================================
