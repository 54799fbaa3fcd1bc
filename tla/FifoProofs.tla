----------------------------- MODULE FifoProofs -----------------------------
(***************************************************************************)
(* Theorems about the ATP FIFO for every set of configurations, packet     *)
(* sizes and precision: first what concerns numbers (IInv), then the       *)
(* account of the bytes (Books), which needs the sums of sequences.        *)
(***************************************************************************)
EXTENDS Fifo, SequenceTheorems, FiniteSetTheorems, WellFoundedInduction,
        TLAPS

(***************************************************************************)
(* Least numbers, and functions that are defined by recursion: over 0..N   *)
(* one is what its equation says (Recursion), for the least number at      *)
(* which it would not be (LeastOf) has one before it.                      *)
(***************************************************************************)

LEMMA LeastOf ==
    ASSUME NEW T \in SUBSET Nat, T # {}
    PROVE  \E x \in T : \A y \in T : x <= y
<1>1. PICK x \in T : \A y \in T : ~(<<y, x>> \in OpToRel(<, Nat))
    BY NatLessThanWellFounded, WFMin
<1>2. \A y \in T : ~(y < x)
    BY <1>1 DEF OpToRel
<1>3. \A y \in T : x <= y
    BY <1>2
<1> QED
    BY <1>3

LEMMA MinOf ==
    ASSUME NEW T \in SUBSET Nat, T # {}
    PROVE  Min(T) \in T /\ \A y \in T : Min(T) <= y
<1>1. \E x \in T : \A y \in T : x <= y
    BY LeastOf
<1> QED
    BY <1>1 DEF Min

\* A set of numbers that holds 0, and with each but the last the next one.
LEMMA Upward ==
    ASSUME NEW N \in Nat, NEW G, 0 \in G, \A n \in 1..N : n - 1 \in G => n \in G
    PROVE  0..N \subseteq G
<1> DEFINE T == {n \in 0..N : n \notin G}
<1>1. SUFFICES ASSUME T # {} PROVE FALSE
    OBVIOUS
<1>2. PICK n \in T : \A m \in T : n <= m
    <2>1. T \in SUBSET Nat
        OBVIOUS
    <2> HIDE DEF T
    <2> QED
        BY <1>1, <2>1, LeastOf
<1>3. n \in 1..N /\ n - 1 \in 0..N
    BY <1>2
<1>4. n - 1 \notin T
    BY <1>2, <1>3
<1> QED
    BY <1>2, <1>3, <1>4

Steps(f, N, base, g) == f = [n \in 0..N |-> IF n = 0 THEN base ELSE g[n][f[n - 1]]]

LEMMA Recursion ==
    ASSUME NEW N \in Nat, NEW S, NEW base \in S, NEW g \in [1..N -> [S -> S]]
    PROVE  \E f \in [0..N -> S] : Steps(f, N, base, g)
<1> DEFINE G == {n \in 0..N : \E f \in [0..n -> S] : Steps(f, n, base, g)}
<1>1. 0 \in G
    <2> DEFINE f == [m \in 0..0 |-> base]
    <2>1. f = [m \in 0..0 |-> IF m = 0 THEN base ELSE g[m][f[m - 1]]]
        OBVIOUS
    <2>2. Steps(f, 0, base, g) /\ f \in [0..0 -> S]
        BY <2>1 DEF Steps
    <2> QED
        BY <2>2
<1>2. ASSUME NEW n \in 1..N, n - 1 \in G PROVE n \in G
    <2>1. PICK f \in [0..n - 1 -> S] : Steps(f, n - 1, base, g)
        BY <1>2
    <2> DEFINE e == g[n][f[n - 1]]
               h == [m \in 0..n |-> IF m = n THEN e ELSE f[m]]
    <2>2. n \in Nat /\ n # 0 /\ n - 1 \in 0..n - 1 /\ f[n - 1] \in S /\ g[n] \in [S -> S] /\ e \in S
        OBVIOUS
    <2> HIDE DEF e
    <2>3. h \in [0..n -> S]
        <3>1. \A m \in 0..n : m # n => m \in 0..n - 1
            OBVIOUS
        <3> QED
            BY <2>2, <3>1
    <2>4. \A m \in 0..n : h[m] = IF m = 0 THEN base ELSE g[m][h[m - 1]]
        <3>1. TAKE m \in 0..n
        <3>2. CASE m = n
            <4>1. n \in 0..n /\ n - 1 \in 0..n /\ n - 1 # n
                BY <2>2
            <4>2. h[n] = e /\ h[n - 1] = f[n - 1]
                BY <4>1
            <4> HIDE DEF h
            <4> QED
                BY <2>2, <3>2, <4>2 DEF e
        <3>3. CASE m # n
            <4>1. m \in 0..n - 1 /\ (m # 0 => m - 1 \in 0..n /\ m - 1 # n)
                BY <3>3
            <4>2. h[m] = f[m] /\ (m # 0 => h[m - 1] = f[m - 1])
                BY <3>3, <4>1
            <4>3. f[m] = IF m = 0 THEN base ELSE g[m][f[m - 1]]
                BY <2>1, <4>1 DEF Steps
            <4> HIDE DEF h
            <4> QED
                BY <4>1, <4>2, <4>3
        <3> QED
            BY <3>2, <3>3
    <2>5. h = [m \in 0..n |-> IF m = 0 THEN base ELSE g[m][h[m - 1]]]
        BY <2>4
    <2> HIDE DEF h
    <2>6. Steps(h, n, base, g)
        BY <2>5 DEF Steps
    <2> QED
        BY <2>3, <2>6
<1> HIDE DEF G
<1>3. 0..N \subseteq G
    BY <1>1, <1>2, Upward
<1>4. N \in G
    BY <1>3
<1> QED
    BY <1>4 DEF G

(***************************************************************************)
(* Arithmetic.                                                             *)
(***************************************************************************)

\* The smaller and the larger of two numbers.
LEMMA MinOfTwo ==
    ASSUME NEW a \in Int, NEW b \in Int
    PROVE  Min({a, b}) = IF a <= b THEN a ELSE b
BY DEF Min

LEMMA MaxOfTwo ==
    ASSUME NEW a \in Int, NEW b \in Int
    PROVE  Max({a, b}) = IF a >= b THEN a ELSE b
BY DEF Max

\* Integer division leaves a remainder smaller than the divisor.
LEMMA Division ==
    ASSUME NEW a \in Nat, NEW b \in Nat \ {0}
    PROVE  /\ a \div b \in Nat
           /\ b * (a \div b) <= a
           /\ a < b * (a \div b) + b
           /\ a % b \in 0 .. b - 1
OBVIOUS

\* Multiplication by a positive number is monotone.
LEMMA TimesMonotone ==
    ASSUME NEW a \in Nat, NEW b \in Nat, NEW c \in Nat, a <= b
    PROVE  c * a \in Nat /\ c * b \in Nat /\ c * a <= c * b
<1>1. c * b = c * a + c * (b - a)
    OBVIOUS
<1>2. c * (b - a) \in Nat /\ c * a \in Nat /\ c * b \in Nat
    OBVIOUS
<1> QED
    BY <1>1, <1>2

\* Part of a period moves less than a period's bytes.
LEMMA PartOfPeriod ==
    ASSUME NEW p \in Nat \ {0}, NEW r \in Nat \ {0}, NEW d \in 0 .. p - 1
    PROVE  (d * r) \div p \in 0 .. r - 1
<1> DEFINE q == (d * r) \div p
<1>1. d * r \in Nat
    OBVIOUS
<1>2. q \in Nat /\ p * q <= d * r
    BY <1>1, Division
<1>3. r * d <= r * (p - 1)
    BY TimesMonotone
<1>4. r * (p - 1) = p * r - r /\ r * d = d * r /\ p * r \in Nat
    OBVIOUS
<1>5. p * q < p * r
    <2>1. p * q \in Nat
        BY <1>2
    <2> HIDE DEF q
    <2> QED
        BY <1>1, <1>2, <1>3, <1>4, <2>1
<1>6. q < r
    <2>1. ASSUME r <= q PROVE FALSE
        <3>1. p * r <= p * q
            BY <1>2, <2>1, TimesMonotone
        <3> QED
            BY <1>2, <1>4, <1>5, <3>1
    <2> QED
        BY <1>2, <2>1
<1> QED
    BY <1>2, <1>6

(***************************************************************************)
(* The configuration.                                                      *)
(***************************************************************************)
LEMMA ConfType ==
    ASSUME conf \in Configs
    PROVE  /\ conf.kind \in Kinds /\ conf.rate \in Nat /\ conf.period \in Nat \ {0}
           /\ conf.max \in Nat /\ conf.start \in Nat /\ conf.start \in {0, conf.max}
           /\ conf.max > 0 => conf.rate <= conf.max
           /\ conf.tracked \in BOOLEAN /\ conf.home \subseteq LevelEvents
BY ConfigsAssumption DEF Configuration

(***************************************************************************)
(* The update.                                                             *)
(***************************************************************************)

\* The bytes due are a natural number of fractions.
LEMMA DueType ==
    ASSUME NumbersOK, NEW t \in Nat, now <= t
    PROVE  /\ Due(t) \in Nat
           /\ Due(t) % Precision \in 0 .. Precision - 1
           /\ Amount(t) \in Nat
<1>1. conf.rate \in Nat /\ conf.period \in Nat \ {0}
    BY ConfType DEF NumbersOK
<1> DEFINE bytes == (t - time) * conf.rate
           whole == bytes \div conf.period
           rem == bytes % conf.period
           part == (2 * rem * Precision + conf.period) \div (2 * conf.period)
<1>2. t - time \in Nat /\ carry \in Nat
    BY PrecisionAssumption DEF NumbersOK
<1>3. bytes \in Nat
    BY <1>1, <1>2
<1> HIDE DEF bytes
<1>4. whole \in Nat /\ rem \in 0 .. conf.period - 1
    BY <1>1, <1>3, Division
<1> HIDE DEF whole, rem
<1>5. 2 * rem * Precision + conf.period \in Nat /\ 2 * conf.period \in Nat \ {0}
    BY <1>1, <1>4, PrecisionAssumption
<1>6. part \in Nat
    BY <1>5, Division
<1> HIDE DEF part
<1>7. whole * Precision + carry + part \in Nat
    BY <1>2, <1>4, <1>6, PrecisionAssumption
<1>8. Due(t) \in Nat
    BY <1>7 DEF Due, whole, part, bytes, rem
<1> QED
    BY <1>8, PrecisionAssumption, Division DEF Amount

\* What an update makes of the level.
LEMMA LevelType ==
    ASSUME NumbersOK, NEW t \in Nat, now <= t, NEW lvl \in Nat
    PROVE  /\ LevelAfter(lvl, t) \in Nat
           /\ Reading => LevelAfter(lvl, t) <= lvl
           /\ ~Reading => LevelAfter(lvl, t) <= conf.max
           /\ ~Reading /\ lvl <= conf.max => LevelAfter(lvl, t) >= lvl
<1>1. Amount(t) \in Nat /\ conf.max \in Nat
    BY DueType, ConfType DEF NumbersOK
<1>2. Reading => LevelAfter(lvl, t) = IF 0 >= lvl - Amount(t) THEN 0 ELSE lvl - Amount(t)
    BY <1>1, MaxOfTwo DEF LevelAfter
<1>3. ~Reading => LevelAfter(lvl, t) = IF conf.max <= lvl + Amount(t)
                                       THEN conf.max ELSE lvl + Amount(t)
    BY <1>1, MinOfTwo DEF LevelAfter
<1> QED
    BY <1>1, <1>2, <1>3

\* An update preserves the types of what it changes.
LEMMA UpdateType ==
    ASSUME NumbersOK, NEW t \in Nat, now <= t, NEW lvl \in Nat,
           UNCHANGED conf, Update(t), Flag(lvl, t)
    PROVE  /\ {now', time', initialFill', firstActivationTime'} \subseteq Nat
           /\ firstActivationTime' <= time' /\ time' = t /\ now' = t
           /\ carry' \in 0 .. Precision - 1
           /\ firstActivation' \in BOOLEAN /\ active' \in BOOLEAN
           /\ flagged' \in {"none", "underrun", "overrun"}
<1>1. Due(t) % Precision \in 0 .. Precision - 1 /\ Amount(t) \in Nat
    BY DueType
<1>2. initialFill \in Nat /\ initialFill - Amount(t) \in Int
    BY <1>1 DEF NumbersOK
<1>3. initialFill' \in Nat
    BY <1>2, MaxOfTwo DEF Update
<1>4. carry' \in 0 .. Precision - 1
    BY <1>1 DEF Update, NumbersOK
<1>5. firstActivationTime' \in Nat /\ firstActivationTime' <= t
    BY DEF Update, NumbersOK
<1>6. active' \in BOOLEAN /\ firstActivation' \in BOOLEAN
    BY DEF Update, NumbersOK
<1>7. flagged' \in {"none", "underrun", "overrun"}
    BY DEF Flag
<1> QED
    BY <1>3, <1>4, <1>5, <1>6, <1>7 DEF Update

(***************************************************************************)
(* The forecast.                                                           *)
(***************************************************************************)

\* The base of the forecast is less than a period ahead.
LEMMA BaseAhead ==
    ASSUME conf \in Configs, NEW t \in Nat, NEW from \in Nat, from <= t
    PROVE  Base(t, from) \in Nat /\ Base(t, from) - t \in 0 .. conf.period - 1
<1>1. conf.period \in Nat \ {0}
    BY ConfType
<1> DEFINE p == conf.period
           k == (t - from + p - 1) \div p
<1>2. t - from + p - 1 \in Nat
    BY <1>1
<1>3. k \in Nat /\ p * k <= t - from + p - 1 /\ t - from + p - 1 < p * k + p
    BY <1>1, <1>2, Division
<1>4. p * k \in Nat /\ k * p = p * k
    BY <1>1, <1>3
<1>5. Base(t, from) = from + k * p
    BY DEF Base
<1> HIDE DEF k
<1> QED
    BY <1>1, <1>3, <1>4, <1>5

\* The time a refusal names is 0 or yet to come.
LEMMA RetryTime ==
    ASSUME conf \in Configs, inFlight \in Nat,
           NEW lvl \in Nat, NEW t \in Nat, NEW from \in Nat, from <= t,
           NEW data \in Nat \ {0}, ~Fits(lvl, data)
    PROVE  LET n == NextTransmissionTime(lvl, t, from, data)
           IN  n \in Nat /\ (n = 0 \/ n > t)
<1> DEFINE p == conf.period
           r == conf.rate
           base == Base(t, from)
           f == Forecast(t, from)
           m == Missing(lvl, t, from, data)
<1>1. CASE ~(r > 0 /\ (conf.max = 0 \/ conf.max - inFlight >= data))
    BY <1>1 DEF NextTransmissionTime
<1>2. CASE r > 0 /\ (conf.max = 0 \/ conf.max - inFlight >= data)
    <2>1. p \in Nat \ {0} /\ r \in Nat \ {0} /\ conf.max \in Nat
        BY <1>2, ConfType
    <2>2. base \in Nat /\ base - t \in 0 .. p - 1
        BY BaseAhead
    <2>3. f = ((base - t) * r) \div p
        BY DEF Forecast
    <2> HIDE DEF base
    <2>4. f \in 0 .. r - 1
        BY <2>1, <2>2, <2>3, PartOfPeriod
    <2>5. base = t => f = 0
        <3>1. 0 \div p = 0 /\ 0 * r = 0
            BY <2>1
        <3> QED
            BY <2>1, <2>2, <2>3, <3>1
    <2> HIDE DEF f
    <2>6. m \in Int /\ m >= r - f
        <3>1. CASE Reading
            <4>1. m = data - f + inFlight + r - 1 + (lvl - conf.max)
                BY <3>1 DEF Missing, f
            <4>2. lvl + data + inFlight > conf.max
                BY <2>1, <3>1 DEF Fits
            <4> QED
                BY <2>1, <2>4, <4>1, <4>2
        <3>2. CASE ~Reading
            <4>1. m = data - f + inFlight + r - 1 + (-lvl)
                BY <3>2 DEF Missing, f
            <4>2. lvl < data + inFlight
                BY <2>1, <3>2 DEF Fits
            <4> QED
                BY <2>1, <2>4, <4>1, <4>2
        <3> QED
            BY <3>1, <3>2
    <2> DEFINE q == m \div r
    <2>7. NextTransmissionTime(lvl, t, from, data) = base + q * p
        BY <1>2 DEF NextTransmissionTime, base
    <2> HIDE DEF m
    <2>8. m \in Nat /\ q \in Nat /\ m < r * q + r
        <3>1. m \in Nat
            BY <2>1, <2>4, <2>6
        <3> QED
            BY <2>1, <3>1, Division
    <2>9. q * p \in Nat
        BY <2>1, <2>8
    <2>10. CASE base = t
        <3>1. q # 0
            BY <2>1, <2>5, <2>6, <2>8, <2>10
        <3>2. p * 1 <= p * q
            BY <2>1, <2>8, <3>1, TimesMonotone
        <3>3. q * p > 0
            BY <2>1, <2>8, <3>2
        <3> QED
            BY <2>2, <2>7, <2>9, <2>10, <3>3
    <2>11. CASE base # t
        BY <2>2, <2>7, <2>9, <2>11
    <2> QED
        BY <2>10, <2>11
<1> QED
    BY <1>1, <1>2

(***************************************************************************)
(* The inductive invariant.                                                *)
(***************************************************************************)

\* What a FIFO linked by one event waits for tells whether it is active.
Polarity ==
    \A e \in LevelEvents : conf.home = {e} =>
        /\ waits \in {{e}, {Opposite(e)}, {}}
        /\ ~early /\ waits = {e} => (active <=> firstActivation)
        /\ ~early /\ waits = {Opposite(e)} => firstActivation /\ ~active

IInv == NumbersOK /\ Capacity /\ Polarity

\* Opposite pairs the level events.
LEMMA OppositeEvents ==
    \A e \in LevelEvents :
        Opposite(e) \in LevelEvents /\ Opposite(e) # e /\ Opposite(Opposite(e)) = e
BY DEF LevelEvents, Opposite

\* Initially.
LEMMA InitIInv == Init => IInv
<1> SUFFICES ASSUME Init PROVE IInv
    OBVIOUS
<1>1. /\ conf.kind \in Kinds /\ conf.max \in Nat /\ conf.start \in Nat
      /\ conf.start \in {0, conf.max} /\ conf.home \subseteq LevelEvents
    BY ConfType DEF Init
<1>2. NumbersOK
    <2>1. conf \in Configs /\ waits \subseteq LevelEvents
        BY <1>1 DEF Init
    <2>2. /\ now = 0 /\ level \in Nat /\ time = 0 /\ initialFill \in Nat
          /\ inFlight = 0 /\ firstActivationTime = 0 /\ carry \in 0 .. Precision - 1
        BY <1>1, PrecisionAssumption DEF Init
    <2>3. /\ firstActivation \in BOOLEAN /\ active \in BOOLEAN /\ early \in BOOLEAN
          /\ flagged \in {"none", "underrun", "overrun"}
          /\ asked \in Refusal \cup {NoRefusal}
        BY DEF Init
    <2> QED
        BY <2>1, <2>2, <2>3 DEF NumbersOK
<1>3. Capacity
    BY <1>1 DEF Init, Capacity
<1>4. Polarity
    BY OppositeEvents DEF Init, Polarity
<1> QED
    BY <1>2, <1>3, <1>4 DEF IInv

\* An update does not disturb the polarity: it activates only a FIFO that has
\* never been active, or one that is not linked.
LEMMA UpdatePolarity ==
    ASSUME IInv, NEW t, Update(t), UNCHANGED <<conf, waits, early>>
    PROVE  Polarity'
<1>1. SUFFICES ASSUME NEW e \in LevelEvents, conf.home = {e}
               PROVE  /\ waits \in {{e}, {Opposite(e)}, {}}
                      /\ ~early /\ waits = {e} => (active' <=> firstActivation')
                      /\ ~early /\ waits = {Opposite(e)} => firstActivation' /\ ~active'
    BY DEF Polarity
<1>2. Linked
    BY <1>1 DEF Linked
<1>3. /\ active' = (active \/ ~firstActivation)
      /\ firstActivation' = (firstActivation \/ ~active)
      /\ active \in BOOLEAN /\ firstActivation \in BOOLEAN
    BY <1>2 DEF Update, IInv, NumbersOK
<1>4. /\ waits \in {{e}, {Opposite(e)}, {}}
      /\ ~early /\ waits = {e} => (active <=> firstActivation)
      /\ ~early /\ waits = {Opposite(e)} => firstActivation /\ ~active
    BY <1>1 DEF IInv, Polarity
<1> QED
    BY <1>3, <1>4

\* An answer is taken in, or handed over, in full.
LEMMA AnswerInFull ==
    ASSUME IInv, NEW data \in Nat \ {0}, data <= inFlight
    PROVE  /\ Landed(data) = inFlight - data /\ Landed(data) \in Nat
           /\ Answered(data) \in Nat
           /\ Reading => Answered(data) = level + data
           /\ ~Reading => Answered(data) <= conf.max
           /\ ~Reading /\ conf.max > 0 => Answered(data) = level - data
<1>1. level \in Nat /\ inFlight \in Nat /\ conf.max \in Nat
    BY ConfType DEF IInv, NumbersOK
<1>2. Landed(data) = inFlight - data /\ Landed(data) \in Nat
    BY <1>1, MinOfTwo DEF Landed
<1>3. CASE Reading
    <2>1. conf.max > 0 => level + inFlight <= conf.max
        BY <1>3 DEF IInv, Capacity
    <2>2. conf.max > 0 => Min({data, conf.max - level}) = data
        BY <1>1, <2>1, MinOfTwo
    <2>3. Answered(data) = level + data
        BY <1>1, <1>3, <2>2 DEF Answered
    <2> QED
        BY <1>1, <1>2, <1>3, <2>3
<1>4. CASE ~Reading
    <2>1. level <= conf.max /\ (conf.max > 0 => inFlight <= level)
        BY <1>4 DEF IInv, Capacity
    <2>2. Answered(data) = level - (IF level <= data THEN level ELSE data)
        BY <1>1, <1>4, MinOfTwo DEF Answered
    <2> QED
        BY <1>1, <1>2, <1>4, <2>1, <2>2
<1> QED
    BY <1>3, <1>4

\* A grant reserves what fits.
LEMMA GrantStep ==
    ASSUME IInv, NEW t \in now .. MaxTime, NEW data \in Sizes, Grant(t, data)
    PROVE  IInv'
<1>1. /\ data \in Nat \ {0} /\ t \in Nat /\ now <= t /\ level \in Nat /\ inFlight \in Nat
      /\ conf \in Configs /\ conf.max \in Nat
    BY SizesAssumption, BoundsAssumption, ConfType DEF IInv, NumbersOK
<1>2. /\ Fits(level', data) /\ Update(t) /\ Flag(level, t)
      /\ level' = LevelAfter(level, t) /\ inFlight' = inFlight + data
      /\ asked' = NoRefusal /\ UNCHANGED <<conf, waits, early>>
    BY DEF Grant
<1>3. /\ level' \in Nat /\ (Reading => level' <= level)
      /\ (~Reading => level' <= conf.max)
    BY <1>1, <1>2, LevelType DEF IInv
<1>4. NumbersOK'
    BY <1>1, <1>2, <1>3, UpdateType DEF IInv, NumbersOK
<1>5. Capacity'
    BY <1>1, <1>2, <1>3 DEF Capacity, Fits, Reading
<1>6. Polarity'
    BY <1>2, UpdatePolarity
<1> QED
    BY <1>4, <1>5, <1>6 DEF IInv

\* A refusal reserves nothing and names a time.
LEMMA RefuseStep ==
    ASSUME IInv, NEW t \in now .. MaxTime, NEW data \in Sizes, Refuse(t, data)
    PROVE  /\ IInv'
           /\ asked'.next = 0 \/ asked'.next > t
<1>1. /\ data \in Nat \ {0} /\ t \in Nat /\ now <= t /\ level \in Nat /\ inFlight \in Nat
      /\ conf \in Configs /\ conf.max \in Nat
    BY SizesAssumption, BoundsAssumption, ConfType DEF IInv, NumbersOK
<1>2. /\ ~Fits(level', data) /\ Update(t) /\ Flag(level, t)
      /\ level' = LevelAfter(level, t)
      /\ asked' = [data |-> data,
                   next |-> NextTransmissionTime(level', t, firstActivationTime', data)]
      /\ UNCHANGED <<conf, inFlight, waits, early>>
    BY DEF Refuse
<1>3. /\ level' \in Nat /\ (Reading => level' <= level)
      /\ (~Reading => level' <= conf.max)
      /\ (~Reading /\ level <= conf.max => level' >= level)
    BY <1>1, <1>2, LevelType DEF IInv
<1>4. firstActivationTime' \in Nat /\ firstActivationTime' <= t
    BY <1>1, <1>2, UpdateType DEF IInv
<1>5. asked'.next \in Nat /\ (asked'.next = 0 \/ asked'.next > t)
    BY <1>1, <1>2, <1>3, <1>4, RetryTime
<1>6. asked' \in Refusal
    BY <1>1, <1>2, <1>5 DEF Refusal
<1>7. NumbersOK'
    BY <1>1, <1>2, <1>3, <1>6, UpdateType DEF IInv, NumbersOK
<1>8. Capacity'
    BY <1>1, <1>2, <1>3 DEF IInv, Capacity, Reading
<1>9. Polarity'
    BY <1>2, UpdatePolarity
<1> QED
    BY <1>5, <1>7, <1>8, <1>9 DEF IInv

\* An answer moves bytes from in flight to the level, or out of both.
LEMMA AnswerStep ==
    ASSUME IInv, NEW t \in now .. MaxTime, NEW i, NEW data \in Nat \ {0},
           Answer(t, i, data)
    PROVE  IInv'
<1>1. /\ t \in Nat /\ now <= t /\ level \in Nat /\ inFlight \in Nat
      /\ conf \in Configs /\ conf.max \in Nat /\ data <= inFlight
    BY BoundsAssumption, ConfType DEF IInv, NumbersOK, Answer
<1>2. /\ Update(t) /\ Flag(Answered(data), t)
      /\ level' = LevelAfter(Answered(data), t) /\ inFlight' = Landed(data)
      /\ UNCHANGED <<conf, asked, waits, early>>
    BY DEF Answer
<1>3. /\ inFlight' = inFlight - data /\ inFlight' \in Nat
      /\ Answered(data) \in Nat
      /\ Reading => Answered(data) = level + data
      /\ ~Reading => Answered(data) <= conf.max
      /\ ~Reading /\ conf.max > 0 => Answered(data) = level - data
    BY <1>1, <1>2, AnswerInFull
<1>4. /\ level' \in Nat /\ (Reading => level' <= Answered(data))
      /\ (~Reading => level' <= conf.max /\ level' >= Answered(data))
    BY <1>1, <1>2, <1>3, LevelType DEF IInv
<1>5. NumbersOK'
    BY <1>1, <1>2, <1>3, <1>4, UpdateType DEF IInv, NumbersOK
<1>6. Capacity'
    BY <1>1, <1>2, <1>3, <1>4 DEF IInv, Capacity, Reading
<1>7. Polarity'
    BY <1>2, UpdatePolarity
<1> QED
    BY <1>5, <1>6, <1>7 DEF IInv

\* A reset restores the startup level.
LEMMA ResetStep == IInv /\ Reset => IInv'
<1> SUFFICES ASSUME IInv, Reset PROVE IInv'
    OBVIOUS
<1>1. /\ conf.start \in Nat /\ conf.max \in Nat /\ conf.start \in {0, conf.max}
      /\ conf.home \subseteq LevelEvents
    BY ConfType DEF IInv, NumbersOK
<1>2. NumbersOK'
    <2>1. /\ level' \in Nat /\ time' = 0 /\ initialFill' \in Nat
          /\ inFlight' = 0 /\ firstActivationTime' = 0 /\ carry' \in 0 .. Precision - 1
        BY <1>1, PrecisionAssumption DEF Reset
    <2>2. /\ firstActivation' \in BOOLEAN /\ active' \in BOOLEAN /\ early' \in BOOLEAN
          /\ asked' \in Refusal \cup {NoRefusal}
        BY DEF Reset, IInv, NumbersOK
    <2>3. conf' = conf /\ now' = now /\ waits' = waits /\ flagged' = flagged
        BY DEF Reset
    <2> QED
        BY <2>1, <2>2, <2>3 DEF IInv, NumbersOK
<1>3. Capacity'
    BY <1>1 DEF Reset, Capacity, Reading
<1>4. Polarity'
    BY OppositeEvents DEF Reset, Polarity, IInv, NumbersOK
<1> QED
    BY <1>2, <1>3, <1>4 DEF IInv

\* An event of the partner flips the FIFO and what it waits for.
LEMMA PartnerStep ==
    ASSUME IInv, NEW e \in LevelEvents, PartnerEvent(e)
    PROVE  IInv'
<1>1. /\ e \in waits /\ waits' = (waits \ {e}) \cup {Opposite(e)}
      /\ active' = ~active /\ asked' = NoRefusal /\ early' = (early \/ ~firstActivation)
      /\ UNCHANGED <<conf, now, level, time, carry, initialFill, inFlight,
                     firstActivation, firstActivationTime, flagged>>
    BY DEF PartnerEvent
<1>2. Opposite(e) \in LevelEvents
    BY OppositeEvents
<1>3. NumbersOK'
    BY <1>1, <1>2 DEF IInv, NumbersOK
<1>4. Capacity'
    BY <1>1 DEF IInv, Capacity, Reading
<1>5. Polarity'
    <2>1. SUFFICES ASSUME NEW h \in LevelEvents, conf.home = {h}
                   PROVE  /\ waits' \in {{h}, {Opposite(h)}, {}}
                          /\ ~early' /\ waits' = {h} => (active' <=> firstActivation)
                          /\ ~early' /\ waits' = {Opposite(h)}
                                => firstActivation /\ ~active'
        BY <1>1 DEF Polarity
    <2>2. /\ waits \in {{h}, {Opposite(h)}, {}}
          /\ ~early /\ waits = {h} => (active <=> firstActivation)
          /\ ~early /\ waits = {Opposite(h)} => firstActivation /\ ~active
        BY <2>1 DEF IInv, Polarity
    <2>3. Opposite(h) # h /\ Opposite(Opposite(h)) = h
        BY OppositeEvents
    <2>4. CASE waits = {h}
        <3>1. e = h /\ waits' = {Opposite(h)}
            BY <1>1, <2>4
        <3> QED
            BY <1>1, <2>2, <2>3, <2>4, <3>1
    <2>5. CASE waits = {Opposite(h)}
        <3>1. e = Opposite(h) /\ waits' = {h}
            BY <1>1, <2>3, <2>5
        <3> QED
            BY <1>1, <2>2, <2>3, <2>5, <3>1
    <2> QED
        BY <1>1, <2>2, <2>4, <2>5
<1> QED
    BY <1>3, <1>4, <1>5 DEF IInv

\* The end of the partner changes only what is waited for.
LEMMA TerminateStep == IInv /\ PartnerTerminates => IInv'
<1> SUFFICES ASSUME IInv, PartnerTerminates PROVE IInv'
    OBVIOUS
<1>1. waits' = {} /\ UNCHANGED <<conf, now, level, time, carry, initialFill, inFlight,
                    firstActivation, firstActivationTime, active, flagged, asked, early>>
    BY DEF PartnerTerminates, state, history
<1>2. NumbersOK'
    BY <1>1 DEF IInv, NumbersOK
<1>3. Capacity'
    BY <1>1 DEF IInv, Capacity, Reading
<1>4. Polarity'
    BY <1>1 DEF IInv, Polarity
<1> QED
    BY <1>2, <1>3, <1>4 DEF IInv

\* A step that changes nothing.
LEMMA StutterStep == IInv /\ UNCHANGED vars => IInv'
<1> SUFFICES ASSUME IInv, UNCHANGED vars PROVE IInv'
    OBVIOUS
<1>1. UNCHANGED <<conf, now, level, time, carry, initialFill, inFlight, waits,
                  firstActivation, firstActivationTime, active, flagged, asked, early>>
    BY DEF vars, state, history
<1>2. NumbersOK'
    BY <1>1 DEF IInv, NumbersOK
<1>3. Capacity'
    BY <1>1 DEF IInv, Capacity, Reading
<1>4. Polarity'
    BY <1>1 DEF IInv, Polarity
<1> QED
    BY <1>2, <1>3, <1>4 DEF IInv

(***************************************************************************)
(* Theorems.                                                               *)
(***************************************************************************)

\* The inductive invariant holds in every behaviour of the FIFO.
THEOREM Invariance == Spec => []IInv
<1>1. Init => IInv
    BY InitIInv
<1>2. IInv /\ [Next]_vars => IInv'
    <2> SUFFICES ASSUME IInv, [Next]_vars PROVE IInv'
        OBVIOUS
    <2>1. ASSUME NEW t \in now .. MaxTime, NEW data \in Sizes, Grant(t, data) PROVE IInv'
        BY <2>1, GrantStep
    <2>2. ASSUME NEW t \in now .. MaxTime, NEW data \in Sizes, Refuse(t, data) PROVE IInv'
        BY <2>2, RefuseStep
    <2>3. ASSUME NEW t \in now .. MaxTime, NEW i \in 1 .. Len(requests),
                 NEW data \in 1 .. requests[i].left, Answer(t, i, data)
          PROVE  IInv'
        <3>1. data \in Nat \ {0}
            OBVIOUS
        <3> QED
            BY <2>3, <3>1, AnswerStep
    <2>4. ASSUME NEW e \in LevelEvents, PartnerEvent(e) PROVE IInv'
        BY <2>4, PartnerStep
    <2> QED
        BY <2>1, <2>2, <2>3, <2>4, ResetStep, TerminateStep, StutterStep DEF Next
<1> QED
    BY <1>1, <1>2, PTL DEF Spec

\* The numbers and flags of a FIFO keep their range.
THEOREM NumbersInRange == Spec => []NumbersOK
<1>1. IInv => NumbersOK
    BY DEF IInv
<1> QED
    BY <1>1, Invariance, PTL

\* Fifo::send never reserves more than the level leaves, at any rate, for any
\* packet sizes, and whatever the order of the answers.
THEOREM AlwaysCapacity == Spec => []Capacity
<1>1. IInv => Capacity
    BY DEF IInv
<1> QED
    BY <1>1, Invariance, PTL

\* A linked FIFO is frozen exactly from its event to the opposite one.
THEOREM AlwaysPolarity == Spec => []FreezePolarity
<1>1. IInv => FreezePolarity
    <2> SUFFICES ASSUME IInv, NEW e \in LevelEvents, conf.home = {e},
                        firstActivation, ~early, waits # {}
                 PROVE  active <=> waits = conf.home
        BY DEF FreezePolarity
    <2>1. /\ waits \in {{e}, {Opposite(e)}, {}}
          /\ waits = {e} => (active <=> firstActivation)
          /\ waits = {Opposite(e)} => firstActivation /\ ~active
        BY DEF IInv, Polarity
    <2>2. {Opposite(e)} # {e}
        BY OppositeEvents
    <2> QED
        BY <2>1, <2>2
<1> QED
    BY <1>1, Invariance, PTL

\* A refusal names a retry time of 0 or one that is yet to come.
THEOREM AlwaysRetryAhead == Spec => RetryAhead
<1>1. IInv /\ [Next]_vars
        => [asked' \notin {asked, NoRefusal} => asked'.next = 0 \/ asked'.next > now']_vars
    <2> SUFFICES ASSUME IInv, Next, asked' \notin {asked, NoRefusal}
                 PROVE  asked'.next = 0 \/ asked'.next > now'
        OBVIOUS
    <2>1. ASSUME NEW t \in now .. MaxTime, NEW data \in Sizes, Refuse(t, data)
          PROVE  asked'.next = 0 \/ asked'.next > now'
        <3>1. now' = t
            BY <2>1 DEF Refuse, Update
        <3> QED
            BY <2>1, <3>1, RefuseStep
    <2>2. ASSUME NEW t \in now .. MaxTime, NEW data \in Sizes, Grant(t, data) PROVE FALSE
        BY <2>2 DEF Grant
    <2>3. ASSUME NEW t \in now .. MaxTime, NEW i \in 1 .. Len(requests),
                 NEW data \in 1 .. requests[i].left, Answer(t, i, data)
          PROVE  FALSE
        BY <2>3 DEF Answer
    <2>4. ASSUME NEW e \in LevelEvents, PartnerEvent(e) PROVE FALSE
        BY <2>4 DEF PartnerEvent
    <2>5. ASSUME Reset PROVE FALSE
        BY <2>5 DEF Reset
    <2>6. ASSUME PartnerTerminates PROVE FALSE
        BY <2>6 DEF PartnerTerminates, history
    <2> QED
        BY <2>1, <2>2, <2>3, <2>4, <2>5, <2>6 DEF Next
<1> QED
    BY <1>1, Invariance, PTL DEF Spec, RetryAhead

(***************************************************************************)
(* Refinement.                                                             *)
(***************************************************************************)

\* The credit in terms of the level, before and after a step.
LEMMA CreditType ==
    ASSUME IInv
    PROVE  /\ Credit \in Nat /\ conf.max \in Nat /\ level \in Nat /\ inFlight \in Nat
           /\ conf.max > 0 => Credit + inFlight <= conf.max
<1>1. conf.max \in Nat /\ level \in Nat /\ inFlight \in Nat
    BY ConfType DEF IInv, NumbersOK
<1> QED
    BY <1>1 DEF IInv, Capacity, Credit

\* A grant spends credit.
LEMMA GrantRefines ==
    ASSUME IInv, NEW t \in now .. MaxTime, NEW data \in Sizes, Grant(t, data)
    PROVE  CL!Grant
<1>1. /\ data \in Nat \ {0} /\ t \in Nat /\ now <= t
    BY SizesAssumption, BoundsAssumption DEF IInv, NumbersOK
<1>2. /\ level' = LevelAfter(level, t) /\ inFlight' = inFlight + data /\ conf' = conf
      /\ Fits(level', data)
    BY DEF Grant
<1>3. /\ conf.max \in Nat /\ level \in Nat /\ inFlight \in Nat
    BY CreditType
<1>4. /\ level' \in Nat /\ (Reading => level' <= level)
      /\ (~Reading => level' <= conf.max)
      /\ (~Reading /\ level <= conf.max => level' >= level)
    BY <1>1, <1>2, <1>3, LevelType DEF IInv
<1>5. CL!Credited(inFlight, data)
    <2>1. ~Reading => level <= conf.max
        BY DEF IInv, Capacity
    <2> QED
        BY <1>1, <1>2, <1>3, <1>4, <2>1 DEF CL!Credited, Credit, Fits, Reading
<1>6. inFlight' - inFlight = data /\ inFlight' > inFlight
    BY <1>1, <1>2, <1>3
<1> QED
    BY <1>5, <1>6 DEF CL!Grant

\* A refusal lets time pass.
LEMMA RefuseRefines ==
    ASSUME IInv, NEW t \in now .. MaxTime, NEW data \in Sizes, Refuse(t, data)
    PROVE  CL!Pass
<1>1. t \in Nat /\ now <= t
    BY BoundsAssumption DEF IInv, NumbersOK
<1>2. level' = LevelAfter(level, t) /\ inFlight' = inFlight /\ conf' = conf
    BY DEF Refuse
<1>3. conf.max \in Nat /\ level \in Nat /\ inFlight \in Nat
    BY CreditType
<1>4. /\ level' \in Nat /\ (Reading => level' <= level)
      /\ (~Reading => level' <= conf.max)
      /\ (~Reading /\ level <= conf.max => level' >= level)
    BY <1>1, <1>2, <1>3, LevelType DEF IInv
<1>5. CL!Credited(inFlight', 0)
    BY <1>2, <1>3, <1>4 DEF CL!Credited, Credit, Reading, IInv, Capacity
<1> QED
    BY <1>2, <1>3, <1>5 DEF CL!Pass

\* An answer does too: it gives no credit by itself.
LEMMA AnswerRefines ==
    ASSUME IInv, NEW t \in now .. MaxTime, NEW i, NEW data \in Nat \ {0},
           Answer(t, i, data)
    PROVE  CL!Pass
<1>1. t \in Nat /\ now <= t /\ data <= inFlight
    BY BoundsAssumption DEF IInv, NumbersOK, Answer
<1>2. /\ level' = LevelAfter(Answered(data), t) /\ inFlight' = Landed(data)
      /\ conf' = conf
    BY DEF Answer
<1>3. conf.max \in Nat /\ level \in Nat /\ inFlight \in Nat
    BY CreditType
<1>4. /\ inFlight' = inFlight - data /\ inFlight' \in Nat
      /\ Answered(data) \in Nat
      /\ Reading => Answered(data) = level + data
      /\ ~Reading => Answered(data) <= conf.max
      /\ ~Reading /\ conf.max > 0 => Answered(data) = level - data
    BY <1>1, <1>2, AnswerInFull
<1>5. /\ level' \in Nat /\ (Reading => level' <= Answered(data))
      /\ (~Reading => level' <= conf.max /\ level' >= Answered(data))
    BY <1>1, <1>2, <1>4, LevelType DEF IInv
<1>6. CL!Credited(inFlight', 0)
    BY <1>2, <1>3, <1>4, <1>5 DEF CL!Credited, Credit, Reading, IInv, Capacity
<1> QED
    BY <1>3, <1>4, <1>6 DEF CL!Pass

\* READ and WRITE FIFOs implement the credit limiter.
THEOREM Refinement == Spec => ImplementsCreditLimiter
<1>1. Init => CL!CLInit
    <2> SUFFICES ASSUME Init PROVE CL!CLInit
        OBVIOUS
    <2>1. /\ conf.max \in Nat /\ conf.start \in {0, conf.max}
        BY ConfType DEF Init
    <2> QED
        BY <2>1 DEF Init, CL!CLInit, CL!Full, Credit
<1>2. IInv /\ [Next]_vars => [CL!CLNext]_(CL!clVars)
    <2> SUFFICES ASSUME IInv, [Next]_vars PROVE CL!CLNext \/ UNCHANGED CL!clVars
        OBVIOUS
    <2>1. ASSUME NEW t \in now .. MaxTime, NEW data \in Sizes, Grant(t, data)
          PROVE  CL!CLNext
        BY <2>1, GrantRefines DEF CL!CLNext
    <2>2. ASSUME NEW t \in now .. MaxTime, NEW data \in Sizes, Refuse(t, data)
          PROVE  CL!CLNext
        BY <2>2, RefuseRefines DEF CL!CLNext
    <2>3. ASSUME NEW t \in now .. MaxTime, NEW i \in 1 .. Len(requests),
                 NEW data \in 1 .. requests[i].left, Answer(t, i, data)
          PROVE  CL!CLNext
        <3>1. data \in Nat \ {0}
            OBVIOUS
        <3> QED
            BY <2>3, <3>1, AnswerRefines DEF CL!CLNext
    <2>4. ASSUME Reset PROVE CL!CLNext
        <3>1. /\ conf.max \in Nat /\ conf.start \in {0, conf.max}
            BY ConfType DEF IInv, NumbersOK
        <3>2. CL!Restart
            BY <2>4, <3>1 DEF Reset, CL!Restart, CL!Full, Credit, Reading
        <3> QED
            BY <3>2 DEF CL!CLNext
    <2>5. ASSUME NEW e \in LevelEvents, PartnerEvent(e) PROVE UNCHANGED CL!clVars
        BY <2>5 DEF PartnerEvent, CL!clVars, Credit, Reading
    <2>6. ASSUME PartnerTerminates PROVE UNCHANGED CL!clVars
        BY <2>6 DEF PartnerTerminates, state, CL!clVars, Credit, Reading
    <2>7. ASSUME UNCHANGED vars PROVE UNCHANGED CL!clVars
        BY <2>7 DEF vars, state, CL!clVars, Credit, Reading
    <2> QED
        BY <2>1, <2>2, <2>3, <2>4, <2>5, <2>6, <2>7 DEF Next
<1> QED
    BY <1>1, <1>2, Invariance, PTL DEF Spec, ImplementsCreditLimiter, CL!CLSpec
(***************************************************************************)
(* Sums of sequences of numbers.                                           *)
(***************************************************************************)

\* The sum of the first entries, which is a recursive function, is what its
\* equation says.
LEMMA PrefixIs ==
    ASSUME NEW s \in Seq(Nat)
    PROVE  /\ Prefix(s, 0) = 0
           /\ \A i \in 0 .. Len(s) : Prefix(s, i) \in Nat
           /\ \A i \in 1 .. Len(s) : Prefix(s, i) = Prefix(s, i - 1) + s[i]
           /\ Total(s) = Prefix(s, Len(s)) /\ Total(s) \in Nat
<1> DEFINE N == Len(s)
           g == [n \in 1 .. N |-> [x \in Nat |-> x + s[n]]]
           Sums(f) == f = [i \in 0 .. N |-> IF i = 0 THEN 0 ELSE f[i - 1] + s[i]]
           sum == CHOOSE f : Sums(f)
<1>1. N \in Nat /\ \A i \in 1 .. N : s[i] \in Nat
    BY LenProperties
<1>2. g \in [1 .. N -> [Nat -> Nat]]
    <2>1. \A n \in 1 .. N : [x \in Nat |-> x + s[n]] \in [Nat -> Nat]
        BY <1>1
    <2> QED
        BY <2>1
<1>3. PICK h \in [0 .. N -> Nat] : Steps(h, N, 0, g)
    <2> HIDE DEF g
    <2> QED
        BY <1>1, <1>2, Recursion
<1>4. Sums(h)
    <2>1. \A i \in 0 .. N : (IF i = 0 THEN 0 ELSE g[i][h[i - 1]])
                             = IF i = 0 THEN 0 ELSE h[i - 1] + s[i]
        <3>1. TAKE i \in 0 .. N
        <3>2. CASE i = 0
            BY <3>2
        <3>3. CASE i # 0
            <4>0. i \in 1 .. N /\ i - 1 \in 0 .. N
                <5> HIDE DEF N
                <5> QED
                    BY <1>1, <3>3
            <4>2. g[i] = [x \in Nat |-> x + s[i]]
                BY <4>0
            <4> HIDE DEF g, N
            <4>1. i \in 1 .. N /\ i - 1 \in 0 .. N /\ h[i - 1] \in Nat
                BY <4>0
            <4> QED
                BY <3>3, <4>1, <4>2
        <3> QED
            BY <3>2, <3>3
    <2>2. h = [i \in 0 .. N |-> IF i = 0 THEN 0 ELSE g[i][h[i - 1]]]
        BY <1>3 DEF Steps
    <2> HIDE DEF g
    <2> QED
        BY <2>1, <2>2
<1>5. Sums(sum)
    BY <1>4
<1>6. \A n : Prefix(s, n) = sum[n]
    BY DEF Prefix
<1> HIDE DEF sum
<1>7. /\ sum[0] = 0
      /\ \A i \in 1 .. N : sum[i] = sum[i - 1] + s[i]
    <2>1. \A i \in 0 .. N : sum[i] = IF i = 0 THEN 0 ELSE sum[i - 1] + s[i]
        BY <1>5
    <2>2. 0 \in 0 .. N /\ \A i \in 1 .. N : i \in 0 .. N /\ i # 0
        BY <1>1
    <2> QED
        BY <2>1, <2>2
<1>8. \A i \in 0 .. N : sum[i] \in Nat
    <2> DEFINE G == {i \in 0 .. N : sum[i] \in Nat}
    <2>1. 0 \in G
        BY <1>1, <1>7
    <2>2. ASSUME NEW n \in 1 .. N, n - 1 \in G PROVE n \in G
        BY <1>1, <1>7, <2>2
    <2> HIDE DEF G
    <2>3. 0 .. N \subseteq G
        BY <1>1, <2>1, <2>2, Upward
    <2> QED
        BY <2>3 DEF G
<1>9. Prefix(s, N) = sum[N] /\ N \in 0 .. N /\ Total(s) = Prefix(s, N)
    BY <1>1, <1>6 DEF Total
<1>10. Prefix(s, 0) = 0 /\ \A i \in 0 .. N : Prefix(s, i) \in Nat
    BY <1>6, <1>7, <1>8
<1>11. \A i \in 1 .. N : Prefix(s, i) = Prefix(s, i - 1) + s[i]
    BY <1>6, <1>7
<1> HIDE DEF Sums, g, N
<1>12. Total(s) \in Nat
    BY <1>9, <1>10
<1> QED
    BY <1>9, <1>10, <1>11, <1>12 DEF N

\* The n entries of s behind a are those of t behind b.
Alike(s, a, t, b, n) == \A i \in 1 .. n : s[a + i] = t[b + i]

\* From a to c, s adds up to what t does from b to d.
GrowAlike(s, a, c, t, b, d) == Prefix(s, c) - Prefix(s, a) = Prefix(t, d) - Prefix(t, b)

\* Where two sequences have the same entries, one from a to c, the other from b
\* to d, their sums grow by the same.
LEMMA SameEntries ==
    ASSUME NEW s \in Seq(Nat), NEW t \in Seq(Nat), NEW a \in Nat, NEW b \in Nat,
           NEW c \in a .. Len(s), NEW d \in b .. Len(t), c - a = d - b,
           Alike(s, a, t, b, c - a)
    PROVE  GrowAlike(s, a, c, t, b, d)
<1> DEFINE n == c - a
<1>0. Len(s) \in Nat /\ Len(t) \in Nat /\ n \in Nat /\ a + n <= Len(s) /\ b + n <= Len(t)
      /\ a + n = c /\ b + n = d
    BY LenProperties
<1>a. \A i \in 1 .. n : s[a + i] = t[b + i]
    BY DEF Alike
<1> HIDE DEF n
<1> DEFINE G == {i \in 0 .. n : Prefix(s, a + i) - Prefix(s, a) = Prefix(t, b + i) - Prefix(t, b)}
<1>1. Len(s) \in Nat /\ Len(t) \in Nat
    BY <1>0
<1>2. \A i \in 0 .. n : /\ a + i \in 0 .. Len(s) /\ b + i \in 0 .. Len(t)
                        /\ Prefix(s, a + i) \in Nat /\ Prefix(t, b + i) \in Nat
    <2>1. \A i \in 0 .. n : a + i \in 0 .. Len(s) /\ b + i \in 0 .. Len(t)
        BY <1>0, <1>1
    <2> QED
        BY <2>1, PrefixIs
<1>3. 0 \in G
    <2>1. a + 0 = a /\ b + 0 = b /\ 0 \in 0 .. n
        BY <1>0
    <2>2. Prefix(s, a) \in Nat /\ Prefix(t, b) \in Nat
        BY <1>2, <2>1
    <2>3. Prefix(s, a + 0) - Prefix(s, a) = 0 /\ Prefix(t, b + 0) - Prefix(t, b) = 0
        BY <2>1, <2>2
    <2> QED
        BY <2>1, <2>3
<1>4. ASSUME NEW i \in 1 .. n, i - 1 \in G PROVE i \in G
    <2>1. /\ a + i \in 1 .. Len(s) /\ b + i \in 1 .. Len(t) /\ i \in 0 .. n
          /\ (a + i) - 1 = a + (i - 1) /\ (b + i) - 1 = b + (i - 1) /\ i - 1 \in 0 .. n
        <3>1. i \in 0 .. n /\ i - 1 \in 0 .. n /\ i \in Nat /\ i >= 1 /\ i <= n
            BY <1>0
        <3>2. a + i \in 1 .. Len(s) /\ b + i \in 1 .. Len(t)
            <4> DEFINE u == Len(s)
                       v == Len(t)
            <4>1. u \in Nat /\ v \in Nat /\ a + n <= u /\ b + n <= v /\ n \in Nat
                BY <1>0
            <4> HIDE DEF u, v
            <4>2. a + i \in 1 .. u
                BY <3>1, <4>1
            <4>3. b + i \in 1 .. v
                BY <3>1, <4>1
            <4> QED
                BY <4>2, <4>3 DEF u, v
        <3>3. (a + i) - 1 = a + (i - 1) /\ (b + i) - 1 = b + (i - 1)
            BY <3>1
        <3> QED
            BY <3>1, <3>2, <3>3
    <2>2. /\ Prefix(s, a + i) = Prefix(s, a + (i - 1)) + s[a + i]
          /\ Prefix(t, b + i) = Prefix(t, b + (i - 1)) + t[b + i]
        BY <2>1, PrefixIs
    <2>3. s[a + i] = t[b + i] /\ s[a + i] \in Nat
        BY <1>a, <2>1, LenProperties
    <2>4. Prefix(s, a) \in Nat /\ Prefix(t, b) \in Nat
        <3>1. a + 0 = a /\ b + 0 = b /\ 0 \in 0 .. n
            BY <1>0
        <3> QED
            BY <1>2, <3>1
    <2>5. Prefix(s, a + (i - 1)) - Prefix(s, a) = Prefix(t, b + (i - 1)) - Prefix(t, b)
        BY <1>4
    <2>6. /\ Prefix(s, a + (i - 1)) \in Nat /\ Prefix(t, b + (i - 1)) \in Nat
        BY <1>2, <2>1
    <2>7. Prefix(s, a + i) - Prefix(s, a) = Prefix(t, b + i) - Prefix(t, b)
        <3> DEFINE pa == Prefix(s, a)
                   pb == Prefix(t, b)
                   p == Prefix(s, a + (i - 1))
                   q == Prefix(t, b + (i - 1))
                   x == s[a + i]
        <3>1. /\ Prefix(s, a + i) = p + x /\ Prefix(t, b + i) = q + x /\ p - pa = q - pb
              /\ p \in Nat /\ q \in Nat /\ pa \in Nat /\ pb \in Nat /\ x \in Nat
            BY <2>2, <2>3, <2>4, <2>5, <2>6
        <3> HIDE DEF p, q, pa, pb, x
        <3>2. (p + x) - pa = (q + x) - pb
            BY <3>1
        <3> QED
            BY <3>1, <3>2 DEF pa, pb
    <2> QED
        BY <2>1, <2>7
<1> HIDE DEF G
<1>5. 0 .. n \subseteq G
    BY <1>0, <1>3, <1>4, Upward
<1>6. n \in G
    BY <1>0, <1>5
<1> QED
    BY <1>0, <1>6 DEF G, GrowAlike

\* The sum of more entries is no smaller.
LEMMA PrefixGrows ==
    ASSUME NEW s \in Seq(Nat), NEW i \in 0 .. Len(s), NEW j \in i .. Len(s)
    PROVE  Prefix(s, i) <= Prefix(s, j)
<1> DEFINE n == Len(s) - i
           G == {k \in 0 .. n : Prefix(s, i) <= Prefix(s, i + k)}
<1>1. Len(s) \in Nat /\ n \in Nat
    BY LenProperties
<1>2. 0 \in G
    BY <1>1, PrefixIs
<1>3. ASSUME NEW k \in 1 .. n, k - 1 \in G PROVE k \in G
    <2>1. i + k \in 1 .. Len(s) /\ i + k - 1 \in 0 .. Len(s) /\ i + (k - 1) = i + k - 1
        BY <1>1
    <2>2. Prefix(s, i + k) = Prefix(s, i + k - 1) + s[i + k] /\ s[i + k] \in Nat
        BY <2>1, PrefixIs, LenProperties
    <2>3. Prefix(s, i + k - 1) \in Nat /\ Prefix(s, i) \in Nat
        BY <2>1, PrefixIs
    <2>4. Prefix(s, i) <= Prefix(s, i + k - 1)
        BY <1>3, <2>1
    <2> QED
        BY <2>2, <2>3, <2>4
<1> HIDE DEF G
<1>4. 0 .. n \subseteq G
    BY <1>1, <1>2, <1>3, Upward
<1>5. j - i \in 0 .. n /\ i + (j - i) = j
    BY <1>1
<1> QED
    BY <1>4, <1>5 DEF G

\* An entry at the end adds to the sum.
LEMMA TotalAppended ==
    ASSUME NEW s \in Seq(Nat), NEW x \in Nat
    PROVE  Total(Append(s, x)) = Total(s) + x
<1> DEFINE t == Append(s, x)
           n == Len(s)
<1>1. n \in Nat /\ t \in Seq(Nat) /\ Len(t) = n + 1 /\ t[n + 1] = x
      /\ \A i \in 1 .. n : t[i] = s[i]
    BY AppendProperties, LenProperties
<1> HIDE DEF t
<1>2. Prefix(t, n) = Prefix(s, n)
    <2>1. /\ 0 \in Nat /\ n \in 0 .. Len(t) /\ n \in 0 .. Len(s) /\ n - 0 = n
          /\ \A i \in 1 .. n : t[0 + i] = s[0 + i]
        BY <1>1
    <2>2. Prefix(t, n) - Prefix(t, 0) = Prefix(s, n) - Prefix(s, 0)
        <3>1. Alike(t, 0, s, 0, n - 0)
            BY <2>1 DEF Alike
        <3>2. GrowAlike(t, 0, n, s, 0, n)
            BY <1>1, <2>1, <3>1, SameEntries
        <3> QED
            BY <3>2 DEF GrowAlike
    <2>3. /\ Prefix(t, 0) = 0 /\ Prefix(s, 0) = 0 /\ Prefix(t, n) \in Nat /\ Prefix(s, n) \in Nat
        BY <1>1, <2>1, PrefixIs
    <2> QED
        BY <2>2, <2>3
<1>3. n + 1 \in 1 .. Len(t) /\ (n + 1) - 1 = n
    BY <1>1
<1>4. Total(t) = Prefix(t, n) + x /\ Total(s) = Prefix(s, n)
    BY <1>1, <1>3, PrefixIs
<1> QED
    BY <1>2, <1>4 DEF t

\* A smaller entry makes the sum smaller by the difference.
LEMMA TotalLowered ==
    ASSUME NEW s \in Seq(Nat), NEW t \in Seq(Nat), Len(t) = Len(s), NEW i \in 1 .. Len(s),
           \A j \in 1 .. Len(s) : j # i => t[j] = s[j]
    PROVE  Total(t) = Total(s) - s[i] + t[i]
<1> DEFINE n == Len(s)
<1>1. n \in Nat /\ i \in Nat /\ i - 1 \in Nat /\ n - i \in Nat /\ s[i] \in Nat /\ t[i] \in Nat
    BY LenProperties
<1>2. Prefix(t, i - 1) = Prefix(s, i - 1)
    <2>1. /\ 0 \in Nat /\ i - 1 \in 0 .. Len(t) /\ i - 1 \in 0 .. n /\ (i - 1) - 0 = i - 1
        BY <1>1
    <2>2. Prefix(t, i - 1) - Prefix(t, 0) = Prefix(s, i - 1) - Prefix(s, 0)
        <3>1. \A j \in 1 .. i - 1 : 0 + j = j /\ j \in 1 .. n /\ j # i /\ j < i /\ j \in 1 .. Len(t)
            BY <1>1
        <3>2. \A j \in 1 .. i - 1 : t[0 + j] = s[0 + j]
            BY <3>1
        <3>3. Alike(t, 0, s, 0, (i - 1) - 0)
            BY <2>1, <3>2 DEF Alike
        <3>4. GrowAlike(t, 0, i - 1, s, 0, i - 1)
            BY <2>1, <3>3, SameEntries
        <3> QED
            BY <3>4 DEF GrowAlike
    <2>3. Prefix(t, 0) = 0 /\ Prefix(s, 0) = 0 /\ Prefix(t, i - 1) \in Nat /\ Prefix(s, i - 1) \in Nat
        BY <2>1, PrefixIs
    <2> QED
        BY <2>2, <2>3
<1>3. Prefix(t, n) - Prefix(t, i) = Prefix(s, n) - Prefix(s, i)
    <2>1. /\ n \in i .. Len(t) /\ n \in i .. n
        BY <1>1
    <2>2. Alike(t, i, s, i, n - i)
        <3>1. \A j \in 1 .. n - i : i + j \in 1 .. n /\ i + j # i
            BY <1>1
        <3> QED
            BY <3>1 DEF Alike
    <2>3. n \in Nat /\ i \in Nat /\ i - 1 \in Nat
        BY <1>1
    <2>4. GrowAlike(t, i, n, s, i, n)
        BY <2>1, <2>2, <2>3, SameEntries
    <2> QED
        BY <2>4 DEF GrowAlike
<1>4. Prefix(t, i) = Prefix(t, i - 1) + t[i] /\ Prefix(s, i) = Prefix(s, i - 1) + s[i]
    BY PrefixIs
<1>5. /\ Prefix(t, i) \in Nat /\ Prefix(s, i) \in Nat /\ Prefix(t, n) \in Nat /\ Prefix(s, n) \in Nat
      /\ Total(t) = Prefix(t, n) /\ Total(s) = Prefix(s, n)
      /\ Prefix(t, i - 1) \in Nat /\ Prefix(s, i - 1) \in Nat
    <2>1. i \in 0 .. n /\ n \in 0 .. n /\ i - 1 \in 0 .. n
        BY <1>1
    <2> QED
        BY <2>1, PrefixIs
<1> DEFINE p == Prefix(s, i - 1)
           ps == Prefix(s, i)
           pt == Prefix(t, i)
           qs == Prefix(s, n)
           qt == Prefix(t, n)
           x == s[i]
           y == t[i]
<1>6. /\ p \in Nat /\ ps \in Nat /\ pt \in Nat /\ qs \in Nat /\ qt \in Nat /\ x \in Nat /\ y \in Nat
      /\ qt - pt = qs - ps /\ pt = p + y /\ ps = p + x
      /\ Total(t) = qt /\ Total(s) = qs
    BY <1>1, <1>2, <1>3, <1>4, <1>5
<1> HIDE DEF p, ps, pt, qs, qt, x, y
<1>7. qt = qs - x + y
    BY <1>6
<1> QED
    BY <1>6, <1>7 DEF x, y

\* Without one entry the sum is smaller by it.
LEMMA TotalWithout ==
    ASSUME NEW s \in Seq(Nat), NEW t \in Seq(Nat), NEW i \in 1 .. Len(s), Len(t) = Len(s) - 1,
           \A j \in 1 .. Len(t) : t[j] = IF j < i THEN s[j] ELSE s[j + 1]
    PROVE  Total(t) = Total(s) - s[i]
<1> DEFINE n == Len(s)
<1>1. n \in Nat /\ i \in Nat /\ i - 1 \in Nat /\ n - i \in Nat /\ s[i] \in Nat
    BY LenProperties
<1>2. Prefix(t, i - 1) = Prefix(s, i - 1)
    <2>1. /\ 0 \in Nat /\ i - 1 \in 0 .. Len(t) /\ i - 1 \in 0 .. n /\ (i - 1) - 0 = i - 1
        BY <1>1
    <2>2. Prefix(t, i - 1) - Prefix(t, 0) = Prefix(s, i - 1) - Prefix(s, 0)
        <3>1. \A j \in 1 .. i - 1 : 0 + j = j /\ j \in 1 .. n /\ j # i /\ j < i /\ j \in 1 .. Len(t)
            BY <1>1
        <3>2. \A j \in 1 .. i - 1 : t[0 + j] = s[0 + j]
            BY <3>1
        <3>3. Alike(t, 0, s, 0, (i - 1) - 0)
            BY <2>1, <3>2 DEF Alike
        <3>4. GrowAlike(t, 0, i - 1, s, 0, i - 1)
            BY <2>1, <3>3, SameEntries
        <3> QED
            BY <3>4 DEF GrowAlike
    <2>3. Prefix(t, 0) = 0 /\ Prefix(s, 0) = 0 /\ Prefix(t, i - 1) \in Nat /\ Prefix(s, i - 1) \in Nat
        BY <2>1, PrefixIs
    <2> QED
        BY <2>2, <2>3
<1>3. Prefix(t, n - 1) - Prefix(t, i - 1) = Prefix(s, n) - Prefix(s, i)
    <2>1. /\ n - 1 \in i - 1 .. Len(t) /\ n \in i .. n /\ (n - 1) - (i - 1) = n - i
        BY <1>1
    <2>2. Alike(t, i - 1, s, i, (n - 1) - (i - 1))
        <3>1. SUFFICES ASSUME NEW j \in 1 .. (n - 1) - (i - 1) PROVE t[(i - 1) + j] = s[i + j]
            BY DEF Alike
        <3>2. (i - 1) + j \in 1 .. Len(t) /\ ~((i - 1) + j < i) /\ ((i - 1) + j) + 1 = i + j
            BY <1>1
        <3> QED
            BY <3>2
    <2>3. n \in Nat /\ i \in Nat /\ i - 1 \in Nat
        BY <1>1
    <2>4. GrowAlike(t, i - 1, n - 1, s, i, n)
        BY <2>1, <2>2, <2>3, SameEntries
    <2> QED
        BY <2>4 DEF GrowAlike
<1>4. Prefix(s, i) = Prefix(s, i - 1) + s[i]
    BY PrefixIs
<1>5. /\ Prefix(s, i) \in Nat /\ Prefix(t, n - 1) \in Nat /\ Prefix(s, n) \in Nat
      /\ Total(t) = Prefix(t, n - 1) /\ Total(s) = Prefix(s, n)
      /\ Prefix(t, i - 1) \in Nat /\ Prefix(s, i - 1) \in Nat
    <2>1. i \in 0 .. n /\ n \in 0 .. n /\ i - 1 \in 0 .. n /\ n - 1 \in 0 .. Len(t) /\ i - 1 \in 0 .. Len(t)
        BY <1>1
    <2> QED
        BY <2>1, PrefixIs
<1> DEFINE p == Prefix(s, i - 1)
           ps == Prefix(s, i)
           qs == Prefix(s, n)
           qt == Prefix(t, n - 1)
           x == s[i]
<1>6. /\ p \in Nat /\ ps \in Nat /\ qs \in Nat /\ qt \in Nat /\ x \in Nat
      /\ qt - p = qs - ps /\ ps = p + x
      /\ Total(t) = qt /\ Total(s) = qs
    BY <1>1, <1>2, <1>3, <1>4, <1>5
<1> HIDE DEF p, ps, qs, qt, x
<1>7. qt = qs - x
    BY <1>6
<1> QED
    BY <1>6, <1>7 DEF x

\* No entry is larger than the sum.
LEMMA EntryInTotal ==
    ASSUME NEW s \in Seq(Nat), NEW m \in 1 .. Len(s), NEW i \in 1 .. m
    PROVE  s[i] <= Prefix(s, m)
<1>1. Len(s) \in Nat /\ i \in 1 .. Len(s) /\ i - 1 \in 0 .. Len(s) /\ i \in 0 .. Len(s) /\ m \in i .. Len(s)
    BY LenProperties
<1>2. Prefix(s, i) <= Prefix(s, m)
    BY <1>1, PrefixGrows
<1>3. Prefix(s, i) = Prefix(s, i - 1) + s[i] /\ Prefix(s, i - 1) \in Nat /\ s[i] \in Nat
    BY <1>1, PrefixIs, LenProperties
<1>4. Prefix(s, m) \in Nat
    BY <1>1, PrefixIs
<1> QED
    BY <1>2, <1>3, <1>4

\* r is what is left of s behind e whole entries and a part of the next, n in all.
Leaves(r, s, n, e) ==
    /\ Len(r) = Len(s) - e
    /\ Prefix(s, e) <= n
    /\ e < Len(s) => r[1] = Prefix(s, e + 1) - n /\ (s[e + 1] > 0 => r[1] > 0)
    /\ \A j \in 2 .. Len(r) : r[j] = s[e + j]

\* What n bytes leave of a sequence that has as many.
LEMMA ConsumedShape ==
    ASSUME NEW s \in Seq(Nat), NEW n \in Nat, n <= Total(s)
    PROVE  /\ Consumed(s, n) \in Seq(Nat)
           /\ \E e \in 0 .. Len(s) : Leaves(Consumed(s, n), s, n, e)
<1> DEFINE r == Consumed(s, n)
           T == {j \in 1 .. Len(s) : Prefix(s, j) >= n}
           k == Min(T)
           rest == Prefix(s, k) - n
           t == SubSeq(s, k + 1, Len(s))
<1>1. /\ Len(s) \in Nat /\ Prefix(s, 0) = 0 /\ Total(s) = Prefix(s, Len(s)) /\ Total(s) \in Nat
      /\ \A i \in 0 .. Len(s) : Prefix(s, i) \in Nat
      /\ \A i \in 1 .. Len(s) : Prefix(s, i) = Prefix(s, i - 1) + s[i]
      /\ \A i \in 1 .. Len(s) : s[i] \in Nat
    BY PrefixIs, LenProperties
<1>2. CASE n = 0
    <2>1. r = s
        BY <1>2 DEF Consumed
    <2>2. 0 \in 0 .. Len(s) /\ Len(s) = Len(s) - 0 /\ Prefix(s, 0) <= n
          /\ \A j \in 2 .. Len(s) : s[j] = s[0 + j]
        BY <1>1
    <2>3. 0 < Len(s) => s[1] = Prefix(s, 0 + 1) - n /\ (s[0 + 1] > 0 => s[1] > 0)
        <3>1. SUFFICES ASSUME 0 < Len(s) PROVE s[1] = Prefix(s, 1) - n
            OBVIOUS
        <3>2. 1 \in 1 .. Len(s) /\ 1 - 1 = 0
            BY <1>1, <3>1
        <3>3. Prefix(s, 1) = Prefix(s, 0) + s[1] /\ s[1] \in Nat
            BY <1>1, <3>2
        <3> QED
            BY <1>1, <1>2, <3>3
    <2>4. Leaves(s, s, n, 0)
        BY <2>2, <2>3 DEF Leaves
    <2> QED
        BY <2>1, <2>2, <2>4
<1>3. CASE n # 0
    <2>1. T \in SUBSET Nat /\ T # {}
        <3>1. Len(s) # 0
            BY <1>1, <1>3
        <3>2. Len(s) \in T
            BY <1>1, <3>1
        <3> QED
            BY <3>2
    <2>2. k \in T /\ \A j \in T : k <= j
        <3> HIDE DEF T
        <3> QED
            BY <2>1, MinOf
    <2>3. r = (IF rest = 0 THEN << >> ELSE <<rest>>) \o t
        <3>1. ~(Total(s) < n)
            BY <1>1
        <3> QED
            BY <1>3, <3>1 DEF Consumed
    <2> HIDE DEF r
    <2>4. k \in 1 .. Len(s) /\ k - 1 \in 0 .. Len(s) /\ k \in 0 .. Len(s) /\ Prefix(s, k) >= n
        BY <1>1, <2>2
    <2>5. Prefix(s, k - 1) < n
        <3>1. CASE k = 1
            BY <1>1, <1>3, <3>1
        <3>2. CASE k # 1
            <4>1. k - 1 \in 1 .. Len(s) /\ ~(k <= k - 1)
                BY <2>4, <3>2
            <4>2. k - 1 \notin T
                BY <2>2, <4>1
            <4>3. Prefix(s, k - 1) \in Nat
                BY <1>1, <2>4
            <4> QED
                BY <4>1, <4>2, <4>3
        <3> QED
            BY <3>1, <3>2
    <2> HIDE DEF k, T
    <2>6. rest \in Nat
        BY <1>1, <2>4
    <2>7. /\ t \in Seq(Nat) /\ Len(t) = Len(s) - k
          /\ \A j \in 1 .. Len(s) - k : t[j] = s[k + j]
        <3>1. k + 1 \in 1 .. Len(s) + 1 /\ Len(s) - (k + 1) + 1 = Len(s) - k
            BY <1>1, <2>4
        <3>2. \A j \in 1 .. Len(s) - k : (k + 1) + j - 1 = k + j
            BY <1>1, <2>4
        <3>3. /\ t \in Seq(Nat)
              /\ Len(t) = IF k + 1 <= Len(s) THEN Len(s) - (k + 1) + 1 ELSE 0
              /\ \A j \in 1 .. Len(s) - (k + 1) + 1 : t[j] = s[(k + 1) + j - 1]
            <4>1. k + 1 \in Int /\ Len(s) \in Int /\ \A i \in k + 1 .. Len(s) : i \in 1 .. Len(s)
                BY <1>1, <2>4
            <4>2. \A i \in k + 1 .. Len(s) : s[i] \in Nat
                BY <1>1, <4>1
            <4> QED
                BY <4>1, <4>2, SubSeqProperties
        <3>4. Len(t) = Len(s) - k
            <4>1. CASE k = Len(s)
                <5>1. ~(k + 1 <= Len(s)) /\ Len(s) - k = 0
                    BY <1>1, <4>1
                <5> QED
                    BY <3>3, <5>1
            <4>2. CASE k # Len(s)
                <5>1. k + 1 <= Len(s)
                    BY <1>1, <2>4, <4>2
                <5> QED
                    BY <3>1, <3>3, <5>1
            <4> QED
                BY <4>1, <4>2
        <3>5. \A j \in 1 .. Len(s) - k : t[j] = s[k + j]
            BY <3>1, <3>2, <3>3
        <3> QED
            BY <3>3, <3>4, <3>5
    <2> HIDE DEF t
    <2>8. CASE rest = 0
        <3>1. r = t
            <4>1. << >> \o t = t
                BY <2>7, ConcatEmptySeq
            <4> QED
                BY <2>3, <2>8, <4>1
        <3>2. k < Len(s) => t[1] = Prefix(s, k + 1) - n /\ (s[k + 1] > 0 => t[1] > 0)
            <4>1. SUFFICES ASSUME k < Len(s)
                           PROVE  t[1] = Prefix(s, k + 1) - n /\ (s[k + 1] > 0 => t[1] > 0)
                OBVIOUS
            <4>2. 1 \in 1 .. Len(s) - k /\ k + 1 \in 1 .. Len(s) /\ (k + 1) - 1 = k
                BY <1>1, <2>4, <4>1
            <4>3. t[1] = s[k + 1] /\ Prefix(s, k + 1) = Prefix(s, k) + s[k + 1] /\ s[k + 1] \in Nat
                BY <1>1, <2>7, <4>2
            <4>4. Prefix(s, k) = n
                BY <1>1, <2>4, <2>8
            <4> QED
                BY <4>3, <4>4
        <3>3. \A j \in 2 .. Len(t) : t[j] = s[k + j]
            BY <1>1, <2>4, <2>7
        <3>4. Prefix(s, k) <= n
            BY <1>1, <2>4, <2>8
        <3>5. Leaves(t, s, n, k)
            BY <2>7, <3>2, <3>3, <3>4 DEF Leaves
        <3> HIDE DEF rest
        <3> QED
            BY <2>4, <2>7, <3>1, <3>5 DEF r
    <2>9. CASE rest # 0
        <3> DEFINE e == k - 1
        <3>1. r = <<rest>> \o t /\ <<rest>> \in Seq(Nat) /\ Len(<<rest>>) = 1 /\ <<rest>>[1] = rest
            BY <2>3, <2>6, <2>9
        <3> HIDE DEF rest
        <3>2. /\ r \in Seq(Nat) /\ Len(r) = 1 + Len(t)
              /\ \A i \in 1 .. 1 + Len(t) : r[i] = IF i <= 1 THEN <<rest>>[i] ELSE t[i - 1]
            BY <2>7, <3>1, ConcatProperties
        <3>3. Len(r) = Len(s) - e /\ e \in 0 .. Len(s) /\ e + 1 = k /\ e < Len(s)
            BY <1>1, <2>4, <2>7, <3>2
        <3>4. r[1] = rest
            <4>1. 1 \in 1 .. 1 + Len(t)
                BY <1>1, <2>4, <2>7
            <4> QED
                BY <3>1, <3>2, <4>1
        <3>5. \A j \in 2 .. Len(r) : r[j] = s[e + j]
            <4>1. TAKE j \in 2 .. Len(r)
            <4>2. j \in 1 .. 1 + Len(t) /\ ~(j <= 1) /\ j - 1 \in 1 .. Len(s) - k /\ k + (j - 1) = e + j
                BY <1>1, <2>4, <2>7, <3>2
            <4> QED
                BY <2>7, <3>2, <4>2
        <3>6. Prefix(s, e) <= n
            <4>1. Prefix(s, k - 1) \in Nat
                BY <1>1, <2>4
            <4> QED
                BY <2>5, <4>1
        <3>7. rest = Prefix(s, e + 1) - n /\ rest > 0
            <4>1. rest = Prefix(s, e + 1) - n
                BY <3>3 DEF rest
            <4> QED
                BY <2>6, <2>9, <4>1
        <3> HIDE DEF e
        <3>8. Leaves(r, s, n, e)
            BY <3>3, <3>4, <3>5, <3>6, <3>7 DEF Leaves
        <3> QED
            BY <3>2, <3>3, <3>8 DEF r
    <2> QED
        BY <2>8, <2>9
<1> QED
    BY <1>2, <1>3

\* The bytes taken are those of the sequence it was, and positive entries stay so.
LEMMA LeavesTotal ==
    ASSUME NEW s \in Seq(Nat), NEW r \in Seq(Nat), NEW n \in Nat, n <= Total(s),
           NEW e \in 0 .. Len(s), Leaves(r, s, n, e)
    PROVE  Total(r) = Total(s) - n
<1>1. Len(s) \in Nat /\ Len(r) \in Nat /\ Len(r) = Len(s) - e
    BY LenProperties DEF Leaves
<1>2. CASE e = Len(s)
    <2>1. Len(r) = 0 /\ Total(r) = Prefix(r, 0) /\ Prefix(r, 0) = 0
        <3>1. Len(r) = 0 /\ 0 \in 0 .. Len(r)
            BY <1>1, <1>2
        <3> QED
            BY <3>1, PrefixIs
    <2>2. Prefix(s, e) <= n /\ Total(s) = Prefix(s, e) /\ Total(s) \in Nat
        BY <1>2, PrefixIs DEF Leaves
    <2> QED
        BY <2>1, <2>2
<1>3. CASE e # Len(s)
    <2>1. /\ e < Len(s) /\ 1 \in 1 .. Len(r) /\ 1 - 1 = 0 /\ e + 1 \in 0 .. Len(s)
          /\ 1 \in Nat /\ e + 1 \in Nat /\ Len(r) \in 1 .. Len(r) /\ Len(s) \in e + 1 .. Len(s)
          /\ Len(r) - 1 = Len(s) - (e + 1) /\ Len(r) \in 0 .. Len(r)
        BY <1>1, <1>3
    <2>2. Alike(r, 1, s, e + 1, Len(r) - 1)
        <3>1. SUFFICES ASSUME NEW j \in 1 .. Len(r) - 1 PROVE r[1 + j] = s[(e + 1) + j]
            BY DEF Alike
        <3>2. 1 + j \in 2 .. Len(r) /\ e + (1 + j) = (e + 1) + j
            BY <1>1
        <3> QED
            BY <3>2 DEF Leaves
    <2>3. Prefix(r, Len(r)) - Prefix(r, 1) = Prefix(s, Len(s)) - Prefix(s, e + 1)
        <3>1. GrowAlike(r, 1, Len(r), s, e + 1, Len(s))
            BY <2>1, <2>2, SameEntries
        <3> QED
            BY <3>1 DEF GrowAlike
    <2> DEFINE a == Prefix(r, 1)
               b == Prefix(s, e + 1)
               x == Prefix(r, Len(r))
               y == Prefix(s, Len(s))
    <2>4. a = b - n
        <3>1. Prefix(r, 1) = Prefix(r, 0) + r[1] /\ Prefix(r, 0) = 0 /\ r[1] \in Nat
            BY <2>1, PrefixIs, LenProperties
        <3>2. r[1] = b - n
            BY <2>1 DEF Leaves
        <3> HIDE DEF b
        <3> QED
            BY <3>1, <3>2
    <2>5. /\ a \in Int /\ b \in Int /\ x \in Int /\ y \in Int /\ x - a = y - b
          /\ Total(r) = x /\ Total(s) = y
        <3>1. 1 \in 0 .. Len(r) /\ Len(s) \in 0 .. Len(s)
            BY <1>1, <2>1
        <3> QED
            BY <2>1, <2>3, <3>1, PrefixIs
    <2> HIDE DEF a, b, x, y
    <2>6. x = y - n
        BY <2>4, <2>5
    <2> QED
        BY <2>5, <2>6
<1> QED
    BY <1>2, <1>3

\* What is left of a sequence of positive numbers is one.
LEMMA LeavesPositive ==
    ASSUME NEW s \in Seq(Nat \ {0}), NEW r \in Seq(Nat), NEW n \in Nat,
           NEW e \in 0 .. Len(s), Leaves(r, s, n, e)
    PROVE  r \in Seq(Nat \ {0})
<1>1. /\ Len(s) \in Nat /\ Len(r) \in Nat /\ Len(r) = Len(s) - e
      /\ \A j \in 1 .. Len(s) : s[j] \in Nat \ {0}
    BY LenProperties DEF Leaves
<1>2. \A j \in 1 .. Len(r) : r[j] \in Nat \ {0}
    <2>1. TAKE j \in 1 .. Len(r)
    <2>2. r[j] \in Nat
        BY LenProperties
    <2>3. CASE j = 1
        <3>1. e < Len(s) /\ e + 1 \in 1 .. Len(s)
            BY <1>1, <2>3
        <3>2. s[e + 1] > 0
            BY <1>1, <3>1
        <3>3. r[1] > 0
            BY <3>1, <3>2 DEF Leaves
        <3> QED
            BY <2>2, <2>3, <3>3
    <2>4. CASE j # 1
        <3>1. j \in 2 .. Len(r) /\ e + j \in 1 .. Len(s)
            BY <1>1, <2>4
        <3>2. r[j] = s[e + j]
            BY <3>1 DEF Leaves
        <3> QED
            BY <1>1, <3>1, <3>2
    <2> QED
        BY <2>3, <2>4
<1>3. r \in [1 .. Len(r) -> Nat \ {0}]
    <2>1. r \in [1 .. Len(r) -> Nat]
        BY LenProperties
    <2> QED
        BY <1>2, <2>1
<1> DEFINE P == Nat \ {0}
           F == {[1 .. m -> P] : m \in Nat}
<1>4. [1 .. Len(r) -> P] \in F
    BY <1>1
<1> HIDE DEF F
<1>5. r \in UNION F
    BY <1>3, <1>4
<1> HIDE DEF P
<1>6. Seq(P) = UNION F
    BY SeqDef DEF F
<1> QED
    BY <1>5, <1>6, Zenon DEF P

(***************************************************************************)
(* The outstanding list and the requests it is for.                        *)
(***************************************************************************)

Requests == [size : Nat \ {0}, left : Nat \ {0}]
Lefts(q) == [i \in 1 .. Len(q) |-> q[i].left]

\* What is left of the requests is a sequence of positive numbers.
LEMMA LeftsType ==
    ASSUME NEW q \in Seq(Requests)
    PROVE  /\ Lefts(q) \in Seq(Nat) /\ Len(Lefts(q)) = Len(q) /\ Len(q) \in Nat
           /\ \A i \in 1 .. Len(q) : /\ Lefts(q)[i] = q[i].left
                                     /\ q[i].left \in Nat \ {0} /\ q[i].size \in Nat \ {0}
<1>1. Len(q) \in Nat /\ \A i \in 1 .. Len(q) : q[i] \in Requests
    BY LenProperties
<1>2. \A i \in 1 .. Len(q) : q[i].left \in Nat \ {0} /\ q[i].size \in Nat \ {0}
    BY <1>1 DEF Requests
<1>3. Lefts(q) \in [1 .. Len(q) -> Nat]
    BY <1>2 DEF Lefts
<1>4. Lefts(q) \in Seq(Nat) /\ Len(Lefts(q)) = Len(q)
    BY <1>1, <1>3, SeqDef, LenProperties
<1> QED
    BY <1>1, <1>2, <1>4 DEF Lefts

\* An answer of d bytes to the i-th request makes q2 of q.
Reduced(q2, q, i, d) ==
    q2 = IF d < q[i].left THEN [q EXCEPT ![i].left = @ - d]
         ELSE SubSeq(q, 1, i - 1) \o SubSeq(q, i + 1, Len(q))

\* The request answered is smaller, or gone; the others are as they were.
LEMMA ReducedShape ==
    ASSUME NEW q \in Seq(Requests), NEW i \in 1 .. Len(q), NEW d \in 1 .. q[i].left,
           NEW q2, Reduced(q2, q, i, d)
    PROVE  /\ q2 \in Seq(Requests)
           /\ d < q[i].left =>
                /\ Len(q2) = Len(q)
                /\ \A j \in 1 .. Len(q) : /\ q2[j].size = q[j].size
                                          /\ j # i => q2[j].left = q[j].left
                /\ q2[i].left = q[i].left - d
           /\ d = q[i].left =>
                /\ Len(q2) = Len(q) - 1
                /\ \A j \in 1 .. Len(q) - 1 : q2[j] = IF j < i THEN q[j] ELSE q[j + 1]
<1>1. /\ Len(q) \in Nat /\ \A j \in 1 .. Len(q) : q[j] \in Requests
      /\ q \in [1 .. Len(q) -> Requests]
    BY LenProperties
<1>2. q[i].left \in Nat \ {0} /\ q[i].size \in Nat \ {0}
    BY <1>1 DEF Requests
<1>3. CASE d < q[i].left
    <2>1. q2 = [q EXCEPT ![i].left = @ - d]
        BY <1>3 DEF Reduced
    <2>2. q[i].left - d \in Nat \ {0}
        BY <1>2, <1>3
    <2>3. [q[i] EXCEPT !.left = @ - d] \in Requests
        BY <1>1, <2>2 DEF Requests
    <2>4. q2 = [q EXCEPT ![i] = [q[i] EXCEPT !.left = @ - d]]
        BY <2>1
    <2>5. q2 \in [1 .. Len(q) -> Requests]
        BY <1>1, <2>3, <2>4
    <2>6. q2 \in Seq(Requests) /\ Len(q2) = Len(q)
        BY <1>1, <2>5, SeqDef, LenProperties
    <2>7. q2[i].size = q[i].size /\ q2[i].left = q[i].left - d
        <3>1. q[i] \in Requests
            BY <1>1
        <3> QED
            BY <1>1, <2>4, <3>1 DEF Requests
    <2>8. \A j \in 1 .. Len(q) : j # i => q2[j] = q[j]
        BY <1>1, <2>4
    <2> QED
        BY <1>3, <2>6, <2>7, <2>8
<1>4. CASE d = q[i].left
    <2> DEFINE s == SubSeq(q, 1, i - 1)
               t == SubSeq(q, i + 1, Len(q))
               n == Len(q)
    <2>1. q2 = s \o t
        <3>1. ~(d < q[i].left)
            BY <1>2, <1>4
        <3> QED
            BY <3>1 DEF Reduced
    <2>2. /\ s \in Seq(Requests) /\ Len(s) = i - 1
          /\ \A j \in 1 .. i - 1 : s[j] = q[j]
        <3>1. 1 \in Int /\ i - 1 \in Int /\ \A j \in 1 .. i - 1 : j \in 1 .. n /\ 1 + j - 1 = j
            BY <1>1
        <3>2. \A j \in 1 .. i - 1 : q[j] \in Requests
            BY <1>1, <3>1
        <3>3. /\ s \in Seq(Requests)
              /\ Len(s) = IF 1 <= i - 1 THEN (i - 1) - 1 + 1 ELSE 0
              /\ \A j \in 1 .. (i - 1) - 1 + 1 : s[j] = q[1 + j - 1]
            BY <3>1, <3>2, SubSeqProperties
        <3> HIDE DEF s
        <3>4. (i - 1) - 1 + 1 = i - 1 /\ (~(1 <= i - 1) => i - 1 = 0)
            BY <1>1
        <3> QED
            BY <3>1, <3>3, <3>4
    <2>3. /\ t \in Seq(Requests) /\ Len(t) = n - i
          /\ \A j \in 1 .. n - i : t[j] = q[i + j]
        <3>1. /\ i + 1 \in Int /\ n \in Int /\ \A j \in i + 1 .. n : j \in 1 .. n
              /\ \A j \in 1 .. n - i : (i + 1) + j - 1 = i + j
            BY <1>1
        <3>2. \A j \in i + 1 .. n : q[j] \in Requests
            BY <1>1, <3>1
        <3>3. /\ t \in Seq(Requests)
              /\ Len(t) = IF i + 1 <= n THEN n - (i + 1) + 1 ELSE 0
              /\ \A j \in 1 .. n - (i + 1) + 1 : t[j] = q[(i + 1) + j - 1]
            BY <3>1, <3>2, SubSeqProperties
        <3> HIDE DEF t
        <3>4. n - (i + 1) + 1 = n - i /\ (~(i + 1 <= n) => n - i = 0)
            BY <1>1
        <3> QED
            BY <3>1, <3>3, <3>4
    <2> HIDE DEF s, t
    <2>4. /\ q2 \in Seq(Requests) /\ Len(q2) = (i - 1) + (n - i)
          /\ \A j \in 1 .. (i - 1) + (n - i) : q2[j] = IF j <= i - 1 THEN s[j] ELSE t[j - (i - 1)]
        <3>1. /\ s \o t \in Seq(Requests) /\ Len(s \o t) = Len(s) + Len(t)
              /\ \A j \in 1 .. Len(s) + Len(t) : (s \o t)[j] = IF j <= Len(s) THEN s[j]
                                                                ELSE t[j - Len(s)]
            BY <2>2, <2>3, ConcatProperties
        <3> QED
            BY <2>1, <2>2, <2>3, <3>1
    <2>5. (i - 1) + (n - i) = n - 1
        BY <1>1
    <2>6. \A j \in 1 .. n - 1 : q2[j] = IF j < i THEN q[j] ELSE q[j + 1]
        <3>1. TAKE j \in 1 .. n - 1
        <3>2. CASE j < i
            <4>1. j \in 1 .. i - 1 /\ j <= i - 1
                BY <1>1, <3>2
            <4> QED
                BY <2>2, <2>4, <2>5, <3>2, <4>1
        <3>3. CASE ~(j < i)
            <4>1. ~(j <= i - 1) /\ j - (i - 1) \in 1 .. n - i /\ i + (j - (i - 1)) = j + 1
                BY <1>1, <3>3
            <4> QED
                BY <2>3, <2>4, <2>5, <3>3, <4>1
        <3> QED
            BY <3>2, <3>3
    <2>7. ~(d < q[i].left)
        BY <1>2, <1>4
    <2> QED
        BY <1>1, <2>4, <2>5, <2>6, <2>7
<1> QED
    BY <1>2, <1>3, <1>4

\* An answer takes its bytes out of what is left.
LEMMA ReducedTotal ==
    ASSUME NEW q \in Seq(Requests), NEW i \in 1 .. Len(q), NEW d \in 1 .. q[i].left,
           NEW q2, Reduced(q2, q, i, d)
    PROVE  Total(Lefts(q2)) = Total(Lefts(q)) - d
<1> DEFINE s == Lefts(q)
           t == Lefts(q2)
<1>1. /\ q2 \in Seq(Requests) /\ Len(q) \in Nat
      /\ s \in Seq(Nat) /\ Len(s) = Len(q) /\ \A j \in 1 .. Len(q) : s[j] = q[j].left
      /\ t \in Seq(Nat) /\ Len(t) = Len(q2) /\ \A j \in 1 .. Len(q2) : t[j] = q2[j].left
      /\ q[i].left \in Nat /\ Total(s) \in Nat
    BY ReducedShape, LeftsType, PrefixIs
<1> HIDE DEF s, t
<1>2. CASE d < q[i].left
    <2>1. /\ Len(t) = Len(s) /\ s[i] = q[i].left /\ t[i] = q[i].left - d
          /\ \A j \in 1 .. Len(s) : j # i => t[j] = s[j]
        BY <1>1, <1>2, ReducedShape
    <2>2. Total(t) = Total(s) - s[i] + t[i]
        BY <1>1, <2>1, TotalLowered
    <2> QED
        BY <1>1, <2>1, <2>2 DEF s, t
<1>3. CASE d = q[i].left
    <2>1. /\ Len(t) = Len(s) - 1 /\ s[i] = d /\ i \in 1 .. Len(s)
          /\ \A j \in 1 .. Len(t) : t[j] = IF j < i THEN s[j] ELSE s[j + 1]
        <3>1. /\ Len(q2) = Len(q) - 1
              /\ \A j \in 1 .. Len(q) - 1 : q2[j] = IF j < i THEN q[j] ELSE q[j + 1]
            BY <1>3, ReducedShape
        <3>2. \A j \in 1 .. Len(q) - 1 : j \in 1 .. Len(q) /\ j + 1 \in 1 .. Len(q)
            BY <1>1
        <3> QED
            BY <1>1, <1>3, <3>1, <3>2
    <2>2. Total(t) = Total(s) - s[i]
        BY <1>1, <2>1, TotalWithout
    <2> QED
        BY <2>1, <2>2 DEF s, t
<1> QED
    BY <1>1, <1>2, <1>3

\* The requests q and the outstanding list o when answers have come in order, up
\* to the order among requests of equal size z: the first m requests and the
\* first k entries are those in progress, the others untouched.
LinedUp(q, o, m, k, z) ==
    /\ m \in 0 .. Len(q) /\ k \in 0 .. Len(o) /\ Len(o) - k = Len(q) - m
    /\ \A j \in 1 .. m : q[j].size = z
    /\ \A j \in 1 .. k : o[j] <= z /\ (j > 1 => o[j] = z)
    /\ \A j \in 1 .. Len(o) - k : q[m + j].left = q[m + j].size /\ o[k + j] = q[m + j].size

\* What is left of the requests in progress is what their entries say.
LEMMA LinedSums ==
    ASSUME NEW q \in Seq(Requests), NEW o \in Seq(Nat \ {0}), NEW m, NEW k, NEW z \in Nat,
           LinedUp(q, o, m, k, z), Total(Lefts(q)) = Total(o)
    PROVE  /\ o \in Seq(Nat) /\ Len(o) \in Nat /\ \A j \in 1 .. Len(o) : o[j] \in Nat \ {0}
           /\ Prefix(Lefts(q), m) = Prefix(o, k)
<1> DEFINE s == Lefts(q)
<1>1. /\ s \in Seq(Nat) /\ Len(s) = Len(q) /\ \A j \in 1 .. Len(q) : s[j] = q[j].left
      /\ Len(q) \in Nat
    BY LeftsType
<1>2. Len(o) \in Nat /\ \A j \in 1 .. Len(o) : o[j] \in Nat \ {0}
    BY LenProperties
<1>3. o \in Seq(Nat)
    <2>1. Nat \ {0} \subseteq Nat
        OBVIOUS
    <2> QED
        BY <2>1, SeqMonotonic
<1> HIDE DEF s
<1>4. /\ m \in Nat /\ k \in Nat /\ Len(s) \in m .. Len(s) /\ Len(o) \in k .. Len(o)
      /\ Len(s) - m = Len(o) - k /\ m \in 0 .. Len(s) /\ k \in 0 .. Len(o)
      /\ Len(s) \in 0 .. Len(s) /\ Len(o) \in 0 .. Len(o)
    BY <1>1, <1>2 DEF LinedUp
<1>5. Alike(s, m, o, k, Len(s) - m)
    <2>1. SUFFICES ASSUME NEW j \in 1 .. Len(s) - m PROVE s[m + j] = o[k + j]
        BY DEF Alike
    <2>2. j \in 1 .. Len(o) - k /\ m + j \in 1 .. Len(q)
        BY <1>1, <1>4
    <2>3. q[m + j].left = q[m + j].size /\ o[k + j] = q[m + j].size
        BY <2>2 DEF LinedUp
    <2> QED
        BY <1>1, <2>2, <2>3
<1>6. Prefix(s, Len(s)) - Prefix(s, m) = Prefix(o, Len(o)) - Prefix(o, k)
    <2>1. s \in Seq(Nat)
        BY <1>1
    <2>2. GrowAlike(s, m, Len(s), o, k, Len(o))
        BY <1>3, <1>4, <1>5, <2>1, SameEntries
    <2> QED
        BY <2>2 DEF GrowAlike
<1> DEFINE a == Prefix(s, m)
           b == Prefix(o, k)
           x == Prefix(s, Len(s))
           y == Prefix(o, Len(o))
<1>7. a \in Nat /\ b \in Nat /\ x \in Nat /\ y \in Nat /\ Total(s) = x /\ Total(o) = y
    BY <1>1, <1>3, <1>4, PrefixIs
<1>8. x - a = y - b /\ x = y
    BY <1>6, <1>7 DEF s
<1> HIDE DEF a, b, x, y
<1>9. a = b
    BY <1>7, <1>8
<1> QED
    BY <1>2, <1>3, <1>9 DEF s, a, b

\* An answer to a request behind others of its size is one in progress.
LEMMA Widened ==
    ASSUME NEW q \in Seq(Requests), NEW o \in Seq(Nat \ {0}), NEW m, NEW k, NEW z \in Nat,
           LinedUp(q, o, m, k, z), Total(Lefts(q)) = Total(o),
           NEW i \in 1 .. Len(q), \A j \in 1 .. i - 1 : q[j].size = q[i].size
    PROVE  \E n \in i .. Len(q) : \E l : LinedUp(q, o, n, l, q[i].size)
<1>1. /\ Len(q) \in Nat /\ Len(o) \in Nat /\ m \in 0 .. Len(q) /\ k \in 0 .. Len(o)
      /\ Len(o) - k = Len(q) - m
    BY LenProperties DEF LinedUp
<1>2. CASE i <= m
    <2>1. q[i].size = z /\ m \in i .. Len(q)
        BY <1>1, <1>2 DEF LinedUp
    <2> QED
        BY <2>1
<1>3. CASE m < i
    <2> DEFINE l == k + (i - m)
               y == q[i].size
    <2>1. i \in i .. Len(q) /\ i \in 0 .. Len(q) /\ l \in 0 .. Len(o) /\ Len(o) - l = Len(q) - i
        BY <1>1, <1>3
    <2>2. \A j \in 1 .. i : q[j].size = y
        <3>1. \A j \in 1 .. i : j = i \/ j \in 1 .. i - 1
            OBVIOUS
        <3> QED
            BY <3>1
    <2>3. y \in Nat
        BY LeftsType
    <2>4. k > 0 => z = y
        <3>1. CASE m = 0
            <4>1. SUFFICES ASSUME k > 0 PROVE FALSE
                OBVIOUS
            <4>2. /\ o \in Seq(Nat) /\ \A j \in 1 .. Len(o) : o[j] \in Nat \ {0}
                  /\ Prefix(Lefts(q), m) = Prefix(o, k)
                BY LinedSums
            <4>3. Prefix(Lefts(q), 0) = 0
                BY LeftsType, PrefixIs
            <4>4. 1 \in 1 .. k /\ k \in 1 .. Len(o) /\ 1 \in 1 .. Len(o)
                BY <1>1, <4>1
            <4>5. o[1] <= Prefix(o, k)
                BY <4>2, <4>4, EntryInTotal
            <4>6. o[1] \in Nat \ {0} /\ Prefix(o, k) = 0
                BY <3>1, <4>2, <4>3, <4>4
            <4> QED
                BY <4>5, <4>6
        <3>2. CASE m # 0
            <4>1. 1 \in 1 .. m /\ 1 \in 1 .. i
                BY <1>1, <1>3, <3>2
            <4>2. q[1].size = z /\ q[1].size = y
                BY <2>2, <4>1 DEF LinedUp
            <4> QED
                BY <4>2
        <3> QED
            BY <3>1, <3>2
    <2>5. \A j \in 1 .. l : o[j] <= y /\ (j > 1 => o[j] = y)
        <3>1. TAKE j \in 1 .. l
        <3>2. CASE j <= k
            <4>1. j \in 1 .. k /\ k > 0
                BY <1>1, <3>2
            <4> QED
                BY <2>4, <4>1 DEF LinedUp
        <3>3. CASE ~(j <= k)
            <4>1. j - k \in 1 .. Len(o) - k /\ k + (j - k) = j /\ m + (j - k) \in 1 .. i
                BY <1>1, <1>3, <2>1, <3>3
            <4>2. o[k + (j - k)] = q[m + (j - k)].size
                BY <4>1 DEF LinedUp
            <4>3. o[j] = y
                BY <2>2, <4>1, <4>2
            <4> HIDE DEF y
            <4> QED
                BY <2>3, <4>3
        <3> QED
            BY <3>2, <3>3
    <2>6. \A j \in 1 .. Len(o) - l : q[i + j].left = q[i + j].size /\ o[l + j] = q[i + j].size
        <3>1. TAKE j \in 1 .. Len(o) - l
        <3>2. (i - m) + j \in 1 .. Len(o) - k /\ m + ((i - m) + j) = i + j /\ k + ((i - m) + j) = l + j
            BY <1>1, <1>3
        <3> HIDE DEF l
        <3> DEFINE x == (i - m) + j
        <3>3. q[m + x].left = q[m + x].size /\ o[k + x] = q[m + x].size
            BY <3>2 DEF LinedUp
        <3> QED
            BY <3>2, <3>3
    <2> HIDE DEF l, y
    <2>7. LinedUp(q, o, i, l, y)
        BY <2>1, <2>2, <2>5, <2>6 DEF LinedUp
    <2> QED
        BY <2>1, <2>7 DEF y
<1> QED
    BY <1>1, <1>2, <1>3

\* An answer that overtakes only requests of its own size uses up one entry at
\* most, and the lists stay in line.
LEMMA LinedAnswer ==
    ASSUME NEW q \in Seq(Requests), NEW o \in Seq(Nat \ {0}), NEW m, NEW k, NEW z \in Nat,
           LinedUp(q, o, m, k, z), Total(Lefts(q)) = Total(o),
           NEW i \in 1 .. m, NEW d \in 1 .. q[i].left, q[i].left <= q[i].size,
           NEW q2, Reduced(q2, q, i, d),
           NEW r \in Seq(Nat), NEW e \in 0 .. Len(o), Leaves(r, o, d, e)
    PROVE  e <= 1 /\ \E n, l : LinedUp(q2, r, n, l, z)
<1>1. /\ Len(q) \in Nat /\ Len(o) \in Nat /\ m \in 0 .. Len(q) /\ k \in 0 .. Len(o)
      /\ Len(o) - k = Len(q) - m /\ i \in 1 .. Len(q)
    BY LenProperties DEF LinedUp
<1>2. /\ o \in Seq(Nat) /\ \A j \in 1 .. Len(o) : o[j] \in Nat \ {0}
      /\ Prefix(Lefts(q), m) = Prefix(o, k)
    BY LinedSums
<1>3. q[i].left \in Nat \ {0} /\ q[i].size \in Nat \ {0} /\ d \in Nat /\ d > 0
    BY <1>1, LeftsType
<1>4. d <= Prefix(o, k) /\ Prefix(o, k) \in Nat
    <2>1. Lefts(q) \in Seq(Nat) /\ Len(Lefts(q)) = Len(q) /\ Lefts(q)[i] = q[i].left
        BY <1>1, LeftsType
    <2>2. m \in 1 .. Len(Lefts(q))
        BY <1>1, <2>1
    <2>3. q[i].left <= Prefix(Lefts(q), m)
        BY <2>1, <2>2, EntryInTotal
    <2>4. Prefix(o, k) \in Nat
        BY <1>1, <1>2, PrefixIs
    <2> QED
        BY <1>2, <1>3, <2>3, <2>4
<1>5. d <= z
    <2>1. q[i].size = z
        BY DEF LinedUp
    <2> QED
        BY <1>3, <2>1
<1>6. /\ Prefix(o, 0) = 0 /\ \A j \in 0 .. Len(o) : Prefix(o, j) \in Nat
      /\ \A j \in 1 .. Len(o) : Prefix(o, j) = Prefix(o, j - 1) + o[j]
    BY <1>2, PrefixIs
<1>7. Prefix(o, e) <= d /\ Len(r) = Len(o) - e
    BY DEF Leaves
<1>8. e <= k
    <2>1. SUFFICES ASSUME k < e PROVE FALSE
        BY <1>1
    <2>2. /\ k + 1 \in 1 .. Len(o) /\ k + 1 \in 0 .. Len(o) /\ e \in k + 1 .. Len(o) /\ (k + 1) - 1 = k
        BY <1>1, <2>1
    <2>3. Prefix(o, k + 1) <= Prefix(o, e)
        BY <1>2, <2>2, PrefixGrows
    <2>4. Prefix(o, k + 1) = Prefix(o, k) + o[k + 1] /\ o[k + 1] \in Nat \ {0}
        BY <1>2, <1>6, <2>2
    <2>5. Prefix(o, e) \in Nat /\ Prefix(o, k + 1) \in Nat
        BY <1>6, <2>2
    <2> QED
        BY <1>3, <1>4, <1>7, <2>3, <2>4, <2>5
<1>9. e <= 1
    <2>1. SUFFICES ASSUME 2 <= e PROVE FALSE
        OBVIOUS
    <2>2. /\ 1 \in 1 .. Len(o) /\ 2 \in 1 .. Len(o) /\ 2 \in 0 .. Len(o) /\ e \in 2 .. Len(o)
          /\ 1 - 1 = 0 /\ 2 - 1 = 1 /\ 2 \in 1 .. k
        <3> DEFINE c == Len(o)
        <3>1. e \in Nat /\ k \in Nat /\ c \in Nat /\ 2 <= e /\ e <= k /\ k <= c
            BY <1>1, <1>8, <2>1
        <3> HIDE DEF c
        <3>2. /\ 1 \in 1 .. c /\ 2 \in 1 .. c /\ 2 \in 0 .. c /\ e \in 2 .. c /\ 2 \in 1 .. k
              /\ 1 - 1 = 0 /\ 2 - 1 = 1
            BY <3>1
        <3> QED
            BY <3>2 DEF c
    <2>3. Prefix(o, 2) <= Prefix(o, e)
        BY <1>2, <2>2, PrefixGrows
    <2>4. Prefix(o, 1) = Prefix(o, 0) + o[1] /\ Prefix(o, 2) = Prefix(o, 1) + o[2]
        BY <1>6, <2>2
    <2>5. o[1] \in Nat \ {0} /\ o[2] = z
        <3>1. 2 > 1
            OBVIOUS
        <3> QED
            BY <1>2, <2>2, <3>1 DEF LinedUp
    <2>6. Prefix(o, 2) \in Nat /\ Prefix(o, e) \in Nat
        BY <1>6, <2>2
    <2>7. Prefix(o, 2) > z
        BY <1>6, <2>4, <2>5
    <2> QED
        BY <1>3, <1>5, <1>7, <2>3, <2>6, <2>7
<1> DEFINE g == IF d < q[i].left THEN 0 ELSE 1
           n == m - g
           l == k - e
<1>10. /\ Len(q2) = Len(q) - g /\ n \in 0 .. Len(q2) /\ l \in 0 .. Len(r) /\ g \in {0, 1}
       /\ Len(r) - l = Len(q2) - n /\ Len(r) - l = Len(o) - k
    <2>1. Len(q2) = Len(q) - g
        <3>1. /\ d < q[i].left => Len(q2) = Len(q)
              /\ d = q[i].left => Len(q2) = Len(q) - 1
            BY <1>1, ReducedShape
        <3>2. d < q[i].left \/ d = q[i].left
            BY <1>3
        <3>3. Len(q) - 0 = Len(q)
            BY <1>1
        <3> QED
            BY <3>1, <3>2, <3>3
    <2>2. g \in {0, 1} /\ n \in 0 .. m
        BY <1>1
    <2> HIDE DEF g
    <2> QED
        BY <1>1, <1>7, <1>8, <2>1, <2>2
<1>a. /\ n \in Nat /\ l \in Nat /\ m \in Nat /\ k \in Nat /\ l = k - e
      /\ d < q[i].left => n = m
      /\ d = q[i].left => n = m - 1
    <2>1. d < q[i].left => g = 0
        OBVIOUS
    <2>2. d = q[i].left => g = 1
        BY <1>3
    <2> HIDE DEF g
    <2> QED
        BY <1>1, <1>10, <2>1, <2>2
<1> HIDE DEF n, l, g
<1>b. d = q[i].left => \A j \in 1 .. Len(q) - 1 : q2[j] = IF j < i THEN q[j] ELSE q[j + 1]
    BY <1>1, ReducedShape
<1>11. \A j \in 1 .. n : q2[j].size = z
    <2>1. CASE d < q[i].left
        <3>1. \A j \in 1 .. n : j \in 1 .. Len(q) /\ j \in 1 .. m
            BY <1>1, <1>a, <2>1
        <3>2. \A j \in 1 .. Len(q) : q2[j].size = q[j].size
            BY <1>1, <2>1, ReducedShape
        <3> QED
            BY <3>1, <3>2 DEF LinedUp
    <2>2. CASE d = q[i].left
        <3>1. \A j \in 1 .. n : j \in 1 .. Len(q) - 1 /\ j \in 1 .. m /\ j + 1 \in 1 .. m
            <4>1. n = m - 1
                BY <1>a, <2>2
            <4> QED
                BY <1>1, <4>1
        <3>2. \A j \in 1 .. Len(q) - 1 : q2[j] = IF j < i THEN q[j] ELSE q[j + 1]
            BY <1>b, <2>2
        <3>3. \A j \in 1 .. n : q2[j] = IF j < i THEN q[j] ELSE q[j + 1]
            BY <3>1, <3>2
        <3>4. \A j \in 1 .. m : q[j].size = z
            BY DEF LinedUp
        <3> QED
            BY <3>1, <3>3, <3>4
    <2>3. d < q[i].left \/ d = q[i].left
        <3>1. d \in Nat /\ q[i].left \in Nat /\ d <= q[i].left
            BY <1>3
        <3> DEFINE x == q[i].left
        <3>2. d \in Nat /\ x \in Nat /\ d <= x
            BY <3>1
        <3> HIDE DEF x
        <3>3. d < x \/ d = x
            BY <3>2
        <3> QED
            BY <3>3 DEF x
    <2> QED
        BY <2>1, <2>2, <2>3
<1>12. \A j \in 1 .. l : r[j] <= z /\ (j > 1 => r[j] = z)
    <2>1. TAKE j \in 1 .. l
    <2>2. CASE j = 1
        <3>1. e + 1 \in 1 .. k /\ e + 1 \in 1 .. Len(o) /\ e < Len(o) /\ (e + 1) - 1 = e /\ e \in 0 .. Len(o)
            <4> DEFINE c == Len(o)
            <4>1. e \in Nat /\ k \in Nat /\ c \in Nat /\ k <= c
                BY <1>1
            <4>2. l = k - e
                BY <1>a
            <4>3. 1 <= l
                BY <2>1, <2>2
            <4> HIDE DEF c
            <4>4. e + 1 <= k
                BY <4>1, <4>2, <4>3
            <4>5. e + 1 \in 1 .. k /\ e + 1 \in 1 .. c /\ e < c /\ (e + 1) - 1 = e /\ e \in 0 .. c
                BY <4>1, <4>4
            <4> QED
                BY <4>5 DEF c
        <3>2. r[1] = Prefix(o, e + 1) - d
            BY <3>1 DEF Leaves
        <3>3. Prefix(o, e + 1) = Prefix(o, e) + o[e + 1] /\ o[e + 1] \in Nat /\ o[e + 1] <= z
            BY <1>2, <1>6, <3>1 DEF LinedUp
        <3>4. Prefix(o, e) \in Nat
            BY <1>6, <3>1
        <3>5. r[1] <= z
            <4> DEFINE r1 == r[1]
                       p1 == Prefix(o, e + 1)
                       p0 == Prefix(o, e)
                       x == o[e + 1]
            <4>1. /\ r1 = p1 - d /\ p1 = p0 + x /\ x \in Nat /\ x <= z
                  /\ p0 \in Nat /\ p0 <= d /\ d \in Nat
                BY <1>3, <1>7, <3>2, <3>3, <3>4
            <4> HIDE DEF r1, p1, p0, x
            <4>2. r1 <= z
                BY <4>1
            <4> QED
                BY <4>2 DEF r1
        <3> QED
            BY <2>2, <3>5
    <2>3. CASE j # 1
        <3>1. e + j \in 1 .. k /\ e + j > 1 /\ j \in 2 .. Len(r)
            <4> DEFINE c == Len(o)
                       w == Len(r)
            <4>1. /\ e \in Nat /\ k \in Nat /\ c \in Nat /\ k <= c /\ e <= k /\ w = c - e
                  /\ l = k - e /\ j \in 1 .. l
                BY <1>1, <1>7, <1>8, <1>a
            <4> HIDE DEF c, w
            <4>2. j \in Nat /\ j >= 2 /\ j <= k - e
                BY <2>3, <4>1
            <4>3. e + j \in 1 .. k /\ e + j > 1
                BY <4>1, <4>2
            <4>4. j \in 2 .. w
                BY <4>1, <4>2
            <4> QED
                BY <4>3, <4>4 DEF w
        <3>2. r[j] = o[e + j]
            BY <3>1 DEF Leaves
        <3>3. o[e + j] = z
            BY <3>1 DEF LinedUp
        <3> QED
            BY <3>2, <3>3
    <2> QED
        BY <2>2, <2>3
<1>13. \A j \in 1 .. Len(r) - l : q2[n + j] = q[m + j] /\ r[l + j] = o[k + j]
    <2>1. TAKE j \in 1 .. Len(r) - l
    <2>2. m + j \in 1 .. Len(q) /\ k + j \in 1 .. Len(o) /\ m + j > i
        <3> DEFINE a == Len(q)
                   b == Len(o)
                   w == Len(r) - l
        <3>1. /\ m \in Nat /\ k \in Nat /\ a \in Nat /\ b \in Nat /\ b - k = a - m
              /\ w = b - k /\ j \in 1 .. w
            BY <1>1, <1>10, <1>a
        <3>i. i \in Nat /\ i <= m
            BY <1>1, <1>a
        <3> HIDE DEF a, b, w
        <3>2. j \in Nat /\ j >= 1 /\ j <= b - k /\ j <= a - m
            BY <3>1
        <3>3. m + j \in 1 .. a /\ k + j \in 1 .. b
            BY <3>1, <3>2
        <3>4. m + j > i
            BY <3>1, <3>2, <3>i
        <3> QED
            BY <3>3, <3>4 DEF a, b
    <2>3. q2[n + j] = q[m + j]
        <3>1. CASE d < q[i].left
            <4>1. n = m
                BY <1>a, <3>1
            <4>2. q2 = [q EXCEPT ![i].left = @ - d]
                BY <3>1 DEF Reduced
            <4>3. q \in [1 .. Len(q) -> Requests]
                BY LenProperties
            <4> QED
                BY <2>2, <4>1, <4>2, <4>3
        <3>2. CASE d = q[i].left
            <4>1. n + j \in 1 .. Len(q) - 1 /\ ~(n + j < i) /\ (n + j) + 1 = m + j
                <5>1. n = m - 1 /\ m \in Nat /\ j \in Nat
                    BY <1>1, <1>10, <1>a, <3>2
                <5>2. i \in Nat /\ m + j > i /\ m + j \in 1 .. Len(q) /\ Len(q) \in Nat
                    BY <1>1, <2>2
                <5>3. n + j = m + j - 1 /\ j >= 1
                    BY <5>1
                <5> QED
                    BY <5>1, <5>2, <5>3
            <4>2. \A h \in 1 .. Len(q) - 1 : q2[h] = IF h < i THEN q[h] ELSE q[h + 1]
                BY <1>b, <3>2
            <4> QED
                BY <4>1, <4>2
        <3> QED
            BY <1>3, <3>1, <3>2
    <2>4. r[l + j] = o[k + j]
        <3>1. CASE l + j = 1
            <4> DEFINE c == Len(o)
            <4>a. /\ e \in Nat /\ k \in Nat /\ c \in Nat /\ e <= k /\ l = k - e
                  /\ j \in Nat /\ j >= 1 /\ k + j \in 1 .. c
                BY <1>1, <1>8, <2>2, <1>a
            <4> HIDE DEF c
            <4>b. e = k /\ j = 1 /\ e < c
                BY <3>1, <4>a
            <4>1. e = k /\ j = 1 /\ e < Len(o)
                BY <4>b DEF c
            <4>2. r[1] = Prefix(o, k + 1) - d
                BY <4>1 DEF Leaves
            <4>3. Prefix(o, k + 1) = Prefix(o, k) + o[k + 1] /\ o[k + 1] \in Nat
                <5>1. k + 1 \in 1 .. Len(o) /\ (k + 1) - 1 = k
                    BY <1>1, <4>1
                <5> QED
                    BY <1>2, <1>6, <5>1
            <4>4. Prefix(o, k) = d
                BY <1>3, <1>4, <1>7, <4>1
            <4>5. r[1] = o[k + 1]
                BY <1>3, <4>2, <4>3, <4>4
            <4> QED
                BY <3>1, <4>1, <4>5
        <3>2. CASE l + j # 1
            <4>1. l + j \in 2 .. Len(r) /\ e + (l + j) = k + j
                BY <1>1, <1>8, <1>10, <3>2, <1>a
            <4>2. r[l + j] = o[e + (l + j)]
                BY <4>1 DEF Leaves
            <4> QED
                BY <4>1, <4>2
        <3> QED
            BY <3>1, <3>2
    <2> QED
        BY <2>3, <2>4
<1>14. \A j \in 1 .. Len(r) - l : q2[n + j].left = q2[n + j].size /\ r[l + j] = q2[n + j].size
    <2>1. \A j \in 1 .. Len(r) - l : q[m + j].left = q[m + j].size /\ o[k + j] = q[m + j].size
        BY <1>10 DEF LinedUp
    <2> QED
        BY <1>13, <2>1
<1>15. LinedUp(q2, r, n, l, z)
    BY <1>10, <1>11, <1>12, <1>14 DEF LinedUp
<1> QED
    BY <1>9, <1>15

\* A grant adds a request and its entry.
LEMMA LinedGrant ==
    ASSUME NEW q \in Seq(Requests), NEW o \in Seq(Nat \ {0}), NEW m, NEW k, NEW z \in Nat,
           LinedUp(q, o, m, k, z), NEW d \in Nat \ {0}
    PROVE  LinedUp(Append(q, [size |-> d, left |-> d]), Append(o, d), m, k, z)
<1> DEFINE x == [size |-> d, left |-> d]
           p == Append(q, x)
           r == Append(o, d)
<1>1. x \in Requests /\ x.size = d /\ x.left = d
    BY DEF Requests
<1> HIDE DEF x
<1>2. /\ Len(q) \in Nat /\ Len(o) \in Nat /\ m \in 0 .. Len(q) /\ k \in 0 .. Len(o)
      /\ Len(o) - k = Len(q) - m
    BY LenProperties DEF LinedUp
<1>3. /\ Len(p) = Len(q) + 1 /\ p[Len(q) + 1] = x /\ \A j \in 1 .. Len(q) : p[j] = q[j]
    BY <1>1, AppendProperties
<1>4. /\ Len(r) = Len(o) + 1 /\ r[Len(o) + 1] = d /\ \A j \in 1 .. Len(o) : r[j] = o[j]
    BY AppendProperties
<1> HIDE DEF p, r
<1>5. m \in 0 .. Len(p) /\ k \in 0 .. Len(r) /\ Len(r) - k = Len(p) - m
    BY <1>2, <1>3, <1>4
<1>6. \A j \in 1 .. m : p[j].size = z
    <2>1. \A j \in 1 .. m : j \in 1 .. Len(q)
        BY <1>2
    <2> QED
        BY <1>3, <2>1 DEF LinedUp
<1>7. \A j \in 1 .. k : r[j] <= z /\ (j > 1 => r[j] = z)
    <2>1. \A j \in 1 .. k : j \in 1 .. Len(o)
        BY <1>2
    <2> QED
        BY <1>4, <2>1 DEF LinedUp
<1>8. ASSUME NEW j \in 1 .. Len(r) - k
      PROVE  p[m + j].left = p[m + j].size /\ r[k + j] = p[m + j].size
    <2>1. CASE j = Len(r) - k
        <3>1. m + j = Len(q) + 1 /\ k + j = Len(o) + 1
            <4>1. j + k = Len(r) /\ j \in Nat
                BY <1>2, <1>4, <2>1
            <4> QED
                BY <1>2, <1>3, <1>4, <1>5, <4>1
        <3> QED
            BY <1>1, <1>3, <1>4, <3>1
    <2>2. CASE j # Len(r) - k
        <3>1. j \in 1 .. Len(o) - k /\ m + j \in 1 .. Len(q) /\ k + j \in 1 .. Len(o)
            BY <1>2, <1>4, <2>2
        <3> QED
            BY <1>3, <1>4, <3>1 DEF LinedUp
    <2> QED
        BY <2>1, <2>2
<1>9. LinedUp(p, r, m, k, z)
    BY <1>5, <1>6, <1>7, <1>8 DEF LinedUp
<1> QED
    BY <1>9 DEF p, r, x

(***************************************************************************)
(* The bytes moved by the rate.                                            *)
(***************************************************************************)

\* The parts of a division make the whole.
LEMMA Divided ==
    ASSUME NEW a \in Nat, NEW b \in Nat \ {0}
    PROVE  a = b * (a \div b) + (a % b)
OBVIOUS

\* Rounding b / p to the nearest fraction of which there are u to a byte is off by
\* at most half a fraction.
LEMMA RoundingError ==
    ASSUME NEW p \in Nat \ {0}, NEW u \in Nat \ {0}, NEW b \in Nat
    PROVE  LET x == (b \div p) * u + (2 * (b % p) * u + p) \div (2 * p)
           IN  /\ x \in Nat /\ 2 * p * x - 2 * b * u \in -p .. p
               /\ b = 0 => x = 0
<1> DEFINE w == b \div p
           r == b % p
           y == (2 * r * u + p) \div (2 * p)
           x == w * u + y
<1>1. w \in Nat /\ r \in 0 .. p - 1 /\ b = p * w + r
    BY Division, Divided
<1>2. b = 0 => w = 0 /\ r = 0
    <2>1. SUFFICES ASSUME b = 0 PROVE w = 0 /\ r = 0
        OBVIOUS
    <2> HIDE DEF w, r
    <2>2. w # 0 => p * 1 <= p * w
        BY <1>1, TimesMonotone
    <2>3. p * w \in Nat
        BY <1>1
    <2> QED
        BY <1>1, <2>1, <2>2, <2>3
<1> HIDE DEF w, r
<1> DEFINE a == 2 * r * u
<1>3. a \in Nat /\ 2 * p \in Nat \ {0}
    BY <1>1
<1>4. y \in Nat /\ (2 * p) * y <= a + p /\ a + p < (2 * p) * y + 2 * p
    <2> HIDE DEF a
    <2>1. a + p \in Nat
        BY <1>3
    <2>2. y = (a + p) \div (2 * p)
        BY DEF a
    <2> HIDE DEF y
    <2> QED
        BY <1>3, <2>1, <2>2, Division
<1>5. b = 0 => y = 0
    <2>1. SUFFICES ASSUME b = 0, y # 0 PROVE FALSE
        BY <1>4
    <2>2. a = 0
        BY <1>2, <2>1
    <2> HIDE DEF a, y
    <2>3. (2 * p) * 1 <= (2 * p) * y
        BY <1>3, <1>4, <2>1, TimesMonotone
    <2>4. (2 * p) * y \in Nat /\ (2 * p) * 1 = 2 * p
        BY <1>3, <1>4
    <2> QED
        BY <1>3, <1>4, <2>2, <2>3, <2>4
<1> HIDE DEF y
<1>6. 2 * p * x - 2 * b * u = (2 * p) * y - a
    <2>1. 2 * p * (w * u + y) = 2 * p * w * u + (2 * p) * y
        BY <1>1, <1>4
    <2>2. 2 * (p * w + r) * u = 2 * p * w * u + 2 * r * u
        BY <1>1
    <2>3. 2 * p * w * u \in Int /\ (2 * p) * y \in Int /\ 2 * r * u \in Int
        BY <1>1, <1>4
    <2>4. 2 * p * x = 2 * p * w * u + (2 * p) * y /\ 2 * b * u = 2 * p * w * u + a
        BY <1>1, <2>1, <2>2
    <2> HIDE DEF x, a
    <2>5. a \in Int
        BY <1>3
    <2> QED
        BY <2>3, <2>4, <2>5
<1>7. (2 * p) * y - a \in -p .. p
    <2>1. (2 * p) * y \in Nat
        BY <1>3, <1>4
    <2> HIDE DEF a
    <2> QED
        BY <1>3, <1>4, <2>1
<1>8. x \in Nat /\ (b = 0 => x = 0)
    <2>1. b = 0 => w * u = 0
        BY <1>2
    <2>2. w * u \in Nat
        BY <1>1
    <2> QED
        BY <1>4, <1>5, <2>1, <2>2
<1>9. x = (b \div p) * u + (2 * (b % p) * u + p) \div (2 * p)
    BY DEF y, w, r
<1> HIDE DEF x
<1> QED
    BY <1>6, <1>7, <1>8, <1>9

Moved == drawn * Precision + carry

\* An update moves, in fractions of a byte, what the time since the last one
\* makes at the rate, up to half a fraction; and nothing if no time passed.
LEMMA MovedBy ==
    ASSUME NumbersOK, drawn \in Nat, rounded \in Nat, NEW t \in Nat, now <= t, Update(t)
    PROVE  /\ drawn' \in Nat /\ rounded' \in Nat
           /\ ~Drawing => drawn' = drawn /\ carry' = carry /\ rounded' = rounded
           /\ Drawing =>
                /\ 2 * conf.period * (drawn' * Precision + carry') - 2 * conf.period * Moved
                       - 2 * ((t - time) * conf.rate) * Precision
                     \in -conf.period .. conf.period
                /\ rounded' = rounded + (IF t > time THEN 1 ELSE 0)
                /\ t = time => drawn' * Precision + carry' = Moved
<1>1. /\ conf.period \in Nat \ {0} /\ conf.rate \in Nat /\ t - time \in Nat /\ carry \in Nat
      /\ Precision \in Nat \ {0} /\ time \in Nat
    BY ConfType, PrecisionAssumption DEF NumbersOK
<1>2. /\ Due(t) \in Nat /\ Amount(t) \in Nat
    BY DueType
<1>3. /\ drawn' = drawn + Amount(t)
      /\ rounded' = rounded + (IF Drawing /\ t > time THEN 1 ELSE 0)
      /\ carry' = IF Drawing THEN Due(t) % Precision ELSE carry
    BY DEF Update
<1>4. drawn' \in Nat /\ rounded' \in Nat
    BY <1>1, <1>2, <1>3
<1>5. CASE ~Drawing
    <2>1. Amount(t) = 0
        BY <1>5 DEF Amount
    <2> QED
        BY <1>1, <1>3, <1>4, <1>5, <2>1
<1>6. CASE Drawing
    <2> DEFINE p == conf.period
               u == Precision
               b == (t - time) * conf.rate
               x == (b \div p) * u + (2 * (b % p) * u + p) \div (2 * p)
               m == drawn' * u + carry'
    <2>1. b \in Nat
        BY <1>1
    <2>2. t = time => b = 0
        <3>1. t = time => t - time = 0
            BY <1>1
        <3>2. 0 * conf.rate = 0
            BY <1>1
        <3> QED
            BY <3>1, <3>2
    <2> HIDE DEF b
    <2>3. /\ x \in Nat /\ 2 * p * x - 2 * b * u \in -p .. p
          /\ b = 0 => x = 0
        BY <1>1, <2>1, RoundingError
    <2>4. Due(t) = x + carry
        <3> DEFINE v == (b \div p) * u
                   y == (2 * (b % p) * u + p) \div (2 * p)
        <3>1. Due(t) = v + carry + y
            BY DEF Due, b
        <3>2. v \in Nat /\ y \in Nat
            <4>0. p \in Nat \ {0}
                BY <1>1
            <4>1. (b \div p) \in Nat /\ (b % p) \in Nat
                <5> HIDE DEF p
                <5> QED
                    BY <2>1, <4>0
            <4> DEFINE c == 2 * (b % p) * u + p
                       e == 2 * p
            <4>2. c \in Nat /\ e \in Nat \ {0} /\ v \in Nat
                BY <1>1, <4>1
            <4>3. y = c \div e
                OBVIOUS
            <4> HIDE DEF c, e, y
            <4> QED
                BY <4>2, <4>3, Division
        <3>3. x = v + y
            OBVIOUS
        <3> HIDE DEF v, y, x
        <3> QED
            BY <1>1, <3>1, <3>2, <3>3
    <2>5. m = Moved + x
        <3> DEFINE q == Due(t) \div u
        <3>1. q \in Nat /\ Due(t) = u * q + (Due(t) % u) /\ Due(t) % u \in Nat
            <4> DEFINE d == Due(t)
            <4>1. d \in Nat /\ u \in Nat \ {0}
                BY <1>1, <1>2
            <4> HIDE DEF d, u
            <4>2. (d \div u) \in Nat /\ d % u \in 0 .. u - 1 /\ d = u * (d \div u) + (d % u)
                BY <4>1, Division, Divided
            <4>3. d % u \in Nat
                BY <4>1, <4>2
            <4> QED
                BY <4>2, <4>3 DEF d, u
        <3>2. drawn' = drawn + q /\ carry' = Due(t) % u
            BY <1>3, <1>6 DEF Amount
        <3> DEFINE r == Due(t) % u
                   d == Due(t)
        <3>3. d = u * q + r /\ d = x + carry /\ r \in Nat
            BY <2>4, <3>1
        <3>4. m = (drawn + q) * u + r
            BY <3>2
        <3> HIDE DEF q, r, d, x, m
        <3>5. (drawn + q) * u = drawn * u + u * q
            BY <1>1, <3>1
        <3>6. drawn * u \in Nat /\ u * q \in Nat
            BY <1>1, <3>1
        <3> QED
            BY <1>1, <2>3, <3>3, <3>4, <3>5, <3>6 DEF Moved
    <2>6. Moved \in Nat
        BY <1>1 DEF Moved
    <2> HIDE DEF x, m
    <2>7. 2 * p * m = 2 * p * Moved + 2 * p * x
        BY <1>1, <2>3, <2>5, <2>6
    <2>8. /\ 2 * p * Moved \in Int /\ 2 * p * x \in Int /\ 2 * b * u \in Int
        BY <1>1, <2>1, <2>3, <2>6
    <2>9. 2 * p * m - 2 * p * Moved - 2 * b * u = 2 * p * x - 2 * b * u
        BY <2>7, <2>8
    <2>10. 2 * p * m - 2 * p * Moved - 2 * b * u \in -p .. p
        BY <2>3, <2>9
    <2>11. t = time => m = Moved
        BY <2>2, <2>3, <2>5, <2>6
    <2> QED
        BY <1>3, <1>4, <1>6, <2>10, <2>11 DEF m, b
<1> QED
    BY <1>5, <1>6

\* The bytes moved since the activation are exact up to the roundings made.
Rated ==
    /\ drawn \in Nat /\ rounded \in Nat
    /\ ~Linked => /\ waits = {} /\ (active <=> firstActivation)
                  /\ ~firstActivation => drawn = 0 /\ carry = 0 /\ rounded = 0
    /\ RateExact

LEMMA RatedUpdate ==
    ASSUME IInv, Rated, NEW t \in Nat, now <= t, Update(t), UNCHANGED <<conf, waits>>
    PROVE  Rated'
<1>1. /\ conf.period \in Nat \ {0} /\ conf.rate \in Nat /\ t - time \in Nat
      /\ Precision \in Nat \ {0} /\ time \in Nat /\ firstActivationTime \in Nat
      /\ firstActivationTime <= time /\ active \in BOOLEAN /\ firstActivation \in BOOLEAN
      /\ NumbersOK /\ drawn \in Nat /\ rounded \in Nat /\ carry \in Nat
    BY ConfType, PrecisionAssumption DEF IInv, NumbersOK, Rated
<1>2. /\ drawn' \in Nat /\ rounded' \in Nat
      /\ ~Drawing => drawn' = drawn /\ carry' = carry /\ rounded' = rounded
      /\ Drawing =>
            /\ 2 * conf.period * (drawn' * Precision + carry') - 2 * conf.period * Moved
                   - 2 * ((t - time) * conf.rate) * Precision
                 \in -conf.period .. conf.period
            /\ rounded' = rounded + (IF t > time THEN 1 ELSE 0)
            /\ t = time => drawn' * Precision + carry' = Moved
    BY <1>1, MovedBy
<1>3. /\ active' = (active \/ ~Linked \/ ~firstActivation)
      /\ firstActivation' = (firstActivation \/ ~active)
      /\ firstActivationTime' = IF active \/ firstActivation THEN firstActivationTime ELSE t
      /\ time' = t /\ conf' = conf /\ waits' = waits
    BY DEF Update
<1>4. CASE Linked
    <2>1. Linked'
        BY <1>3, <1>4 DEF Linked
    <2> QED
        BY <1>2, <1>4, <2>1 DEF Rated, RateExact
<1>5. CASE ~Linked
    <2>1. /\ waits = {} /\ (active <=> firstActivation)
          /\ ~firstActivation => drawn = 0 /\ carry = 0 /\ rounded = 0
        BY <1>5 DEF Rated
    <2>2. waits' = {} /\ active' = TRUE /\ firstActivation' = TRUE
        BY <1>1, <1>3, <1>5, <2>1
    <2> DEFINE p == conf.period
               u == Precision
               f == firstActivationTime
               g == firstActivationTime'
               m == Moved
               n == drawn' * u + carry'
               x == 2 * (time - f) * conf.rate * u
               y == 2 * (t - g) * conf.rate * u
               b == 2 * ((t - time) * conf.rate) * u
    <2>3. RateExact' <=> 2 * p * n - y \in -(p * rounded') .. p * rounded'
        <3>1. ~Linked'
            BY <1>3, <1>5 DEF Linked
        <3> QED
            BY <1>3, <2>2, <3>1 DEF RateExact
    <2>4. m \in Nat /\ carry \in Nat
        BY <1>1 DEF Moved
    <2>5. carry' \in Nat
        <3>1. carry' \in 0 .. Precision - 1
            <4>1. Due(t) % Precision \in 0 .. Precision - 1 /\ carry \in 0 .. Precision - 1
                BY <1>1, DueType DEF NumbersOK
            <4> QED
                BY <4>1 DEF Update
        <3> QED
            BY <1>1, <3>1
    <2>6. 2 * p * n - y \in -(p * rounded') .. p * rounded'
        <3>1. CASE ~firstActivation
            <4>1. ~Drawing
                BY <2>1, <3>1 DEF Drawing
            <4>2. drawn' = 0 /\ carry' = 0 /\ rounded' = 0 /\ g = t
                BY <1>2, <1>3, <2>1, <3>1, <4>1
            <4>3. n = 0
                BY <1>1, <4>2
            <4>4. y = 0
                <5>1. t - g = 0
                    BY <1>1, <4>2
                <5>2. 2 * 0 * conf.rate * u = 0
                    BY <1>1
                <5> HIDE DEF g
                <5> QED
                    BY <5>1, <5>2
            <4>5. 2 * p * 0 = 0 /\ p * 0 = 0
                BY <1>1
            <4> HIDE DEF n, y, p
            <4> QED
                BY <4>2, <4>3, <4>4, <4>5
        <3>2. CASE firstActivation
            <4>1. active /\ g = f
                BY <1>3, <2>1, <3>2
            <4>2. 2 * p * m - x \in -(p * rounded) .. p * rounded
                BY <1>5, <3>2 DEF Rated, RateExact, Moved
            <4>3. y = x + b /\ x \in Int /\ b \in Int
                <5> DEFINE j == time - f
                           k == t - time
                           r == conf.rate
                <5>1. j \in Nat /\ k \in Nat /\ r \in Nat /\ u \in Nat
                    BY <1>1
                <5>2. t - g = j + k
                    BY <1>1, <4>1
                <5>3. x = 2 * j * r * u /\ b = 2 * (k * r) * u /\ y = 2 * (j + k) * r * u
                    BY <5>2
                <5> HIDE DEF j, k, r, u, x, y, b
                <5>4. 2 * (j + k) * r * u = 2 * j * r * u + 2 * (k * r) * u
                    BY <5>1
                <5>5. 2 * j * r * u \in Int /\ 2 * (k * r) * u \in Int
                    BY <5>1
                <5> QED
                    BY <5>3, <5>4, <5>5
            <4>4. /\ p \in Nat /\ u \in Nat /\ rounded \in Nat /\ 2 * p * m \in Int
                  /\ 2 * p * n \in Int /\ p * rounded \in Nat
                <5>1. n \in Nat
                    <6> DEFINE h == drawn'
                               i == carry'
                    <6>1. h \in Nat /\ i \in Nat /\ u \in Nat
                        BY <1>1, <1>2, <2>5
                    <6> HIDE DEF h, i, u
                    <6>2. h * u + i \in Nat
                        BY <6>1
                    <6> QED
                        BY <6>2 DEF h, i
                <5> HIDE DEF n
                <5> QED
                    BY <1>1, <2>4, <5>1
            <4>5. CASE ~Drawing
                <5>1. conf.rate = 0
                    BY <1>1, <4>1, <4>5 DEF Drawing
                <5>2. n = m /\ rounded' = rounded
                    BY <1>2, <4>5 DEF Moved
                <5>3. b = 0
                    BY <1>1, <5>1
                <5> HIDE DEF n, m, x, y, b, p, u
                <5> QED
                    BY <4>2, <4>3, <4>4, <5>2, <5>3
            <4>6. CASE Drawing
                <5>1. /\ 2 * p * n - 2 * p * m - b \in -p .. p
                      /\ rounded' = rounded + (IF t > time THEN 1 ELSE 0)
                      /\ t = time => n = m
                    BY <1>2, <4>6
                <5>2. CASE t = time
                    <6>1. b = 0
                        <7>1. t - time = 0
                            BY <1>1, <5>2
                        <7>2. 2 * (0 * conf.rate) * u = 0
                            BY <1>1
                        <7> QED
                            BY <7>1, <7>2
                    <6>2. n = m /\ rounded' = rounded
                        BY <1>1, <5>1, <5>2
                    <6> HIDE DEF n, m, x, y, b, p, u
                    <6> QED
                        BY <4>2, <4>3, <4>4, <6>1, <6>2
                <5>3. CASE t > time
                    <6>1. rounded' = rounded + 1
                        BY <5>1, <5>3
                    <6>2. p * (rounded + 1) = p * rounded + p
                        <7> DEFINE h == rounded
                        <7>1. h \in Nat /\ p \in Nat
                            BY <1>1
                        <7> HIDE DEF h, p
                        <7>2. p * (h + 1) = p * h + p
                            BY <7>1
                        <7> QED
                            BY <7>2 DEF h
                    <6>3. 2 * p * n - 2 * p * m - b \in -p .. p
                        BY <5>1
                    <6> DEFINE i == 2 * p * n
                               j == 2 * p * m
                               k == p * rounded
                    <6>4. /\ i \in Int /\ j \in Int /\ k \in Nat /\ i - j - b \in -p .. p
                          /\ j - x \in -k .. k /\ y = x + b /\ x \in Int /\ b \in Int /\ p \in Nat
                        BY <4>2, <4>3, <4>4, <6>3
                    <6> HIDE DEF i, j, k, x, y, b, p
                    <6>5. i - y \in -(k + p) .. k + p
                        BY <6>4
                    <6> QED
                        BY <6>1, <6>2, <6>5 DEF i, j, k, p
                <5> QED
                    BY <1>1, <5>2, <5>3
            <4> QED
                BY <4>5, <4>6
        <3> QED
            BY <3>1, <3>2
    <2> HIDE DEF n, m, x, y, b, p, u, f, g
    <2> QED
        BY <1>2, <2>2, <2>3, <2>6 DEF Rated
<1> QED
    BY <1>4, <1>5

(***************************************************************************)
(* The account of the bytes.                                               *)
(***************************************************************************)

\* The lists keep their shape, and no request is answered beyond its size.
Shaped ==
    /\ tracker \in Seq(Nat) /\ ot \in Seq(Nat \ {0}) /\ requests \in Seq(Requests)
    /\ \A i \in 1 .. Len(requests) : requests[i].left <= requests[i].size
    /\ profileOt \in Nat /\ Len(ot) <= profileOt /\ requestTime \in Int
    /\ overtaken \in BOOLEAN

Balanced == inFlight = Total(ot) /\ inFlight = Total(Lefts(requests))

\* Until an answer overtakes one to a request of another size, each unanswered
\* request has its entry, but for those in progress, which share theirs.
InLines ==
    ~overtaken => /\ profileOt = Len(ot)
                  /\ \E m, k : \E z \in Nat : LinedUp(requests, ot, m, k, z)

Books == Shaped /\ Balanced /\ InLines /\ Rated

\* What the tracker becomes is a sequence of numbers, and so is what is left of it.
LEMMA TrackerType ==
    ASSUME IInv, tracker \in Seq(Nat), NEW t \in Nat, now <= t, NEW lvl \in Nat,
           ~Reading => lvl <= conf.max
    PROVE  TrackerAfter(lvl, t) \in Seq(Nat)
<1>1. /\ conf.period \in Nat \ {0} /\ conf.rate \in Nat /\ conf.max \in Nat
      /\ t - time \in Nat /\ Amount(t) \in Nat
    <2>1. NumbersOK
        BY DEF IInv
    <2>2. conf.period \in Nat \ {0} /\ conf.rate \in Nat /\ conf.max \in Nat
        <3>1. conf \in Configs
            BY <2>1 DEF NumbersOK
        <3> QED
            BY <3>1, ConfType
    <2>3. Amount(t) \in Nat
        BY <2>1, DueType
    <2>4. t - time \in Nat
        <3>1. now \in Nat /\ time \in Nat /\ time <= now
            BY <2>1 DEF NumbersOK
        <3> QED
            BY <3>1
    <2> QED
        BY <2>2, <2>3, <2>4
<1> DEFINE g == [i \in 1 .. Ticks(t) |-> conf.rate]
           grown == tracker \o g
<1>2. Ticks(t) \in Nat
    <2>1. (t - time) \div conf.period \in Nat
        <3> DEFINE a == t - time
        <3>1. a \in Nat
            BY <1>1
        <3> HIDE DEF a
        <3>2. a \div conf.period \in Nat
            BY <1>1, <3>1, Division
        <3> QED
            BY <3>2 DEF a
    <2> QED
        BY <2>1 DEF Ticks
<1>3. g \in Seq(Nat)
    BY <1>1, <1>2, SeqDef
<1>4. grown \in Seq(Nat)
    <2> HIDE DEF g
    <2> QED
        BY <1>3, ConcatProperties
<1>5. ASSUME Overrun(lvl, t) PROVE Resized(grown, conf.max \div conf.rate) \in Seq(Nat)
    <2>1. conf.rate \in Nat \ {0}
        <3>1. SUFFICES ASSUME conf.rate = 0 PROVE FALSE
            BY <1>1
        <3>2. Amount(t) = 0
            BY <3>1 DEF Amount, Drawing
        <3> QED
            BY <1>1, <1>5, <3>2 DEF Overrun
    <2> DEFINE n == conf.max \div conf.rate
    <2>2. n \in Nat
        BY <1>1, <2>1, Division
    <2> HIDE DEF n, grown
    <2>3. Len(grown) \in Nat /\ \A i \in 1 .. Len(grown) : grown[i] \in Nat
        BY <1>4, LenProperties
    <2>4. \A i \in 1 .. n : (IF i <= Len(grown) THEN grown[i] ELSE 0) \in Nat
        <3>1. \A i \in 1 .. n : i <= Len(grown) => i \in 1 .. Len(grown)
            BY <2>2, <2>3
        <3> QED
            BY <2>3, <3>1
    <2>5. Resized(grown, n) \in [1 .. n -> Nat]
        BY <2>4 DEF Resized
    <2>6. Resized(grown, n) \in Seq(Nat)
        BY <2>2, <2>5, SeqDef
    <2> QED
        BY <2>6 DEF n
<1>6. << >> \in Seq(Nat)
    BY EmptySeq
<1>7. \/ TrackerAfter(lvl, t) = tracker
      \/ TrackerAfter(lvl, t) = << >>
      \/ TrackerAfter(lvl, t) = grown
      \/ (Overrun(lvl, t) /\ TrackerAfter(lvl, t) = Resized(grown, conf.max \div conf.rate))
    <2>1. TrackerAfter(lvl, t) = IF ~conf.tracked THEN tracker
                                 ELSE IF Underrun(lvl, t) THEN << >>
                                 ELSE IF Overrun(lvl, t) THEN Resized(grown, conf.max \div conf.rate)
                                 ELSE grown
        BY DEF TrackerAfter
    <2> HIDE DEF grown, g
    <2> QED
        BY <2>1
<1> HIDE DEF grown, g
<1> QED
    BY <1>4, <1>5, <1>6, <1>7

LEMMA ConsumedType ==
    ASSUME NEW s \in Seq(Nat), NEW n \in Nat
    PROVE  Consumed(s, n) \in Seq(Nat)
<1>1. Total(s) \in Nat
    BY PrefixIs
<1>2. CASE n <= Total(s)
    BY <1>2, ConsumedShape
<1>3. CASE Total(s) < n
    <2>1. n # 0
        BY <1>1, <1>3
    <2>2. Consumed(s, n) = << >>
        BY <1>3, <2>1 DEF Consumed
    <2> QED
        BY <2>2, EmptySeq
<1> QED
    BY <1>1, <1>2, <1>3

\* Sequences of no entries.
LEMMA NoEntries ==
    /\ << >> \in Seq(Nat) /\ << >> \in Seq(Nat \ {0}) /\ << >> \in Seq(Requests)
    /\ Len(<< >>) = 0 /\ Total(<< >>) = 0 /\ Total(Lefts(<< >>)) = 0
    /\ LinedUp(<< >>, << >>, 0, 0, 0) /\ 1 .. Len(<< >>) = {}
<1>1. /\ << >> \in Seq(Nat) /\ << >> \in Seq(Nat \ {0}) /\ << >> \in Seq(Requests)
      /\ Len(<< >>) = 0 /\ 1 .. Len(<< >>) = {}
    BY EmptySeq
<1>2. Total(<< >>) = 0
    BY <1>1, PrefixIs
<1>3. Lefts(<< >>) \in Seq(Nat) /\ Len(Lefts(<< >>)) = 0
    BY <1>1, LeftsType
<1>4. Total(Lefts(<< >>)) = 0
    <2> HIDE DEF Lefts
    <2> QED
        BY <1>3, PrefixIs
<1>5. LinedUp(<< >>, << >>, 0, 0, 0)
    BY <1>1 DEF LinedUp
<1> QED
    BY <1>1, <1>2, <1>4, <1>5

LEMMA InitBooks == Init => Books
<1> SUFFICES ASSUME Init PROVE Books
    OBVIOUS
<1>1. /\ tracker = << >> /\ ot = << >> /\ requests = << >> /\ profileOt = 0 /\ requestTime = 0
      /\ overtaken = FALSE /\ inFlight = 0
    BY DEF Init
<1>a. Shaped
    <2>1. /\ tracker \in Seq(Nat) /\ ot \in Seq(Nat \ {0}) /\ requests \in Seq(Requests)
          /\ 1 .. Len(requests) = {} /\ Len(ot) = 0
        BY <1>1, NoEntries
    <2>2. \A i \in 1 .. Len(requests) : requests[i].left <= requests[i].size
        BY <2>1
    <2>3. profileOt \in Nat /\ Len(ot) <= profileOt /\ requestTime \in Int /\ overtaken \in BOOLEAN
        <3>1. profileOt = 0 /\ requestTime = 0 /\ Len(ot) = 0
            BY <1>1, <2>1
        <3>2. profileOt \in Nat /\ Len(ot) <= profileOt /\ requestTime \in Int
            BY <3>1
        <3>3. overtaken \in BOOLEAN
            BY <1>1, Zenon
        <3> QED
            BY <3>2, <3>3
    <2> QED
        BY <2>1, <2>2, <2>3 DEF Shaped
<1>b. Balanced
    BY <1>1, NoEntries DEF Balanced
<1>2. InLines
    BY NoEntries DEF Init, InLines
<1>3. Rated
    BY DEF Init, Rated, RateExact, Linked
<1> QED
    BY <1>a, <1>b, <1>2, <1>3 DEF Books

LEMMA GrantBooks ==
    ASSUME IInv, Books, NEW t \in now .. MaxTime, NEW data \in Sizes, Grant(t, data)
    PROVE  Books'
<1> DEFINE x == [size |-> data, left |-> data]
<1>1. /\ data \in Nat \ {0} /\ t \in Nat /\ now <= t /\ level \in Nat /\ inFlight \in Nat
      /\ conf.period \in Nat \ {0} /\ conf.rate \in Nat
    BY SizesAssumption, BoundsAssumption, ConfType DEF IInv, NumbersOK
<1>2. /\ Update(t) /\ inFlight' = inFlight + data /\ ot' = Append(ot, data)
      /\ tracker' = IF conf.rate > 0 THEN Consumed(TrackerAfter(level, t), data)
                                     ELSE TrackerAfter(level, t)
      /\ requestTime' = RequestTime(t, tracker') /\ profileOt' = profileOt + 1
      /\ requests' = Append(requests, x)
      /\ UNCHANGED <<conf, waits, overtaken>>
    BY DEF Grant
<1> HIDE DEF x
<1>3. /\ tracker \in Seq(Nat) /\ ot \in Seq(Nat \ {0}) /\ requests \in Seq(Requests)
      /\ \A i \in 1 .. Len(requests) : requests[i].left <= requests[i].size
      /\ profileOt \in Nat /\ Len(ot) <= profileOt /\ Len(ot) \in Nat /\ Len(requests) \in Nat
    BY LenProperties DEF Books, Shaped
<1>4. x \in Requests /\ x.left = data /\ x.size = data
    BY <1>1 DEF x, Requests
<1>5. tracker' \in Seq(Nat)
    <2>1. ~Reading => level <= conf.max
        BY DEF IInv, Capacity
    <2>2. TrackerAfter(level, t) \in Seq(Nat)
        BY <1>1, <1>3, <2>1, TrackerType
    <2>3. Consumed(TrackerAfter(level, t), data) \in Seq(Nat)
        BY <1>1, <2>2, ConsumedType
    <2> QED
        BY <1>2, <2>2, <2>3
<1>6. requestTime' \in Int
    <2>1. Len(tracker') \in Nat
        BY <1>5, LenProperties
    <2>2. (Len(tracker') - 1) * conf.period \in Int
        BY <1>1, <2>1
    <2> QED
        BY <1>1, <1>2, <2>2 DEF RequestTime
<1>7. /\ ot' \in Seq(Nat \ {0}) /\ Len(ot') = Len(ot) + 1
      /\ requests' \in Seq(Requests) /\ Len(requests') = Len(requests) + 1
      /\ requests'[Len(requests) + 1] = x
      /\ \A i \in 1 .. Len(requests) : requests'[i] = requests[i]
    <2>1. /\ Append(requests, x) \in Seq(Requests) /\ Len(Append(requests, x)) = Len(requests) + 1
          /\ Append(requests, x)[Len(requests) + 1] = x
          /\ \A i \in 1 .. Len(requests) : Append(requests, x)[i] = requests[i]
        BY <1>3, <1>4, AppendProperties
    <2>2. Append(ot, data) \in Seq(Nat \ {0}) /\ Len(Append(ot, data)) = Len(ot) + 1
        BY <1>1, <1>3, AppendProperties
    <2> QED
        BY <1>2, <2>1, <2>2
<1>8. Shaped'
    <2>1. \A i \in 1 .. Len(requests') : requests'[i].left <= requests'[i].size
        <3>1. \A i \in 1 .. Len(requests') : i = Len(requests) + 1 \/ i \in 1 .. Len(requests)
            BY <1>3, <1>7
        <3>2. x.left <= x.size
            BY <1>1, <1>4
        <3> QED
            BY <1>3, <1>7, <3>1, <3>2
    <2>2. profileOt' \in Nat /\ Len(ot') <= profileOt' /\ overtaken' \in BOOLEAN
        BY <1>2, <1>3, <1>7 DEF Books, Shaped
    <2> QED
        BY <1>5, <1>6, <1>7, <2>1, <2>2 DEF Shaped
<1>9. Balanced'
    <2>1. ot \in Seq(Nat)
        <3>1. Nat \ {0} \subseteq Nat
            OBVIOUS
        <3> QED
            BY <1>3, <3>1, SeqMonotonic
    <2>2. Total(ot') = Total(ot) + data
        BY <1>1, <1>2, <2>1, TotalAppended
    <2>3. Lefts(requests') = Append(Lefts(requests), data)
        <3> DEFINE s == Lefts(requests)
                   r == Lefts(requests')
        <3>1. /\ s \in Seq(Nat) /\ Len(s) = Len(requests)
              /\ \A i \in 1 .. Len(requests) : s[i] = requests[i].left
              /\ r \in Seq(Nat) /\ Len(r) = Len(requests')
              /\ \A i \in 1 .. Len(requests') : r[i] = requests'[i].left
            BY <1>3, <1>7, LeftsType
        <3> HIDE DEF s, r
        <3>2. /\ Append(s, data) \in Seq(Nat) /\ Len(Append(s, data)) = Len(s) + 1
              /\ Append(s, data)[Len(s) + 1] = data
              /\ \A i \in 1 .. Len(s) : Append(s, data)[i] = s[i]
            BY <1>1, <3>1, AppendProperties
        <3>3. \A i \in 1 .. Len(r) : r[i] = Append(s, data)[i]
            <4>1. TAKE i \in 1 .. Len(r)
            <4>2. CASE i = Len(requests) + 1
                <5>1. i \in 1 .. Len(requests') /\ requests'[i].left = data
                    BY <1>4, <1>7, <3>1, <4>2
                <5> QED
                    BY <3>1, <3>2, <4>2, <5>1
            <4>3. CASE i # Len(requests) + 1
                <5>1. i \in 1 .. Len(requests) /\ i \in 1 .. Len(requests')
                    BY <1>3, <1>7, <3>1, <4>3
                <5> QED
                    BY <1>7, <3>1, <3>2, <5>1
            <4> QED
                BY <4>2, <4>3
        <3>4. Len(r) = Len(Append(s, data))
            BY <1>7, <3>1, <3>2
        <3>5. r = Append(s, data)
            BY <3>1, <3>2, <3>3, <3>4, SeqEqual
        <3> QED
            BY <3>5 DEF s, r
    <2>4. Total(Lefts(requests')) = Total(Lefts(requests)) + data
        BY <1>1, <1>3, <2>3, LeftsType, TotalAppended
    <2> QED
        BY <1>2, <2>2, <2>4 DEF Books, Balanced
<1>10. InLines'
    <2>1. SUFFICES ASSUME ~overtaken
                   PROVE  /\ profileOt' = Len(ot')
                          /\ \E m, k : \E z \in Nat : LinedUp(requests', ot', m, k, z)
        BY <1>2 DEF InLines
    <2>2. profileOt = Len(ot) /\ \E m, k : \E z \in Nat : LinedUp(requests, ot, m, k, z)
        BY <2>1 DEF Books, InLines
    <2>3. PICK m, k : \E z \in Nat : LinedUp(requests, ot, m, k, z)
        BY <2>2
    <2>4. PICK z \in Nat : LinedUp(requests, ot, m, k, z)
        BY <2>3
    <2>5. LinedUp(requests', ot', m, k, z)
        BY <1>1, <1>2, <1>3, <2>4, LinedGrant DEF x
    <2> QED
        BY <1>2, <1>7, <2>2, <2>5
<1>11. Rated'
    BY <1>1, <1>2, RatedUpdate DEF Books
<1> QED
    BY <1>8, <1>9, <1>10, <1>11 DEF Books

LEMMA RefuseBooks ==
    ASSUME IInv, Books, NEW t \in now .. MaxTime, NEW data \in Sizes, Refuse(t, data)
    PROVE  Books'
<1>1. t \in Nat /\ now <= t /\ level \in Nat
    BY BoundsAssumption DEF IInv, NumbersOK
<1>2. /\ Update(t) /\ tracker' = TrackerAfter(level, t) /\ requestTime' = t
      /\ UNCHANGED <<conf, waits, inFlight, ot, profileOt, requests, overtaken>>
    BY DEF Refuse
<1>3. tracker' \in Seq(Nat)
    <2>1. ~Reading => level <= conf.max
        BY DEF IInv, Capacity
    <2> QED
        BY <1>1, <1>2, <2>1, TrackerType DEF Books, Shaped
<1>4. Shaped'
    BY <1>1, <1>2, <1>3 DEF Books, Shaped
<1>5. Balanced' /\ InLines'
    BY <1>2 DEF Books, Balanced, InLines
<1>6. Rated'
    BY <1>1, <1>2, RatedUpdate DEF Books
<1> QED
    BY <1>4, <1>5, <1>6 DEF Books

LEMMA AnswerBooks ==
    ASSUME IInv, Books, NEW t \in now .. MaxTime, NEW i \in 1 .. Len(requests),
           NEW data \in 1 .. requests[i].left, Answer(t, i, data)
    PROVE  Books'
<1>1. /\ t \in Nat /\ now <= t /\ level \in Nat /\ inFlight \in Nat /\ conf.max \in Nat
      /\ data \in Nat \ {0} /\ data <= inFlight
    <2>1. {now, level, inFlight} \subseteq Nat /\ conf \in Configs
        BY DEF IInv, NumbersOK
    <2>2. t \in Nat /\ now <= t
        BY <2>1, BoundsAssumption
    <2>3. conf.max \in Nat
        BY <2>1, ConfType
    <2>4. data <= inFlight
        BY DEF Answer
    <2>5. data \in Nat \ {0}
        OBVIOUS
    <2> QED
        BY <2>1, <2>2, <2>3, <2>4, <2>5
<1>2. /\ Update(t) /\ inFlight' = Landed(data) /\ ot' = Consumed(ot, data)
      /\ tracker' = TrackerAfter(Answered(data), t)
      /\ profileOt' = profileOt - IF Whole(ot, ot') THEN 1 ELSE 0
      /\ overtaken' = (overtaken \/ \E j \in 1 .. i - 1 : requests[j].size # requests[i].size)
      /\ UNCHANGED <<conf, waits, requestTime>>
    BY DEF Answer
<1>3. Reduced(requests', requests, i, data)
    BY DEF Answer, Reduced
<1>4. /\ tracker \in Seq(Nat) /\ ot \in Seq(Nat \ {0}) /\ requests \in Seq(Requests)
      /\ \A j \in 1 .. Len(requests) : requests[j].left <= requests[j].size
      /\ profileOt \in Nat /\ Len(ot) <= profileOt /\ Len(ot) \in Nat /\ Len(requests) \in Nat
      /\ inFlight = Total(ot) /\ inFlight = Total(Lefts(requests))
    BY LenProperties DEF Books, Shaped, Balanced
<1>5. ot \in Seq(Nat)
    <2>1. Nat \ {0} \subseteq Nat
        OBVIOUS
    <2> QED
        BY <1>4, <2>1, SeqMonotonic
<1>6. /\ inFlight' = inFlight - data /\ Answered(data) \in Nat
      /\ ~Reading => Answered(data) <= conf.max
    BY <1>1, <1>2, AnswerInFull
<1>7. ot' \in Seq(Nat) /\ \E e \in 0 .. Len(ot) : Leaves(ot', ot, data, e)
    BY <1>1, <1>2, <1>4, <1>5, ConsumedShape
<1>8. PICK e \in 0 .. Len(ot) : Leaves(ot', ot, data, e)
    BY <1>7
<1>9. Len(ot') = Len(ot) - e /\ profileOt' = profileOt - (IF e > 0 THEN 1 ELSE 0)
    <2>1. Len(ot') = Len(ot) - e
        BY <1>8 DEF Leaves
    <2>2. Len(ot') < Len(ot) <=> e > 0
        BY <1>4, <2>1
    <2> QED
        BY <1>2, <2>1, <2>2 DEF Whole
<1>10. Shaped'
    <2>1. tracker' \in Seq(Nat)
        BY <1>1, <1>2, <1>4, <1>6, TrackerType
    <2>2. ot' \in Seq(Nat \ {0})
        BY <1>1, <1>4, <1>7, <1>8, LeavesPositive
    <2>3. requests' \in Seq(Requests)
        BY <1>3, <1>4, ReducedShape
    <2>4. \A j \in 1 .. Len(requests') : requests'[j].left <= requests'[j].size
        <3>1. requests[i].left \in Nat \ {0} /\ requests[i].size \in Nat \ {0}
            BY <1>4, LeftsType
        <3>2. CASE data < requests[i].left
            <4>1. /\ Len(requests') = Len(requests)
                  /\ \A j \in 1 .. Len(requests) : /\ requests'[j].size = requests[j].size
                                                   /\ j # i => requests'[j].left = requests[j].left
                  /\ requests'[i].left = requests[i].left - data
                BY <1>3, <1>4, <3>2, ReducedShape
            <4>2. requests'[i].left <= requests'[i].size
                BY <1>4, <3>1, <4>1
            <4> QED
                BY <1>4, <4>1, <4>2
        <3>3. CASE data = requests[i].left
            <4>1. /\ Len(requests') = Len(requests) - 1
                  /\ \A j \in 1 .. Len(requests) - 1 :
                        requests'[j] = IF j < i THEN requests[j] ELSE requests[j + 1]
                BY <1>3, <1>4, <3>3, ReducedShape
            <4>2. \A j \in 1 .. Len(requests) - 1 : j \in 1 .. Len(requests) /\ j + 1 \in 1 .. Len(requests)
                BY <1>4
            <4> QED
                BY <1>4, <4>1, <4>2
        <3> QED
            BY <3>1, <3>2, <3>3
    <2>5. profileOt' \in Nat /\ Len(ot') <= profileOt'
        BY <1>4, <1>9
    <2>6. requestTime' \in Int /\ overtaken' \in BOOLEAN
        BY <1>2 DEF Books, Shaped
    <2> QED
        BY <2>1, <2>2, <2>3, <2>4, <2>5, <2>6 DEF Shaped
<1>11. Balanced'
    <2>1. Total(ot') = Total(ot) - data
        <3>1. ot \in Seq(Nat) /\ ot' \in Seq(Nat) /\ data \in Nat /\ data <= Total(ot)
            BY <1>1, <1>4, <1>5, <1>7
        <3> QED
            BY <1>8, <3>1, LeavesTotal
    <2>2. Total(Lefts(requests')) = Total(Lefts(requests)) - data
        BY <1>3, <1>4, ReducedTotal
    <2> QED
        BY <1>4, <1>6, <2>1, <2>2 DEF Balanced
<1>12. InLines'
    <2>1. SUFFICES ASSUME ~overtaken, \A j \in 1 .. i - 1 : requests[j].size = requests[i].size
                   PROVE  /\ profileOt' = Len(ot')
                          /\ \E m, k : \E z \in Nat : LinedUp(requests', ot', m, k, z)
        BY <1>2 DEF InLines
    <2>2. profileOt = Len(ot) /\ \E m, k : \E z \in Nat : LinedUp(requests, ot, m, k, z)
        BY <2>1 DEF Books, InLines
    <2>3. PICK m, k : \E z \in Nat : LinedUp(requests, ot, m, k, z)
        BY <2>2
    <2>4. PICK z \in Nat : LinedUp(requests, ot, m, k, z)
        BY <2>3
    <2>5. Total(Lefts(requests)) = Total(ot)
        BY <1>4
    <2> DEFINE y == requests[i].size
    <2>6. \E n \in i .. Len(requests) : \E l : LinedUp(requests, ot, n, l, y)
        BY <1>4, <2>1, <2>4, <2>5, Widened
    <2>7. y \in Nat
        BY <1>4, LeftsType
    <2>8. requests[i].left <= requests[i].size
        BY <1>4
    <2> HIDE DEF y
    <2>9. PICK n \in i .. Len(requests) : \E l : LinedUp(requests, ot, n, l, y)
        BY <2>6
    <2>10. PICK l : LinedUp(requests, ot, n, l, y)
        BY <2>9
    <2>11. i \in 1 .. n
        BY <1>4
    <2>12. e <= 1 /\ \E m2, k2 : LinedUp(requests', ot', m2, k2, y)
        BY <1>3, <1>4, <1>7, <1>8, <2>5, <2>7, <2>8, <2>10, <2>11, LinedAnswer
    <2>13. profileOt' = Len(ot')
        BY <1>4, <1>9, <2>2, <2>12
    <2> QED
        BY <2>7, <2>12, <2>13
<1>13. Rated'
    BY <1>1, <1>2, RatedUpdate DEF Books
<1> QED
    BY <1>10, <1>11, <1>12, <1>13 DEF Books

LEMMA ResetBooks == IInv /\ Books /\ Reset => Books'
<1> SUFFICES ASSUME IInv, Books, Reset PROVE Books'
    OBVIOUS
<1>1. /\ requests = << >> /\ requests' = << >> /\ tracker' = << >> /\ ot' = << >>
      /\ inFlight' = 0 /\ profileOt' = 0 /\ requestTime' = requestTime /\ overtaken' = FALSE
      /\ conf' = conf /\ waits' = waits /\ active' = FALSE /\ firstActivation' = FALSE
      /\ drawn' = 0 /\ rounded' = 0 /\ carry' = 0
    BY DEF Reset
<1>2. Shaped'
    <2>1. /\ tracker' \in Seq(Nat) /\ ot' \in Seq(Nat \ {0}) /\ requests' \in Seq(Requests)
          /\ 1 .. Len(requests') = {} /\ Len(ot') = 0
        BY <1>1, NoEntries
    <2>2. \A i \in 1 .. Len(requests') : requests'[i].left <= requests'[i].size
        BY <2>1
    <2>3. requestTime' \in Int
        BY <1>1 DEF Books, Shaped
    <2>4. profileOt' \in Nat /\ Len(ot') <= profileOt' /\ overtaken' \in BOOLEAN
        <3>1. profileOt' = 0 /\ Len(ot') = 0
            BY <1>1, <2>1
        <3>2. profileOt' \in Nat /\ Len(ot') <= profileOt'
            BY <3>1
        <3>3. overtaken' \in BOOLEAN
            BY <1>1, Zenon
        <3> QED
            BY <3>2, <3>3
    <2> QED
        BY <2>1, <2>2, <2>3, <2>4 DEF Shaped
<1>3. Balanced'
    BY <1>1, NoEntries DEF Balanced
<1>4. InLines'
    BY <1>1, NoEntries DEF InLines
<1>5. Rated'
    <2>1. Linked' = Linked
        BY <1>1 DEF Linked
    <2> QED
        BY <1>1, <2>1 DEF Books, Rated, RateExact
<1> QED
    BY <1>2, <1>3, <1>4, <1>5 DEF Books

LEMMA PartnerBooks ==
    ASSUME Books, \/ \E e \in LevelEvents : PartnerEvent(e)
                  \/ PartnerTerminates
                  \/ UNCHANGED vars
    PROVE  Books'
<1>1. /\ UNCHANGED <<conf, time, carry, tracker, ot, inFlight, firstActivation,
                     firstActivationTime, profileOt, requestTime, requests, drawn, rounded,
                     overtaken>>
      /\ waits = {} => waits' = {} /\ active' = active
    BY DEF PartnerEvent, PartnerTerminates, vars, state, history
<1>2. Shaped' /\ Balanced' /\ InLines'
    BY <1>1 DEF Books, Shaped, Balanced, InLines
<1>3. Linked' = Linked /\ (RateExact => RateExact')
    BY <1>1 DEF Linked, RateExact
<1>4. Rated'
    BY <1>1, <1>3 DEF Books, Rated
<1> QED
    BY <1>2, <1>4 DEF Books

\* The account is right in every behaviour of the FIFO.
THEOREM Accounting == Spec => []Books
<1>1. Init => Books
    BY InitBooks
<1>2. IInv /\ Books /\ [Next]_vars => Books'
    <2> SUFFICES ASSUME IInv, Books, [Next]_vars PROVE Books'
        OBVIOUS
    <2>1. ASSUME NEW t \in now .. MaxTime, NEW data \in Sizes, Grant(t, data) PROVE Books'
        BY <2>1, GrantBooks
    <2>2. ASSUME NEW t \in now .. MaxTime, NEW data \in Sizes, Refuse(t, data) PROVE Books'
        BY <2>2, RefuseBooks
    <2>3. ASSUME NEW t \in now .. MaxTime, NEW i \in 1 .. Len(requests),
                 NEW data \in 1 .. requests[i].left, Answer(t, i, data)
          PROVE  Books'
        BY <2>3, AnswerBooks
    <2> QED
        BY <2>1, <2>2, <2>3, ResetBooks, PartnerBooks DEF Next
<1> QED
    BY <1>1, <1>2, Invariance, PTL DEF Spec

\* The bytes in flight are those outstanding, the profile's count is the FIFO's
\* unless an answer has overtaken one of another size, and the rate is kept up
\* to rounding: for any sizes, and any order and division of the answers.
THEOREM AlwaysBytesExact == Spec => []BytesExact
<1>1. Books => BytesExact
    BY DEF Books, Balanced, InLines, Rated, BytesExact, InFlightIsOutstanding, OutstandingAgree,
           Lefts
<1> QED
    BY <1>1, Accounting, PTL

\* The state of the FIFO keeps its shape.
THEOREM AlwaysTypeOK == Spec => []TypeOK
<1>1. IInv /\ Books => TypeOK
    BY DEF IInv, Books, Shaped, Rated, TypeOK, Requests
<1> QED
    BY <1>1, Invariance, Accounting, PTL
=============================================================================
