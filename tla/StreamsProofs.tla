---------------------------- MODULE StreamsProofs ----------------------------
(***************************************************************************)
(* No two callers are given the same stream (Unique), each of them sends   *)
(* to its own buffers (OwnBuffers), and it sends what its configuration    *)
(* says (Addresses), for every root and every number of callers. The       *)
(* invariant IInv says where the descriptor of a moved profile may be: in  *)
(* its range and at or behind its base, with the ranges one after the      *)
(* other, as the running sums of Ends give them. Told says where it is     *)
(* after so many packets.                                                  *)
(***************************************************************************)
EXTENDS Streams, SequenceTheorems, WellFoundedInduction, TLAPS

(***************************************************************************)
(* Running sums: what the recursive function of Ends computes.             *)
(***************************************************************************)

LEMMA LeastOf ==
    ASSUME NEW T \in SUBSET Nat, T # {}
    PROVE  \E x \in T : \A y \in T : x <= y
<1>1. PICK x \in T : \A y \in T : ~(<<y, x>> \in OpToRel(<, Nat))
    BY NatLessThanWellFounded, WFMin
<1>2. \A y \in T : ~(y < x)
    BY <1>1 DEF OpToRel
<1>3. \A y \in T : x <= y
    BY <1>2
<1> QED
    BY <1>3

Summed(f, N, base, c) == f = [n \in 0..N |-> IF n = 0 THEN base ELSE f[n - 1] + c[n]]

LEMMA SumExists ==
    ASSUME NEW N \in Nat, NEW base \in Int, NEW c \in [1..N -> Nat]
    PROVE  \E f : Summed(f, N, base, c)
<1> DEFINE Bad == {n \in 0..N : ~\E f : Summed(f, n, base, c)}
<1>1. SUFFICES ASSUME Bad # {} PROVE FALSE
    <2>1. N \in 0..N
        OBVIOUS
    <2> QED
        BY <2>1
<1>2. PICK n \in Bad : \A m \in Bad : n <= m
    <2>1. Bad \in SUBSET Nat
        OBVIOUS
    <2> HIDE DEF Bad
    <2> QED
        BY <1>1, <2>1, LeastOf
<1>3. n # 0
    <2> DEFINE f == [m \in 0..0 |-> base]
    <2>1. f = [m \in 0..0 |-> IF m = 0 THEN base ELSE f[m - 1] + c[m]]
        OBVIOUS
    <2>2. Summed(f, 0, base, c)
        BY <2>1 DEF Summed
    <2> QED
        BY <1>2, <2>2
<1>4. n - 1 \in 0..N /\ n - 1 \notin Bad /\ n \in Nat
    BY <1>2, <1>3
<1>5. PICK g : Summed(g, n - 1, base, c)
    BY <1>4
<1> DEFINE h == [m \in 0..n |-> IF m = n THEN g[n - 1] + c[n] ELSE g[m]]
<1>6. \A m \in 0..n : h[m] = IF m = 0 THEN base ELSE h[m - 1] + c[m]
    <2>1. TAKE m \in 0..n
    <2>2. CASE m = n
        BY <1>3, <1>4, <2>2
    <2>3. CASE m # n
        <3>1. m \in 0..n - 1 /\ (m # 0 => m - 1 \in 0..n /\ m - 1 # n)
            BY <1>4, <2>3
        <3>2. h[m] = g[m] /\ (m # 0 => h[m - 1] = g[m - 1])
            BY <2>3, <3>1
        <3> HIDE DEF h
        <3> QED
            BY <1>5, <3>1, <3>2 DEF Summed
    <2> QED
        BY <2>2, <2>3
<1>7. h = [m \in 0..n |-> IF m = 0 THEN base ELSE h[m - 1] + c[m]]
    BY <1>6
<1>8. Summed(h, n, base, c)
    BY <1>7 DEF Summed
<1> QED
    BY <1>2, <1>8

LEMMA SumGrows ==
    ASSUME NEW N \in Nat, NEW base \in Int, NEW c \in [1..N -> Nat], NEW f, Summed(f, N, base, c)
    PROVE  /\ f[0] = base
           /\ \A n \in 0..N : f[n] \in Int
           /\ \A n \in 1..N : f[n] = f[n - 1] + c[n]
           /\ \A m, n \in 0..N : m <= n => f[m] <= f[n]
<1>1. f[0] = base /\ \A n \in 1..N : f[n] = f[n - 1] + c[n]
    BY DEF Summed
<1>2. \A n \in 0..N : f[n] \in Int
    <2> DEFINE Bad == {n \in 0..N : f[n] \notin Int}
    <2>1. SUFFICES ASSUME Bad # {} PROVE FALSE
        OBVIOUS
    <2>2. PICK n \in Bad : \A m \in Bad : n <= m
        <3>1. Bad \in SUBSET Nat
            OBVIOUS
        <3> HIDE DEF Bad
        <3> QED
            BY <2>1, <3>1, LeastOf
    <2>3. n # 0
        BY <1>1, <2>2
    <2>4. n - 1 \in 0..N /\ n - 1 \notin Bad /\ n \in 1..N
        BY <2>2, <2>3
    <2> QED
        BY <1>1, <2>2, <2>4
<1>3. \A m, n \in 0..N : m <= n => f[m] <= f[n]
    <2>1. TAKE m \in 0..N
    <2> DEFINE Bad == {n \in 0..N : m <= n /\ ~(f[m] <= f[n])}
    <2>2. SUFFICES ASSUME Bad # {} PROVE FALSE
        OBVIOUS
    <2>3. PICK n \in Bad : \A k \in Bad : n <= k
        <3>1. Bad \in SUBSET Nat
            OBVIOUS
        <3> HIDE DEF Bad
        <3> QED
            BY <2>2, <3>1, LeastOf
    <2>4. n # m
        BY <1>2, <2>3
    <2>5. n - 1 \in 0..N /\ n - 1 \notin Bad /\ n \in 1..N /\ m <= n - 1
        BY <2>3, <2>4
    <2>6. f[m] <= f[n - 1] /\ f[n] = f[n - 1] + c[n] /\ c[n] \in Nat
        BY <1>1, <2>5
    <2>7. f[m] \in Int /\ f[n - 1] \in Int
        BY <1>2, <2>5
    <2> QED
        BY <2>3, <2>6, <2>7
<1> QED
    BY <1>1, <1>2, <1>3

LEMMA EndsGrow ==
    ASSUME NEW d, NEW type, NEW base \in Int, conf.stream \in Seq(StreamProfile),
           \A i \in Nodes : Of(i).type = type => AutoRange(d[i], Of(i).toSend) \in Nat
    PROVE  LET end == Ends(d, type, base)
               N == Len(conf.stream)
           IN /\ end[0] = base
              /\ \A n \in 0..N : end[n] \in Int
              /\ \A n \in 1..N : end[n] = end[n - 1] +
                    IF Of(n).type = type THEN AutoRange(d[n], Of(n).toSend) ELSE 0
              /\ \A m, n \in 0..N : m <= n => end[m] <= end[n]
<1> DEFINE N == Len(conf.stream)
           c == [n \in 1..N |-> IF Of(n).type = type THEN AutoRange(d[n], Of(n).toSend) ELSE 0]
           end == Ends(d, type, base)
<1>1. N \in Nat /\ Nodes = 1..N
    BY LenProperties DEF Nodes
<1>2. c \in [1..N -> Nat]
    BY <1>1
<1>3. PICK f : Summed(f, N, base, c)
    BY <1>1, <1>2, SumExists
<1>4. \A g : Summed(g, N, base, c) <=>
          g = [n \in 0..N |-> IF n = 0 THEN base
                ELSE g[n - 1] + IF Of(n).type = type THEN AutoRange(d[n], Of(n).toSend) ELSE 0]
    <2>1. TAKE g
    <2>2. [n \in 0..N |-> IF n = 0 THEN base ELSE g[n - 1] + c[n]]
          = [n \in 0..N |-> IF n = 0 THEN base
                ELSE g[n - 1] + IF Of(n).type = type THEN AutoRange(d[n], Of(n).toSend) ELSE 0]
        <3>1. \A n \in 0..N : n # 0 => n \in 1..N
            BY <1>1
        <3> QED
            BY <3>1
    <2> QED
        BY <2>2 DEF Summed
<1>5. end = CHOOSE g : g = [n \in 0..N |-> IF n = 0 THEN base
                ELSE g[n - 1] + IF Of(n).type = type THEN AutoRange(d[n], Of(n).toSend) ELSE 0]
    BY DEF Ends
<1> HIDE DEF end, c
<1>6. Summed(end, N, base, c)
    BY <1>3, <1>4, <1>5
<1>7. /\ end[0] = base
      /\ \A n \in 0..N : end[n] \in Int
      /\ \A n \in 1..N : end[n] = end[n - 1] + c[n]
      /\ \A m, n \in 0..N : m <= n => end[m] <= end[n]
    BY <1>1, <1>2, <1>6, SumGrows
<1> QED
    BY <1>7 DEF end, c

(***************************************************************************)
(* Descriptors.                                                            *)
(***************************************************************************)

Where == {"next", "strides", "count", "from"}
Fields == {"random", "base", "increment", "range", "start", "size", "striding", "strideN",
           "strideInc", "strideRange"} \cup Where

\* A stride holds a packet.
Strides(p) == p.striding => \/ p.strideRange = 0 /\ p.strideN > 0
                            \/ p.strideN = 0 /\ p.strideInc \in 1..p.strideRange

Shaped(d) ==
    /\ d = [f \in Fields |-> d[f]]
    /\ d.random \in BOOLEAN /\ d.striding \in BOOLEAN
    /\ d.base \in Nat /\ d.increment \in Nat /\ d.range \in Nat /\ d.start \in Nat
    /\ d.size \in Nat \ {0} /\ d.strideN \in Nat /\ d.strideInc \in Nat /\ d.strideRange \in Nat
    /\ d.next \in Nat /\ d.strides \in Nat /\ d.count \in Nat /\ d.from \in Nat
    /\ Strides(d)

\* Descriptors that differ in where they are.
Alike(d, x) ==
    /\ x.random = d.random /\ x.striding = d.striding
    /\ x.base = d.base /\ x.increment = d.increment /\ x.range = d.range /\ x.start = d.start
    /\ x.size = d.size /\ x.strideN = d.strideN /\ x.strideInc = d.strideInc
    /\ x.strideRange = d.strideRange

LEMMA AtShaped ==
    ASSUME NEW d, Shaped(d), NEW a \in Nat, NEW n \in Nat
    PROVE  /\ Shaped(At(d, a, n)) /\ Alike(d, At(d, a, n))
           /\ At(d, a, n).next = a /\ At(d, a, n).from = a
    BY DEF Shaped, Alike, At, Fields, Where, Strides

LEMMA MovedShaped ==
    ASSUME NEW d, Shaped(d), NEW b \in Nat, NEW r \in Nat
    PROVE  /\ Shaped(Moved(d, b, r))
           /\ Moved(d, b, r).base = b /\ Moved(d, b, r).range = r
           /\ Moved(d, b, r).next = b /\ Moved(d, b, r).from = b
    BY DEF Shaped, Moved, At, Fields, Where, Strides

LEMMA IsDescriptor ==
    ASSUME NEW d, Shaped(d)
    PROVE  Descriptor(d)
    BY DEF Shaped, Descriptor, Fields, Where, Pattern, Position

LEMMA ProductNat ==
    ASSUME NEW a \in Nat, NEW b \in Nat
    PROVE  a * b \in Nat
    OBVIOUS

LEMMA RangeType ==
    ASSUME NEW d, Shaped(d), NEW t \in Nat, t > 0
    PROVE  RangeNeeded(d, t) \in Nat
<1>1. CASE ~d.striding
    BY <1>1, ProductNat DEF RangeNeeded, Shaped
<1>2. CASE d.random
    BY <1>2, ProductNat DEF RangeNeeded, Shaped
<1>3. CASE d.striding /\ ~d.random
    <2> DEFINE packets == IF d.strideRange > 0 THEN d.strideRange \div d.strideInc ELSE d.strideN
               space == IF d.strideRange > 0 THEN d.strideRange ELSE d.strideInc * (d.strideN - 1)
               left == t % packets
               gap == IF d.increment > space THEN d.increment - space ELSE 0
               q == t \div packets
    <2>1. packets \in Nat /\ packets > 0
        BY <1>3 DEF Shaped, Strides
    <2>2. space \in Nat /\ gap \in Nat /\ d.strideInc \in Nat
        <3>1. d.strideN > 0 => d.strideInc * (d.strideN - 1) \in Nat
            BY ProductNat DEF Shaped
        <3> QED
            BY <1>3, <3>1 DEF Shaped, Strides
    <2> HIDE DEF packets
    <2>3. left \in Nat /\ q \in Nat /\ (q = 0 => left = t)
        BY <2>1
    <2> HIDE DEF space, gap, left, q
    <2>4. RangeNeeded(d, t) = (q - 1) * (space + gap) + space + IF left > 0 THEN left * d.strideInc + gap ELSE 0
        BY <1>3 DEF RangeNeeded, packets, space, gap, left, q
    <2>5. left * d.strideInc \in Nat
        BY <2>2, <2>3, ProductNat
    <2>6. CASE q = 0
        <3>1. left > 0
            BY <2>3, <2>6
        <3>2. (q - 1) * (space + gap) = 0 - (space + gap)
            BY <2>2, <2>6
        <3> QED
            BY <2>2, <2>4, <2>5, <3>1, <3>2
    <2>7. CASE q > 0
        <3>1. (q - 1) * (space + gap) \in Nat
            BY <2>2, <2>3, <2>7, ProductNat
        <3> QED
            BY <2>2, <2>4, <2>5, <3>1
    <2> QED
        BY <2>3, <2>6, <2>7
<1> QED
    BY <1>1, <1>2, <1>3 DEF Shaped

LEMMA AutoRangeType ==
    ASSUME NEW d, Shaped(d), NEW t \in Nat
    PROVE  AutoRange(d, t) \in Nat
    BY RangeType DEF AutoRange, Shaped

\* A profile of which the range it needs is not empty is not given an empty one.
LEMMA AutoRangePositive ==
    ASSUME NEW d, Shaped(d), NEW t \in Nat, t > 0, RangeNeeded(d, t) > 0
    PROVE  AutoRange(d, t) > 0
<1>1. RangeNeeded(d, t) \in Nat /\ d.range \in Nat
    BY RangeType DEF Shaped
<1> QED
    BY <1>1 DEF AutoRange

\* What moving a descriptor leaves of its pattern.
Kept(p, d) ==
    /\ d.random = p.random /\ d.striding = p.striding /\ d.increment = p.increment
    /\ d.size = p.size /\ d.strideN = p.strideN /\ d.strideInc = p.strideInc
    /\ d.strideRange = p.strideRange

LEMMA KeptNeeds ==
    ASSUME NEW p, NEW d, Kept(p, d), NEW t
    PROVE  RangeNeeded(d, t) = RangeNeeded(p, t)
    BY DEF Kept, RangeNeeded

LEMMA InitialisedShaped ==
    ASSUME NEW p \in Pattern, Strides(p), NEW d \in Initialised(p)
    PROVE  Shaped(d) /\ Kept(p, d)
<1> DEFINE blank == [f \in DOMAIN p \cup {"next", "strides", "count", "from"} |->
                        IF f \in DOMAIN p THEN p[f] ELSE 0]
           first == IF p.random THEN RandomAddresses(p)
                    ELSE {IF p.start > 0 THEN p.start ELSE p.base}
<1>1. /\ DOMAIN blank = Fields
      /\ blank = [f \in Fields |-> blank[f]]
    BY DEF Pattern, Fields, Where
<1>2. /\ blank.random = p.random /\ blank.base = p.base /\ blank.increment = p.increment
      /\ blank.range = p.range /\ blank.start = p.start /\ blank.size = p.size
      /\ blank.striding = p.striding /\ blank.strideN = p.strideN
      /\ blank.strideInc = p.strideInc /\ blank.strideRange = p.strideRange
    BY DEF Pattern
<1>3. blank.next = 0 /\ blank.strides = 0 /\ blank.count = 0 /\ blank.from = 0
    BY DEF Pattern
<1>4. d \in {At(blank, a, FirstStride(p)) : a \in first}
    BY DEF Initialised
<1> HIDE DEF blank
<1>5. Shaped(blank)
    BY <1>1, <1>2, <1>3 DEF Shaped, Strides, Pattern
<1>6. first \subseteq Nat
    BY DEF RandomAddresses, Pattern
<1>7. FirstStride(p) \in Nat
    BY DEF FirstStride
<1> HIDE DEF first
<1>8. PICK a \in Nat : d = At(blank, a, FirstStride(p))
    BY <1>4, <1>6
<1>9. Shaped(d) /\ Alike(blank, d)
    BY <1>5, <1>7, <1>8, AtShaped
<1> QED
    BY <1>2, <1>9 DEF Alike, Kept

\* Where the next address may be: in the range, whatever the stride.
LEMMA AdvancedWithin ==
    ASSUME NEW d, Shaped(d), NEW x \in Advanced(d)
    PROVE  /\ Shaped(x) /\ Alike(d, x)
           /\ d.range > 0 /\ d.base <= d.next /\ d.base <= d.from
              => x.next \in d.base .. d.base + d.range - 1 /\ d.base <= x.from
<1> DEFINE within(y) == d.base <= d.next /\ d.base <= d.from => d.base <= y.next /\ d.base <= y.from
<1>1. PICK y \in Following(d) : x = IF Beyond(d, y.next) THEN Rewound(y) ELSE y
    BY DEF Advanced
<1>2. Shaped(y) /\ Alike(d, y) /\ within(y)
    <2>1. CASE InStride(d)
        <3>1. y = [d EXCEPT !.count = @ + 1, !.next = d.from + (d.count + 1) * d.strideInc]
            BY <1>1, <2>1 DEF Following
        <3>2. (d.count + 1) * d.strideInc \in Nat
            BY ProductNat DEF Shaped
        <3> DEFINE m == (d.count + 1) * d.strideInc
        <3> HIDE DEF m
        <3>3. y = [d EXCEPT !.count = d.count + 1, !.next = d.from + m] /\ m \in Nat
            BY <3>1, <3>2 DEF m
        <3>4. d.count + 1 \in Nat /\ d.from + m \in Nat /\ (d.base <= d.from => d.base <= d.from + m)
            BY <3>3 DEF Shaped
        <3>5. Shaped(y)
            BY <3>3, <3>4 DEF Shaped, Fields, Where, Strides
        <3>6. Alike(d, y) /\ y.next = d.from + m /\ y.from = d.from
            BY <3>3 DEF Shaped, Alike, Fields, Where
        <3> QED
            BY <3>4, <3>5, <3>6
    <2>2. CASE ~InStride(d)
        <3> DEFINE starts == IF d.random THEN RandomAddresses(d)
                             ELSE {IF d.striding THEN d.base + d.strides * d.increment
                                                 ELSE d.next + d.increment}
        <3>1. \A a \in starts : a \in Nat /\ (d.base <= d.next => d.base <= a)
            <4>1. d.strides * d.increment \in Nat
                BY ProductNat DEF Shaped
            <4> QED
                BY <4>1 DEF RandomAddresses, Shaped
        <3>2. y \in IF d.striding THEN {At(d, a, d.strides + 1) : a \in starts}
                                  ELSE {[d EXCEPT !.next = a] : a \in starts}
            BY <1>1, <2>2 DEF Following
        <3> HIDE DEF starts
        <3>3. CASE d.striding
            <4>1. PICK a \in starts : y = At(d, a, d.strides + 1)
                BY <3>2, <3>3
            <4>2. d.strides + 1 \in Nat
                BY DEF Shaped
            <4>3. a \in Nat /\ (d.base <= d.next => d.base <= a)
                BY <3>1, <4>1
            <4>4. Shaped(y) /\ Alike(d, y) /\ y.next = a /\ y.from = a
                BY <4>1, <4>2, <4>3, AtShaped
            <4> QED
                BY <4>3, <4>4
        <3>4. CASE ~d.striding
            <4>1. PICK a \in starts : y = [d EXCEPT !.next = a]
                BY <3>2, <3>4
            <4> QED
                BY <3>1, <4>1 DEF Shaped, Alike, Fields, Where, Strides
        <3> QED
            BY <3>3, <3>4
    <2> QED
        BY <2>1, <2>2
<1>3. CASE Beyond(d, y.next)
    <2>1. x = At(y, y.base, FirstStride(y)) /\ y.base \in Nat /\ FirstStride(y) \in Nat
        BY <1>1, <1>2, <1>3 DEF Rewound, FirstStride, Shaped
    <2>2. Shaped(x) /\ Alike(y, x) /\ x.next = y.base /\ x.from = y.base
        BY <1>2, <2>1, AtShaped
    <2> QED
        BY <1>2, <2>2 DEF Alike, Shaped
<1>4. CASE ~Beyond(d, y.next)
    BY <1>1, <1>2, <1>4 DEF Beyond, Shaped
<1> QED
    BY <1>3, <1>4

LEMMA RewoundWithin ==
    ASSUME NEW d, Shaped(d)
    PROVE  /\ Shaped(Rewound(d)) /\ Alike(d, Rewound(d))
           /\ Rewound(d).next = d.base /\ Rewound(d).from = d.base
<1>1. d.base \in Nat /\ FirstStride(d) \in Nat
    BY DEF Shaped, FirstStride
<1> QED
    BY <1>1, AtShaped DEF Rewound

(***************************************************************************)
(* The invariant.                                                          *)
(***************************************************************************)

\* The streams there are: the original and its clones.
Copies == IF clonedStreams > 0 THEN clonedStreams + 1 ELSE 1

\* One stream: its profiles f, of the patterns they were loaded with but for the
\* ranges they were given, and what each of them has sent.
Streamed(f, s) ==
    /\ f = [i \in Nodes |-> f[i]]
    /\ \A i \in Nodes : Shaped(f[i]) /\ Kept(Of(i).pattern, f[i])
    /\ s \in [Nodes -> Seq(Nat)]

Kinds ==
    /\ conf \in Configs
    /\ clonedStreams \in {None} \cup Nat
    /\ given \in [Callers -> {None} \cup Nat]
    /\ moved \in [Callers -> SUBSET Types]
    /\ exited \in BOOLEAN
    /\ desc = [n \in 1..Copies |-> desc[n]]
    /\ sent = [n \in 1..Copies |-> sent[n]]
    /\ \A n \in 1..Copies : Streamed(desc[n], sent[n])

\* A caller was given one of the streams there are, or has moved nothing.
Givens ==
    /\ \A k \in Callers : given[k] # None => clonedStreams # None /\ given[k] <= clonedStreams
    /\ \A k \in Callers : given[k] = None => moved[k] = {}
    /\ UniqueGiven

\* A profile of which the packets, if it has any, need room.
Roomy(i) == Of(i).toSend > 0 => RangeNeeded(Of(i).pattern, Of(i).toSend) > 0

\* Descriptor d, of the i-th profile, lies in the buffer and stays in its range.
Place(k, i, d) ==
    /\ BufferBase(k, Of(i).type) <= d.base
    /\ d.base + d.range <= BufferBase(k, Of(i).type) + conf.room
    /\ Of(i).toSend > 0 /\ Roomy(i)
       => d.next \in d.base .. d.base + d.range - 1 /\ d.base <= d.from

\* The profiles of the types m, which were moved, lie one after the other.
Apart(k, f, m) ==
    \A i \in Nodes : Of(i).type \in m =>
        /\ Place(k, i, f[i])
        /\ \A j \in Nodes :
               i < j /\ Of(j).type = Of(i).type => f[i].base + f[i].range <= f[j].base

Inside(k, s, m) ==
    m = Types => \A i \in Nodes : Roomy(i) => Range(s[i]) \subseteq Buffer(k, Of(i).type)

\* Nothing is sent until both types were moved.
Waiting(s, m) == m \notin {{}, Types} => s = Unsent(conf.stream)

Plays(k) ==
    given[k] # None =>
        /\ ~exited => Apart(k, desc[Own(k)], moved[k])
        /\ Inside(k, sent[Own(k)], moved[k])
        /\ Waiting(sent[Own(k)], moved[k])

IInv == Kinds /\ Givens /\ \A k \in Callers : Plays(k)

LEMMA MaxOf ==
    ASSUME NEW n \in {None} \cup Nat
    PROVE  Max({n, 0}) = IF n > 0 THEN n ELSE 0
<1>1. \E x \in {n, 0} : \A y \in {n, 0} : x >= y
    BY DEF None
<1> DEFINE x == CHOOSE x \in {n, 0} : \A y \in {n, 0} : x >= y
<1>2. x \in {n, 0} /\ \A y \in {n, 0} : x >= y
    BY <1>1
<1>3. Max({n, 0}) = x
    BY DEF Max
<1> HIDE DEF x
<1> QED
    BY <1>2, <1>3 DEF None

\* What is known of the configuration.
LEMMA ConfType ==
    ASSUME conf \in Configs
    PROVE  /\ conf.stream \in Seq(StreamProfile) /\ conf.room \in Nat
           /\ Nodes = 1..Len(conf.stream) /\ Len(conf.stream) \in Nat
           /\ \A i \in Nodes : /\ Of(i).type \in Types /\ Of(i).toSend \in Nat
                              /\ Of(i).pattern \in Pattern /\ Strides(Of(i).pattern)
<1>1. conf \in Configuration
    BY ConfigsAssumption
<1>2. conf.stream \in Seq(StreamProfile) /\ conf.room \in Nat
    BY <1>1 DEF Configuration
<1>3. Nodes = 1..Len(conf.stream) /\ Len(conf.stream) \in Nat
    BY <1>2, LenProperties DEF Nodes
<1>4. \A i \in Nodes : Of(i) \in StreamProfile
    BY <1>2, <1>3, ElementOfSeq DEF Of
<1>5. \A i \in Nodes : Strides(Of(i).pattern)
    BY ConfigsAssumption DEF Strides, Nodes, Of
<1> QED
    BY <1>2, <1>3, <1>4, <1>5 DEF StreamProfile

LEMMA BufferType ==
    ASSUME NEW k \in Callers, conf.room \in Nat
    PROVE  /\ BufferBase(k, "READ") \in Nat
           /\ BufferBase(k, "WRITE") = BufferBase(k, "READ") + conf.room
<1>1. k \in Nat
    BY CallersAssumption
<1>2. (2 * k) * conf.room \in Nat
    BY <1>1, ProductNat
<1>3. (2 * k + 1) * conf.room = (2 * k) * conf.room + conf.room
    BY <1>1
<1>4. (2 * k + 0) * conf.room = (2 * k) * conf.room
    BY <1>1
<1> QED
    BY <1>2, <1>3, <1>4 DEF BufferBase

LEMMA AppendTo ==
    ASSUME NEW N \in Nat, NEW q, q = [n \in 1..N |-> q[n]], NEW e
    PROVE  /\ Len(q) = N
           /\ Append(q, e) = [n \in 1..N + 1 |-> IF n = N + 1 THEN e ELSE q[n]]
<1> DEFINE S == {q[n] : n \in 1..N} \cup {e}
<1>1. \A n \in 1..N : q[n] \in S
    OBVIOUS
<1>2. e \in S
    OBVIOUS
<1> HIDE DEF S
<1>3. q \in [1..N -> S]
    BY <1>1
<1>4. q \in Seq(S) /\ Len(q) = N
    BY <1>3, SeqDef, LenProperties
<1>5. /\ Append(q, e) \in Seq(S) /\ Len(Append(q, e)) = N + 1
      /\ \A n \in 1..N : Append(q, e)[n] = q[n]
      /\ Append(q, e)[N + 1] = e
    BY <1>2, <1>4, AppendProperties
<1>6. Append(q, e) = [n \in 1..N + 1 |-> Append(q, e)[n]]
    BY <1>5, LenProperties
<1> QED
    BY <1>4, <1>5, <1>6

\* A caller's stream is one of those there are, and no other caller's.
LEMMA OwnOne ==
    ASSUME IInv, NEW k \in Callers, given[k] # None
    PROVE  /\ Own(k) \in 1..Copies
           /\ \A l \in Callers : l # k /\ given[l] # None => Own(l) # Own(k)
<1>1. given[k] \in Nat /\ given[k] <= clonedStreams /\ clonedStreams \in Nat
    BY DEF IInv, Kinds, Givens, None
<1>2. \A l \in Callers : given[l] # None => given[l] \in Nat
    BY DEF IInv, Kinds
<1>3. \A l \in Callers : l # k /\ given[l] # None => given[l] # given[k]
    BY DEF IInv, Givens, UniqueGiven
<1> QED
    BY <1>1, <1>2, <1>3 DEF Own, Copies

LEMMA InitHolds == Init => IInv
<1> SUFFICES ASSUME Init PROVE IInv
    OBVIOUS
<1>1. conf \in Configs
    BY DEF Init
<1>2. Copies = 1
    BY DEF Init, Copies, None
<1>3. PICK f \in Loaded(conf.stream) : desc = <<f>>
    BY DEF Init
<1>4. f = [i \in Nodes |-> f[i]] /\ \A i \in Nodes : f[i] \in Initialised(Of(i).pattern)
    BY DEF Loaded, Nodes, Of
<1>5. Streamed(f, Unsent(conf.stream))
    <2>1. Unsent(conf.stream) \in [Nodes -> Seq(Nat)]
        BY EmptySeq DEF Unsent, Nodes
    <2> QED
        BY <1>1, <1>4, <2>1, ConfType, InitialisedShaped DEF Streamed
<1>6. Kinds
    <2>1. desc = [n \in 1..1 |-> desc[n]] /\ sent = [n \in 1..1 |-> sent[n]]
        BY <1>3 DEF Init
    <2>2. \A n \in 1..1 : desc[n] = f /\ sent[n] = Unsent(conf.stream)
        BY <1>3 DEF Init
    <2> QED
        BY <1>1, <1>2, <1>5, <2>1, <2>2 DEF Kinds, Init
<1>7. Givens /\ \A k \in Callers : Plays(k)
    BY DEF Givens, UniqueGiven, Plays, Init, None
<1> QED
    BY <1>6, <1>7 DEF IInv

LEMMA UniqueStreamKeeps ==
    ASSUME IInv, NEW k \in Callers, NEW m, UniqueStream(k, m)
    PROVE  IInv'
<1>1. ~exited /\ given[k] = None /\ conf' = conf /\ moved' = moved /\ exited' = exited
    BY DEF UniqueStream
<1>2. conf \in Configs /\ moved[k] = {} /\ clonedStreams \in {None} \cup Nat
    BY <1>1 DEF IInv, Kinds, Givens
<1>3. \A l \in Callers : given[l] # None => given[l] \in Nat /\ given[l] <= clonedStreams
                                            /\ clonedStreams \in Nat
    BY DEF IInv, Kinds, Givens, None
<1>4. CASE FirstUse(m)
    <2>1. /\ clonedStreams' = 0 /\ given' = [given EXCEPT ![k] = 0]
          /\ desc' = desc /\ sent' = sent /\ clonedStreams = None
        BY <1>4 DEF UniqueStream, FirstUse
    <2>2. Copies' = Copies
        BY <2>1 DEF Copies, None
    <2>3. Kinds'
        BY <1>1, <2>1, <2>2 DEF IInv, Kinds, Streamed, Nodes, Of
    <2>4. \A l \in Callers : given[l] = None
        BY <1>3, <2>1 DEF None
    <2>5. \A l \in Callers : given'[l] = IF l = k THEN 0 ELSE None
        BY <2>1, <2>4 DEF IInv, Kinds
    <2>6. Givens'
        BY <1>1, <1>2, <2>1, <2>4, <2>5 DEF IInv, Givens, UniqueGiven, None
    <2>7. Plays(k)'
        BY <1>1, <1>2 DEF Plays, Apart, Inside, Waiting, Types
    <2>8. \A l \in Callers : Plays(l)'
        BY <2>5, <2>7 DEF Plays
    <2> QED
        BY <2>3, <2>6, <2>8 DEF IInv
<1>5. CASE ~FirstUse(m)
    <2> DEFINE n == Max({clonedStreams, 0}) + 1
    <2>1. /\ clonedStreams' = n /\ given' = [given EXCEPT ![k] = n]
          /\ \E f \in Loaded(conf.stream) : desc' = Append(desc, f)
          /\ sent' = Append(sent, Unsent(conf.stream))
        BY <1>5 DEF UniqueStream
    <2>2. n = Copies /\ n \in Nat /\ n > 0 /\ clonedStreams < n
        BY <1>2, MaxOf DEF Copies, None
    <2> HIDE DEF n
    <2>3. Copies' = n + 1
        BY <2>1, <2>2 DEF Copies
    <2>4. PICK f \in Loaded(conf.stream) : desc' = Append(desc, f)
        BY <2>1
    <2>5. Streamed(f, Unsent(conf.stream))
        <3>1. f = [i \in Nodes |-> f[i]] /\ \A i \in Nodes : f[i] \in Initialised(Of(i).pattern)
            BY DEF Loaded, Nodes, Of
        <3>2. Unsent(conf.stream) \in [Nodes -> Seq(Nat)]
            BY EmptySeq DEF Unsent, Nodes
        <3> QED
            BY <1>2, <3>1, <3>2, ConfType, InitialisedShaped DEF Streamed
    <2>6. /\ desc = [j \in 1..n |-> desc[j]] /\ sent = [j \in 1..n |-> sent[j]]
          /\ \A j \in 1..n : Streamed(desc[j], sent[j])
        BY <2>2 DEF IInv, Kinds
    <2>7. /\ desc' = [j \in 1..n + 1 |-> IF j = n + 1 THEN f ELSE desc[j]]
          /\ sent' = [j \in 1..n + 1 |-> IF j = n + 1 THEN Unsent(conf.stream) ELSE sent[j]]
        BY <2>1, <2>2, <2>4, <2>6, AppendTo
    <2>8. Kinds'
        <3>1. \A j \in 1..n + 1 : Streamed(desc'[j], sent'[j])
            <4>1. TAKE j \in 1..n + 1
            <4>2. CASE j = n + 1
                BY <2>5, <2>7, <4>2
            <4>3. CASE j # n + 1
                <5>1. j \in 1..n
                    BY <2>2, <4>3
                <5> QED
                    BY <2>6, <2>7, <4>3, <5>1
            <4> QED
                BY <4>2, <4>3
        <3>2. \A j \in 1..Copies' : Streamed(desc[j], sent[j])'
            BY <1>1, <2>3, <3>1 DEF Streamed, Nodes, Of
        <3>3. desc' = [j \in 1..Copies' |-> desc'[j]] /\ sent' = [j \in 1..Copies' |-> sent'[j]]
            BY <2>3, <2>7
        <3>4. given' \in [Callers -> {None} \cup Nat] /\ clonedStreams' \in {None} \cup Nat
            BY <2>1, <2>2 DEF IInv, Kinds
        <3> QED
            BY <1>1, <3>2, <3>3, <3>4 DEF IInv, Kinds
    <2>9. \A l \in Callers : given'[l] = IF l = k THEN n ELSE given[l]
        BY <2>1 DEF IInv, Kinds
    <2>10. Givens'
        <3>1. \A l \in Callers : given[l] # None => given[l] < n
            BY <1>3, <2>2
        <3>2. UniqueGiven'
            <4>1. UniqueGiven
                BY DEF IInv, Givens
            <4>2. n # None
                BY <2>2 DEF None
            <4>3. \A l \in Callers : given[l] # n
                <5>1. TAKE l \in Callers
                <5>2. given[l] \in Nat => given[l] # n
                    BY <2>2, <3>1 DEF None
                <5> QED
                    BY <4>2, <5>2, <1>3
            <4> QED
                BY <2>9, <4>1, <4>2, <4>3 DEF UniqueGiven
        <3>3. \A l \in Callers : given'[l] # None => clonedStreams' # None /\ given'[l] <= clonedStreams'
            BY <1>3, <2>1, <2>2, <2>9 DEF None
        <3>4. \A l \in Callers : given'[l] = None => moved'[l] = {}
            BY <1>1, <2>2, <2>9 DEF IInv, Givens, None
        <3> QED
            BY <3>2, <3>3, <3>4 DEF Givens
    <2>11. \A l \in Callers : Plays(l)'
        <3>1. TAKE l \in Callers
        <3>2. CASE l = k
            BY <1>1, <1>2, <3>2 DEF Plays, Apart, Inside, Waiting, Types
        <3>3. CASE l # k
            <4>1. CASE given[l] = None
                BY <2>9, <3>3, <4>1 DEF Plays
            <4>2. CASE given[l] # None
                <5>1. Own(l)' = Own(l) /\ Own(l) \in 1..n
                    BY <2>2, <2>9, <3>3, <4>2, OwnOne DEF Own
                <5>2. desc'[Own(l)'] = desc[Own(l)] /\ sent'[Own(l)'] = sent[Own(l)]
                    BY <2>2, <2>7, <5>1
                <5>3. Plays(l)
                    BY DEF IInv
                <5> QED
                    BY <1>1, <4>2, <5>2, <5>3 DEF Plays, Apart, Place, Roomy, Inside, Waiting,
                        Nodes, Of, Buffer, BufferBase
            <4> QED
                BY <4>1, <4>2
        <3> QED
            BY <3>2, <3>3
    <2> QED
        BY <2>8, <2>10, <2>11 DEF IInv
<1> QED
    BY <1>4, <1>5

\* A step of one caller on its own stream: the others' are what they were.
LEMMA Changed ==
    ASSUME IInv, ~exited, NEW k \in Callers, given[k] # None, NEW f, NEW s, NEW m \in SUBSET Types,
           desc' = [desc EXCEPT ![Own(k)] = f], sent' = [sent EXCEPT ![Own(k)] = s],
           moved' = [moved EXCEPT ![k] = m], exited' \in BOOLEAN,
           UNCHANGED <<conf, clonedStreams, given>>,
           Streamed(f, s), ~exited' => Apart(k, f, m), Inside(k, s, m), Waiting(s, m)
    PROVE  IInv'
<1>1. conf' = conf /\ clonedStreams' = clonedStreams /\ given' = given /\ Copies' = Copies
    BY DEF Copies
<1>2. Own(k) \in 1..Copies
    BY OwnOne
<1>3. /\ desc = [n \in 1..Copies |-> desc[n]] /\ sent = [n \in 1..Copies |-> sent[n]]
      /\ \A n \in 1..Copies : Streamed(desc[n], sent[n])
    BY DEF IInv, Kinds
<1>4. \A n \in 1..Copies : /\ desc'[n] = IF n = Own(k) THEN f ELSE desc[n]
                           /\ sent'[n] = IF n = Own(k) THEN s ELSE sent[n]
    BY <1>3
<1>5. \A l \in Callers : moved'[l] = IF l = k THEN m ELSE moved[l]
    BY DEF IInv, Kinds
<1>6. Kinds'
    <2>1. \A n \in 1..Copies : Streamed(desc'[n], sent'[n])
        BY <1>3, <1>4
    <2>2. \A n \in 1..Copies' : Streamed(desc[n], sent[n])'
        BY <1>1, <2>1 DEF Streamed, Nodes, Of
    <2>3. desc' = [n \in 1..Copies' |-> desc'[n]] /\ sent' = [n \in 1..Copies' |-> sent'[n]]
        BY <1>1, <1>3
    <2>4. moved' \in [Callers -> SUBSET Types]
        BY DEF IInv, Kinds
    <2> QED
        BY <1>1, <2>2, <2>3, <2>4 DEF IInv, Kinds
<1>7. Givens'
    BY <1>1, <1>5 DEF IInv, Givens, UniqueGiven
<1>8. \A l \in Callers : Plays(l)'
    <2>1. TAKE l \in Callers
    <2>2. CASE given[l] = None
        BY <1>1, <2>2 DEF Plays
    <2>3. CASE l = k
        <3>1. Own(l)' = Own(k) /\ desc'[Own(k)] = f /\ sent'[Own(k)] = s /\ moved'[l] = m
            BY <1>1, <1>2, <1>4, <1>5, <2>3 DEF Own
        <3> QED
            BY <1>1, <2>3, <3>1 DEF Plays, Apart, Place, Roomy, Inside, Waiting,
                Nodes, Of, Buffer, BufferBase
    <2>4. CASE given[l] # None /\ l # k
        <3>1. Own(l)' = Own(l) /\ Own(l) \in 1..Copies /\ Own(l) # Own(k)
            BY <1>1, <2>4, OwnOne DEF Own
        <3>2. desc'[Own(l)'] = desc[Own(l)] /\ sent'[Own(l)'] = sent[Own(l)] /\ moved'[l] = moved[l]
            BY <1>4, <1>5, <2>4, <3>1
        <3>3. Plays(l)
            BY DEF IInv
        <3> QED
            BY <1>1, <2>4, <3>2, <3>3 DEF Plays, Apart, Place, Roomy, Inside, Waiting,
                Nodes, Of, Buffer, BufferBase
    <2> QED
        BY <2>2, <2>3, <2>4
<1> QED
    BY <1>6, <1>7, <1>8 DEF IInv

\* The stream a caller plays.
LEMMA OwnStream ==
    ASSUME IInv, NEW k \in Callers, given[k] # None
    PROVE  /\ Streamed(desc[Own(k)], sent[Own(k)]) /\ Plays(k)
           /\ moved[k] \in SUBSET Types /\ moved = [moved EXCEPT ![k] = moved[k]]
           /\ conf \in Configs
    BY OwnOne DEF IInv, Kinds

LEMMA SendKeeps ==
    ASSUME IInv, NEW k \in Callers, NEW i \in Nodes, SendPacket(k, i)
    PROVE  IInv'
<1> DEFINE f == desc[Own(k)]
           s == sent[Own(k)]
           m == moved[k]
<1>1. /\ ~exited /\ given[k] # None /\ m \in {{}, Types} /\ Len(s[i]) < Of(i).toSend
      /\ UNCHANGED <<conf, clonedStreams, given, moved, exited>>
    BY DEF SendPacket, Ready
<1>2. PICK x \in Advanced(f[i]) : desc' = [desc EXCEPT ![Own(k)][i] = x]
    BY DEF SendPacket
<1> DEFINE g == [f EXCEPT ![i] = x]
           t == [s EXCEPT ![i] = Append(s[i], f[i].next)]
<1>3. desc' = [desc EXCEPT ![Own(k)] = g] /\ sent' = [sent EXCEPT ![Own(k)] = t]
    BY <1>2 DEF SendPacket
<1>4. /\ Streamed(f, s) /\ m \in SUBSET Types /\ moved' = [moved EXCEPT ![k] = m]
      /\ Apart(k, f, m) /\ Inside(k, s, m) /\ conf \in Configs
    BY <1>1, OwnStream DEF Plays
<1>5. Shaped(f[i]) /\ Kept(Of(i).pattern, f[i]) /\ s[i] \in Seq(Nat) /\ f[i].next \in Nat
    BY <1>4 DEF Streamed, Shaped
<1>6. /\ Shaped(x) /\ Alike(f[i], x)
      /\ f[i].range > 0 /\ f[i].base <= f[i].next /\ f[i].base <= f[i].from
         => x.next \in f[i].base .. f[i].base + f[i].range - 1 /\ f[i].base <= x.from
    BY <1>2, <1>5, AdvancedWithin
<1>7. g = [j \in Nodes |-> IF j = i THEN x ELSE f[j]]
    BY <1>4 DEF Streamed
<1>8. /\ Append(s[i], f[i].next) \in Seq(Nat)
      /\ Range(Append(s[i], f[i].next)) \subseteq Range(s[i]) \cup {f[i].next}
    <2>1. /\ Append(s[i], f[i].next) \in Seq(Nat) /\ Len(s[i]) \in Nat
          /\ Len(Append(s[i], f[i].next)) = Len(s[i]) + 1
          /\ \A n \in 1..Len(s[i]) : Append(s[i], f[i].next)[n] = s[i][n]
          /\ Append(s[i], f[i].next)[Len(s[i]) + 1] = f[i].next
        BY <1>5, AppendProperties, LenProperties
    <2>2. /\ DOMAIN Append(s[i], f[i].next) = 1..Len(s[i]) + 1
          /\ DOMAIN s[i] = 1..Len(s[i])
        BY <1>5, <2>1, LenProperties
    <2>3. \A n \in 1..Len(s[i]) + 1 :
             Append(s[i], f[i].next)[n] \in Range(s[i]) \cup {f[i].next}
        <3>1. TAKE n \in 1..Len(s[i]) + 1
        <3>2. CASE n = Len(s[i]) + 1
            BY <2>1, <3>2
        <3>3. CASE n # Len(s[i]) + 1
            <4>1. n \in 1..Len(s[i])
                BY <2>1, <3>3
            <4> QED
                BY <2>1, <2>2, <4>1 DEF Range
        <3> QED
            BY <3>2, <3>3
    <2> QED
        BY <2>1, <2>2, <2>3 DEF Range
<1>9. t = [j \in Nodes |-> IF j = i THEN Append(s[i], f[i].next) ELSE s[j]]
    BY <1>4 DEF Streamed
<1> HIDE DEF f, s, m, g, t
<1>10. Streamed(g, t)
    <2>1. Kept(Of(i).pattern, x)
        BY <1>5, <1>6 DEF Kept, Alike
    <2>2. t \in [Nodes -> Seq(Nat)]
        BY <1>4, <1>8, <1>9 DEF Streamed
    <2> QED
        BY <1>4, <1>6, <1>7, <2>1, <2>2 DEF Streamed
<1>11. Of(i).toSend > 0
    <2>1. Len(s[i]) \in Nat /\ Of(i).toSend \in Nat
        BY <1>4, <1>5, LenProperties, ConfType
    <2> QED
        BY <1>1, <2>1
<1>12. Apart(k, g, m)
    <2>1. \A j \in Nodes : g[j].base = f[j].base /\ g[j].range = f[j].range
        BY <1>6, <1>7 DEF Alike
    <2>2. ASSUME NEW j \in Nodes, Of(j).type \in m PROVE Place(k, j, g[j])
        <3>1. Place(k, j, f[j])
            BY <1>4, <2>2 DEF Apart
        <3>2. CASE j # i
            BY <1>7, <3>1, <3>2
        <3>3. CASE j = i
            <4>1. f[i].base \in Nat /\ f[i].range \in Nat /\ f[i].next \in Nat
                BY <1>5 DEF Shaped
            <4> QED
                BY <1>6, <1>7, <1>11, <3>1, <3>3, <4>1 DEF Place, Alike
        <3> QED
            BY <3>2, <3>3
    <2> QED
        BY <1>4, <2>1, <2>2 DEF Apart
<1>13. Inside(k, t, m)
    <2>1. SUFFICES ASSUME m = Types, NEW j \in Nodes, Roomy(j)
                   PROVE  Range(t[j]) \subseteq Buffer(k, Of(j).type)
        BY DEF Inside
    <2>2. Range(s[j]) \subseteq Buffer(k, Of(j).type)
        BY <1>4, <2>1 DEF Inside
    <2>3. CASE j # i
        BY <1>9, <2>2, <2>3
    <2>4. CASE j = i
        <3>1. Place(k, i, f[i])
            BY <1>4, <2>1, <2>4, ConfType DEF Apart
        <3>2. /\ BufferBase(k, Of(i).type) \in Int /\ conf.room \in Nat
              /\ f[i].base \in Nat /\ f[i].range \in Nat /\ f[i].next \in Nat
            <4>1. conf.room \in Nat /\ Of(i).type \in {"READ", "WRITE"}
                BY <1>4, ConfType DEF Types
            <4>2. BufferBase(k, "READ") \in Int /\ BufferBase(k, "WRITE") \in Int
                BY <4>1, BufferType
            <4>3. f[i].base \in Nat /\ f[i].range \in Nat /\ f[i].next \in Nat
                BY <1>5 DEF Shaped
            <4> QED
                BY <4>1, <4>2, <4>3
        <3>3. f[i].next \in Buffer(k, Of(i).type)
            BY <1>11, <2>1, <2>4, <3>1, <3>2 DEF Place, Buffer
        <3> QED
            BY <1>8, <1>9, <2>2, <2>4, <3>3
    <2> QED
        BY <2>3, <2>4
<1>14. Waiting(t, m)
    BY <1>1 DEF Waiting
<1>15. exited' \in BOOLEAN
    BY <1>1 DEF IInv, Kinds
<1> QED
    BY <1>1, <1>3, <1>4, <1>10, <1>12, <1>13, <1>14, <1>15, Changed

LEMMA ResetKeeps ==
    ASSUME IInv, NEW k \in Callers, ResetStream(k)
    PROVE  IInv'
<1> DEFINE f == desc[Own(k)]
           m == moved[k]
           g == [i \in Nodes |-> Rewound(f[i])]
           t == Unsent(conf.stream)
<1>1. /\ ~exited /\ given[k] # None
      /\ UNCHANGED <<conf, clonedStreams, given, moved, exited>>
      /\ desc' = [desc EXCEPT ![Own(k)] = g] /\ sent' = [sent EXCEPT ![Own(k)] = t]
    BY DEF ResetStream, Ready
<1>2. /\ Streamed(f, sent[Own(k)]) /\ m \in SUBSET Types /\ moved' = [moved EXCEPT ![k] = m]
      /\ Apart(k, f, m) /\ conf \in Configs
    BY <1>1, OwnStream DEF Plays
<1>3. \A i \in Nodes : /\ Shaped(f[i]) /\ Kept(Of(i).pattern, f[i])
                      /\ Shaped(g[i]) /\ Alike(f[i], g[i])
                      /\ g[i].next = f[i].base /\ g[i].from = f[i].base
    BY <1>2, RewoundWithin DEF Streamed
<1>4. g = [i \in Nodes |-> g[i]]
    OBVIOUS
<1>5. t \in [Nodes -> Seq(Nat)] /\ \A i \in Nodes : t[i] = <<>>
    BY EmptySeq DEF Unsent, Nodes
<1> HIDE DEF f, m, g, t
<1>6. Streamed(g, t)
    BY <1>3, <1>4, <1>5 DEF Streamed, Kept, Alike
<1>7. Apart(k, g, m)
    <2>1. \A j \in Nodes : g[j].base = f[j].base /\ g[j].range = f[j].range
        BY <1>3 DEF Alike
    <2>2. ASSUME NEW j \in Nodes, Of(j).type \in m PROVE Place(k, j, g[j])
        <3>1. Place(k, j, f[j])
            BY <1>2, <2>2 DEF Apart
        <3>2. f[j].base \in Nat /\ f[j].range \in Nat /\ f[j].next \in Nat
            BY <1>3 DEF Shaped
        <3> QED
            BY <1>3, <2>1, <3>1, <3>2 DEF Place
    <2> QED
        BY <1>2, <2>1, <2>2 DEF Apart
<1>8. Inside(k, t, m)
    BY <1>5 DEF Inside, Range
<1>9. Waiting(t, m)
    BY DEF Waiting, t
<1>10. exited' \in BOOLEAN
    BY <1>1 DEF IInv, Kinds
<1> QED
    BY <1>1, <1>2, <1>6, <1>7, <1>8, <1>9, <1>10, Changed

LEMMA ConfigureKeeps ==
    ASSUME IInv, NEW k \in Callers, NEW type \in Types, ConfigureStream(k, type)
    PROVE  IInv'
<1> DEFINE f == desc[Own(k)]
           s == sent[Own(k)]
           m == moved[k] \cup {type}
           base == BufferBase(k, type)
           end == Ends(f, type, base)
           g == [i \in Nodes |-> IF Of(i).type = type
                                 THEN Moved(f[i], end[i - 1], end[i] - end[i - 1]) ELSE f[i]]
<1>1. /\ ~exited /\ given[k] # None /\ type \notin moved[k] /\ s = Unsent(conf.stream)
      /\ UNCHANGED <<conf, clonedStreams, given, sent>>
    BY DEF ConfigureStream
<1>2. desc' = [desc EXCEPT ![Own(k)] = g]
    BY DEF ConfigureStream
<1>3. /\ exited' \in BOOLEAN
      /\ ~exited' => \A i \in Nodes : Of(i).type = type => ~(end[i] > base + conf.room)
    BY DEF ConfigureStream
<1>4. moved' = [moved EXCEPT ![k] = m]
    BY DEF ConfigureStream
<1>5. /\ Streamed(f, s) /\ m \in SUBSET Types
      /\ Apart(k, f, moved[k]) /\ conf \in Configs
    BY <1>1, OwnStream DEF Plays
<1>6. sent' = [sent EXCEPT ![Own(k)] = s]
    <2>1. sent = [n \in 1..Copies |-> sent[n]] /\ Own(k) \in 1..Copies
        BY <1>1, OwnOne DEF IInv, Kinds
    <2> QED
        BY <1>1, <2>1
<1>7. \A i \in Nodes : /\ Shaped(f[i]) /\ Kept(Of(i).pattern, f[i])
                      /\ AutoRange(f[i], Of(i).toSend) \in Nat
    BY <1>5, ConfType, AutoRangeType DEF Streamed
<1>8. base \in Nat /\ conf.room \in Nat
    BY <1>5, ConfType, BufferType DEF Types
<1> HIDE DEF base
<1> DEFINE N == Len(conf.stream)
<1>9. /\ end[0] = base
      /\ \A n \in 0..N : end[n] \in Int
      /\ \A n \in 1..N : end[n] = end[n - 1] +
            IF Of(n).type = type THEN AutoRange(f[n], Of(n).toSend) ELSE 0
      /\ \A a, n \in 0..N : a <= n => end[a] <= end[n]
    BY <1>5, <1>7, <1>8, ConfType, EndsGrow
<1>10. Nodes = 1..N /\ N \in Nat
    BY <1>5, ConfType
<1>11. g = [i \in Nodes |-> g[i]]
    OBVIOUS
<1>12. \A i \in Nodes : g[i] = IF Of(i).type = type
                                THEN Moved(f[i], end[i - 1], end[i] - end[i - 1]) ELSE f[i]
    OBVIOUS
<1> HIDE DEF f, s, m, end, g, N
<1>13. ASSUME NEW i \in Nodes, Of(i).type = type
       PROVE  /\ end[i - 1] \in Nat /\ base <= end[i - 1]
              /\ end[i] - end[i - 1] = AutoRange(f[i], Of(i).toSend)
              /\ Shaped(g[i]) /\ Kept(Of(i).pattern, g[i])
              /\ g[i].base = end[i - 1] /\ g[i].base + g[i].range = end[i]
              /\ g[i].range = AutoRange(f[i], Of(i).toSend)
              /\ g[i].next = g[i].base /\ g[i].from = g[i].base
    <2>1. i \in 1..N /\ i - 1 \in 0..N /\ i \in 0..N /\ 0 \in 0..N /\ 0 <= i - 1
        BY <1>10
    <2>2. end[i - 1] \in Int /\ end[i] \in Int /\ base <= end[i - 1]
        BY <1>9, <2>1
    <2>3. end[i] = end[i - 1] + AutoRange(f[i], Of(i).toSend)
        BY <1>9, <1>13, <2>1
    <2>4. /\ end[i - 1] \in Nat /\ end[i] - end[i - 1] = AutoRange(f[i], Of(i).toSend)
          /\ AutoRange(f[i], Of(i).toSend) \in Nat
        BY <1>7, <1>8, <2>2, <2>3
    <2>5. g[i] = Moved(f[i], end[i - 1], end[i] - end[i - 1])
        BY <1>12, <1>13
    <2>6. /\ Shaped(g[i]) /\ g[i].base = end[i - 1] /\ g[i].range = end[i] - end[i - 1]
          /\ g[i].next = end[i - 1] /\ g[i].from = end[i - 1]
        <3> DEFINE b == end[i - 1]
                   r == end[i] - end[i - 1]
        <3>1. b \in Nat /\ r \in Nat /\ g[i] = Moved(f[i], b, r) /\ Shaped(f[i])
            BY <1>7, <2>4, <2>5
        <3> HIDE DEF b, r
        <3>2. Shaped(g[i]) /\ g[i].base = b /\ g[i].range = r /\ g[i].next = b /\ g[i].from = b
            BY <3>1, MovedShaped
        <3> QED
            BY <3>2 DEF b, r
    <2>7. Kept(Of(i).pattern, g[i])
        <3>1. Kept(f[i], g[i])
            BY <1>7, <2>5 DEF Moved, At, Kept, Shaped, Fields, Where
        <3> QED
            BY <1>7, <3>1 DEF Kept
    <2> QED
        BY <2>2, <2>3, <2>4, <2>6, <2>7
<1>14. Streamed(g, s)
    <2>1. \A i \in Nodes : Shaped(g[i]) /\ Kept(Of(i).pattern, g[i])
        BY <1>7, <1>12, <1>13
    <2> QED
        BY <1>5, <1>11, <2>1 DEF Streamed
<1>15. ASSUME ~exited' PROVE Apart(k, g, m)
    <2>1. ASSUME NEW i \in Nodes, Of(i).type \in m
          PROVE  Place(k, i, g[i])
        <3>1. CASE Of(i).type = type
            <4>1. ~(end[i] > base + conf.room)
                BY <1>3, <1>15, <3>1
            <4>2. end[i] \in Int
                BY <1>9, <1>10
            <4>3. Of(i).toSend > 0 /\ Roomy(i) => g[i].range > 0
                <5>1. SUFFICES ASSUME Of(i).toSend > 0, Roomy(i) PROVE g[i].range > 0
                    OBVIOUS
                <5>2. RangeNeeded(f[i], Of(i).toSend) > 0
                    BY <1>7, <5>1, KeptNeeds DEF Roomy
                <5>3. Of(i).toSend \in Nat
                    BY <1>5, ConfType
                <5> QED
                    BY <1>7, <1>13, <3>1, <5>1, <5>2, <5>3, AutoRangePositive
            <4>4. g[i].base \in Nat /\ g[i].range \in Nat
                BY <1>13, <3>1 DEF Shaped
            <4> QED
                BY <1>8, <1>13, <3>1, <4>1, <4>2, <4>3, <4>4 DEF Place, base
        <3>2. CASE Of(i).type # type
            BY <1>5, <1>12, <2>1, <3>2 DEF Apart, m
        <3> QED
            BY <3>1, <3>2
    <2>2. ASSUME NEW i \in Nodes, Of(i).type \in m, NEW j \in Nodes, i < j, Of(j).type = Of(i).type
          PROVE  g[i].base + g[i].range <= g[j].base
        <3>1. CASE Of(i).type = type
            <4>1. i \in 0..N /\ j - 1 \in 0..N /\ i <= j - 1
                BY <1>10, <2>2
            <4>2. end[i] <= end[j - 1]
                BY <1>9, <4>1
            <4> QED
                BY <1>13, <2>2, <3>1, <4>2
        <3>2. CASE Of(i).type # type
            BY <1>5, <1>12, <2>2, <3>2 DEF Apart, m
        <3> QED
            BY <3>1, <3>2
    <2> QED
        BY <2>1, <2>2 DEF Apart
<1>16. Inside(k, s, m)
    <2>1. \A i \in Nodes : s[i] = <<>>
        BY <1>1 DEF Unsent, Nodes, s
    <2> QED
        BY <2>1 DEF Inside, Range
<1>17. Waiting(s, m)
    BY <1>1 DEF Waiting, s
<1> QED
    BY <1>1, <1>2, <1>3, <1>4, <1>5, <1>6, <1>14, <1>15, <1>16, <1>17, Changed

LEMMA StepKeeps == IInv /\ [Next]_vars => IInv'
<1> SUFFICES ASSUME IInv, [Next]_vars PROVE IInv'
    OBVIOUS
<1>1. ASSUME NEW k \in Callers, NEW m \in Masters \cup {NoMaster}, UniqueStream(k, m) PROVE IInv'
    BY <1>1, UniqueStreamKeeps
<1>2. ASSUME NEW k \in Callers, NEW type \in Types, ConfigureStream(k, type) PROVE IInv'
    BY <1>2, ConfigureKeeps
<1>3. ASSUME NEW k \in Callers, NEW i \in Nodes, SendPacket(k, i) PROVE IInv'
    BY <1>3, SendKeeps
<1>4. ASSUME NEW k \in Callers, ResetStream(k) PROVE IInv'
    BY <1>4, ResetKeeps
<1>5. CASE UNCHANGED vars
    <2>1. UNCHANGED <<conf, clonedStreams, given, desc, sent, moved, exited>> /\ Copies' = Copies
        BY <1>5 DEF vars, Copies
    <2>2. Kinds'
        BY <2>1 DEF IInv, Kinds, Streamed, Nodes, Of
    <2>3. Givens'
        BY <2>1 DEF IInv, Givens, UniqueGiven
    <2>4. ASSUME NEW k \in Callers PROVE Plays(k)'
        <3>1. Plays(k) /\ Own(k)' = Own(k)
            BY <2>1 DEF IInv, Own
        <3>2. desc'[Own(k)'] = desc[Own(k)] /\ sent'[Own(k)'] = sent[Own(k)]
            BY <2>1, <3>1
        <3> QED
            BY <2>1, <3>1, <3>2 DEF Plays, Apart, Place, Roomy, Inside, Waiting,
                Nodes, Of, Buffer, BufferBase
    <2> QED
        BY <2>2, <2>3, <2>4 DEF IInv
<1> QED
    BY <1>1, <1>2, <1>3, <1>4, <1>5 DEF Next

(***************************************************************************)
(* The theorems.                                                           *)
(***************************************************************************)

LEMMA InvHolds == Spec => []IInv
    BY InitHolds, StepKeeps, PTL DEF Spec

LEMMA InvTypes == IInv => TypeOK
<1> SUFFICES ASSUME IInv PROVE TypeOK
    OBVIOUS
<1>1. clonedStreams \in {None} \cup Nat /\ Max({clonedStreams, 0}) + 1 = Copies /\ Copies \in Nat
    <2>1. clonedStreams \in {None} \cup Nat
        BY DEF IInv, Kinds
    <2> QED
        BY <2>1, MaxOf DEF Copies, None
<1>2. /\ desc = [n \in 1..Copies |-> desc[n]] /\ sent = [n \in 1..Copies |-> sent[n]]
      /\ \A n \in 1..Copies : Streamed(desc[n], sent[n])
    BY DEF IInv, Kinds
<1>3. Len(desc) = Copies /\ Len(sent) = Copies
    BY <1>1, <1>2, AppendTo
<1>4. given \in [Callers -> {None} \cup (0..Max({clonedStreams, 0}))]
    <2>1. given \in [Callers -> {None} \cup Nat]
        BY DEF IInv, Kinds
    <2>2. ASSUME NEW k \in Callers PROVE given[k] \in {None} \cup (0..Max({clonedStreams, 0}))
        <3>1. given[k] # None => given[k] \in Nat /\ given[k] <= clonedStreams /\ clonedStreams \in Nat
            BY <1>1, <2>1 DEF IInv, Givens, None
        <3>2. clonedStreams \in Nat => Max({clonedStreams, 0}) = clonedStreams
            BY <1>1, MaxOf
        <3> QED
            BY <3>1, <3>2
    <2> QED
        BY <2>1, <2>2
<1>5. \A n \in DOMAIN desc : DOMAIN desc[n] = Nodes /\ \A i \in Nodes : Descriptor(desc[n][i])
    <2>1. TAKE n \in DOMAIN desc
    <2>2. n \in 1..Copies
        BY <1>2
    <2>3. Streamed(desc[n], sent[n])
        BY <1>2, <2>2
    <2>4. DOMAIN desc[n] = Nodes
        BY <2>3 DEF Streamed
    <2> QED
        BY <2>3, <2>4, IsDescriptor DEF Streamed
<1>6. \A n \in DOMAIN sent : sent[n] \in [Nodes -> Seq(Nat)]
    <2>1. DOMAIN sent = 1..Copies
        BY <1>2
    <2> QED
        BY <1>2, <2>1 DEF Streamed
<1> QED
    BY <1>1, <1>3, <1>4, <1>5, <1>6 DEF IInv, Kinds, TypeOK

\* Every stream there is has its profiles and what they sent, and is one of the
\* root's: whatever callers ask for, move, send and reset (ProfileGen::initStream,
\* TrafficProfileManager::uniqueStream, packet_desc.cc).
THEOREM TypeCorrect == Spec => []TypeOK
    BY InvHolds, InvTypes, PTL

\* No two callers of uniqueStream are given the same stream, however many they
\* are and whatever masters they name.
THEOREM Unique == Spec => []UniqueGiven
<1>1. IInv => UniqueGiven
    BY DEF IInv, Givens
<1> QED
    BY <1>1, InvHolds, PTL

LEMMA InvDisjoint == IInv => RangesDisjoint
<1> SUFFICES ASSUME IInv, NEW k \in Callers, given[k] # None, ~exited
             PROVE  LET at(i) == LET d == desc[Own(k)][i] IN d.base .. d.base + d.range - 1
                        placed == {i \in Nodes : Of(i).type \in moved[k]}
                    IN /\ \A i \in placed : at(i) \subseteq Buffer(k, Of(i).type)
                       /\ \A i, j \in placed : i # j => at(i) \cap at(j) = {}
    BY DEF RangesDisjoint
<1> DEFINE f == desc[Own(k)]
           at(i) == f[i].base .. f[i].base + f[i].range - 1
           placed == {i \in Nodes : Of(i).type \in moved[k]}
<1>1. Streamed(f, sent[Own(k)]) /\ Apart(k, f, moved[k]) /\ conf \in Configs
    BY OwnStream DEF Plays
<1> HIDE DEF f
<1>2. Nodes \subseteq Int /\ \A i \in Nodes : Of(i).type \in {"READ", "WRITE"}
    BY <1>1, ConfType DEF Types
<1>3. /\ conf.room \in Nat /\ BufferBase(k, "READ") \in Nat
      /\ BufferBase(k, "WRITE") = BufferBase(k, "READ") + conf.room
    BY <1>1, ConfType, BufferType
<1>4. \A i \in Nodes : f[i].base \in Nat /\ f[i].range \in Nat
    BY <1>1 DEF Streamed, Shaped
<1>5. ASSUME NEW i \in placed PROVE at(i) \subseteq Buffer(k, Of(i).type)
    BY <1>1, <1>2, <1>3, <1>4, <1>5 DEF Apart, Place, Buffer
<1>6. ASSUME NEW i \in placed, NEW j \in placed, i # j PROVE at(i) \cap at(j) = {}
    <2>1. CASE Of(i).type = Of(j).type
        <3>1. /\ i < j => f[i].base + f[i].range <= f[j].base
              /\ j < i => f[j].base + f[j].range <= f[i].base
            BY <1>1, <2>1 DEF Apart
        <3>2. i < j \/ j < i
            BY <1>2, <1>6
        <3> QED
            BY <1>4, <3>1, <3>2
    <2>2. CASE Of(i).type # Of(j).type
        <3>1. Buffer(k, "READ") \cap Buffer(k, "WRITE") = {}
            BY <1>3 DEF Buffer
        <3> QED
            BY <1>2, <1>5, <2>2, <3>1
    <2> QED
        BY <2>1, <2>2
<1> QED
    BY <1>5, <1>6 DEF f

\* Every caller that moved its stream sends to its own buffers alone, through
\* wraps, strides, random choices and resets, from ranges that do not meet
\* (ProfileGen::configureStream, addressStreamReconfigure, PacketDesc::send), if
\* no profile that has packets to send computes an empty range.
THEOREM OwnBuffers ==
    ASSUME \A c \in Configs : \A i \in DOMAIN c.stream :
               LET p == c.stream[i] IN p.toSend > 0 => RangeNeeded(p.pattern, p.toSend) > 0
    PROVE  Spec => []OwnRanges
<1>1. IInv => OwnRanges
    <2> SUFFICES ASSUME IInv PROVE InOwnBuffer
        BY InvDisjoint DEF OwnRanges
    <2>1. ASSUME NEW k \in Callers, given[k] # None, moved[k] = Types, NEW i \in Nodes
          PROVE  Range(sent[Own(k)][i]) \subseteq Buffer(k, Of(i).type)
        <3>1. conf \in Configs /\ Inside(k, sent[Own(k)], moved[k])
            BY <2>1, OwnStream DEF Plays
        <3>2. Roomy(i)
            BY <3>1 DEF Roomy, Of, Nodes
        <3> QED
            BY <2>1, <3>1, <3>2 DEF Inside
    <2> QED
        BY <2>1 DEF InOwnBuffer
<1> QED
    BY <1>1, InvHolds, PTL

(***************************************************************************)
(* The addresses of a profile, packet by packet.                           *)
(***************************************************************************)

\* Quotient and remainder are the only pair that makes up a number.
LEMMA DivMod ==
    ASSUME NEW a \in Nat, NEW l \in Nat \ {0}
    PROVE  a \div l \in Nat /\ a % l \in 0..l - 1 /\ a = l * (a \div l) + (a % l)
<1> DEFINE q == a \div l
           r == a % l
<1>1. q \in Nat /\ r \in 0..l - 1 /\ a = l * q + r
    OBVIOUS
<1> QED
    BY <1>1

LEMMA DivModOnly ==
    ASSUME NEW a \in Nat, NEW l \in Nat \ {0}, NEW q \in Nat, NEW r \in 0..l - 1, a = l * q + r
    PROVE  a \div l = q /\ a % l = r
<1> DEFINE p == a \div l
           m == a % l
<1>1. p \in Nat /\ m \in 0..l - 1 /\ a = l * p + m
    BY DivMod
<1> HIDE DEF p, m
<1>2. ASSUME q < p PROVE FALSE
    <2>1. q + 1 <= p
        BY <1>1, <1>2
    <2>2. l * (q + 1) <= l * p
        BY <1>1, <2>1
    <2>3. l * (q + 1) = l * q + l
        OBVIOUS
    <2> DEFINE x == l * q
               y == l * p
    <2>4. x \in Nat /\ y \in Nat /\ x + l <= y /\ x + r = y + m
        BY <1>1, <2>2, <2>3
    <2> HIDE DEF x, y
    <2> QED
        BY <1>1, <2>4
<1>3. ASSUME p < q PROVE FALSE
    <2>1. p + 1 <= q
        BY <1>1, <1>3
    <2>2. l * (p + 1) <= l * q
        BY <1>1, <2>1
    <2>3. l * (p + 1) = l * p + l
        BY <1>1
    <2> DEFINE x == l * q
               y == l * p
    <2>4. x \in Nat /\ y \in Nat /\ y + l <= x /\ x + r = y + m
        BY <1>1, <2>2, <2>3
    <2> HIDE DEF x, y
    <2> QED
        BY <1>1, <2>4
<1>4. p = q
    BY <1>1, <1>2, <1>3
<1>5. m = r
    <2> DEFINE x == l * q
    <2>1. x \in Nat /\ x + r = x + m
        BY <1>1, <1>4
    <2> HIDE DEF x
    <2> QED
        BY <1>1, <2>1
<1> QED
    BY <1>4, <1>5 DEF p, m

\* Counting in rounds of l.
LEMMA NextInRound ==
    ASSUME NEW n \in Nat, NEW l \in Nat \ {0}
    PROVE  /\ (n % l) + 1 < l => (n + 1) % l = (n % l) + 1 /\ (n + 1) \div l = n \div l
           /\ ~((n % l) + 1 < l) => (n + 1) % l = 0 /\ (n + 1) \div l = (n \div l) + 1
<1> DEFINE q == n \div l
           r == n % l
<1>1. q \in Nat /\ r \in 0..l - 1 /\ n = l * q + r
    BY DivMod
<1> HIDE DEF q, r
<1>2. l * q \in Nat
    BY <1>1
<1>3. CASE r + 1 < l
    <2>1. n + 1 \in Nat /\ r + 1 \in 0..l - 1 /\ n + 1 = l * q + (r + 1)
        BY <1>1, <1>2, <1>3
    <2>2. (n + 1) % l = r + 1 /\ (n + 1) \div l = q
        BY <1>1, <2>1, DivModOnly
    <2> QED
        BY <1>3, <2>2 DEF q, r
<1>4. CASE ~(r + 1 < l)
    <2>1. l * (q + 1) = l * q + l
        BY <1>1
    <2>2. n + 1 \in Nat /\ 0 \in 0..l - 1 /\ n + 1 = l * (q + 1) + 0 /\ q + 1 \in Nat
        BY <1>1, <1>2, <1>4, <2>1
    <2>3. (n + 1) % l = 0 /\ (n + 1) \div l = q + 1
        BY <2>2, DivModOnly
    <2> QED
        BY <1>4, <2>3 DEF q, r
<1> QED
    BY <1>3, <1>4

LEMMA FirstInRound ==
    ASSUME NEW n \in Nat, NEW l \in Nat \ {0}, n < l
    PROVE  n % l = n /\ n \div l = 0
<1>1. n \in 0..l - 1 /\ n = l * 0 + n /\ 0 \in Nat
    OBVIOUS
<1> QED
    BY <1>1, DivModOnly

\* How often an increment fits below a limit.
LEMMA FitsBelow ==
    ASSUME NEW a \in Nat \ {0}, NEW b \in Nat \ {0}, NEW j \in Nat
    PROVE  /\ (a - 1) \div b \in Nat
           /\ j * b < a <=> j < ((a - 1) \div b) + 1
<1> DEFINE q == (a - 1) \div b
           r == (a - 1) % b
<1>1. q \in Nat /\ r \in 0..b - 1 /\ a - 1 = b * q + r
    <2>1. a - 1 \in Nat
        OBVIOUS
    <2> QED
        BY <2>1, DivMod
<1> HIDE DEF q, r
<1>2. CASE j <= q
    <2>1. j * b <= q * b
        BY <1>1, <1>2
    <2>2. q * b = b * q /\ q * b \in Nat /\ j * b \in Nat
        BY <1>1
    <2> DEFINE x == j * b
               y == b * q
    <2>3. x \in Nat /\ y \in Nat /\ x <= y /\ a - 1 = y + r
        BY <1>1, <2>1, <2>2
    <2> HIDE DEF x, y
    <2>4. x < a
        BY <1>1, <2>3
    <2> QED
        BY <1>1, <1>2, <2>4 DEF q, x
<1>3. CASE q < j
    <2>1. q + 1 <= j
        BY <1>1, <1>3
    <2>2. (q + 1) * b <= j * b
        BY <1>1, <2>1
    <2>3. (q + 1) * b = b * q + b
        BY <1>1
    <2> DEFINE x == j * b
               y == b * q
    <2>4. x \in Nat /\ y \in Nat /\ y + b <= x /\ a - 1 = y + r
        BY <1>1, <2>2, <2>3
    <2> HIDE DEF x, y
    <2>5. ~(x < a)
        BY <1>1, <2>4
    <2> QED
        BY <1>1, <1>3, <2>5 DEF q, x
<1> QED
    BY <1>1, <1>2, <1>3 DEF q

\* The packets of a stride, and the packets of a round through a range.
StrideLength(d) == IF d.strideRange > 0 THEN ((d.strideRange - 1) \div d.strideInc) + 1
                                        ELSE d.strideN
Rounds(d) == ((d.range - 1) \div d.increment) + 1

\* The descriptors that LinearExact speaks of.
Plain(d) == ~d.random /\ d.start = 0 /\ (d.striding => d.range = 0 /\ d.strideN = 0)

\* Where descriptor d is after n packets.
Stands(d, n) ==
    IF d.striding
    THEN LET l == StrideLength(d)
         IN  /\ d.count = n % l /\ d.strides = (n \div l) + 1
             /\ d.from = d.base + (n \div l) * d.increment
             /\ d.next = d.from + (n % l) * d.strideInc
    ELSE d.next = d.base + (IF d.range > 0 THEN n % Rounds(d) ELSE n) * d.increment

\* An address depends on the configuration alone.
LEMMA ConfiguredAlike ==
    ASSUME NEW d, NEW x, Alike(d, x), NEW n
    PROVE  Configured(x, n) = Configured(d, n)
    BY DEF Alike, Configured

LEMMA LengthType ==
    ASSUME NEW d, Shaped(d)
    PROVE  /\ d.striding => StrideLength(d) \in Nat \ {0}
           /\ d.range > 0 /\ d.increment > 0 => Rounds(d) \in Nat \ {0}
<1>1. ASSUME d.striding PROVE StrideLength(d) \in Nat \ {0}
    <2>1. CASE d.strideRange > 0
        <3>1. d.strideRange \in Nat \ {0} /\ d.strideInc \in Nat \ {0} /\ 0 \in Nat
            BY <1>1, <2>1 DEF Shaped, Strides
        <3>2. (d.strideRange - 1) \div d.strideInc \in Nat
            BY <3>1, FitsBelow
        <3> QED
            BY <2>1, <3>2 DEF StrideLength
    <2>2. CASE ~(d.strideRange > 0)
        BY <1>1, <2>2 DEF StrideLength, Shaped, Strides
    <2> QED
        BY <2>1, <2>2
<1>2. ASSUME d.range > 0, d.increment > 0 PROVE Rounds(d) \in Nat \ {0}
    <2>1. d.range \in Nat \ {0} /\ d.increment \in Nat \ {0} /\ 0 \in Nat
        BY <1>2 DEF Shaped
    <2>2. (d.range - 1) \div d.increment \in Nat
        BY <2>1, FitsBelow
    <2> QED
        BY <2>2 DEF Rounds
<1> QED
    BY <1>1, <1>2

\* A descriptor that stands where it should answers the address it should.
LEMMA StandsConfigured ==
    ASSUME NEW d, Shaped(d), NEW n \in Nat, Stands(d, n)
    PROVE  d.next = Configured(d, n + 1)
<1>1. (n + 1) - 1 = n
    OBVIOUS
<1>2. CASE d.striding
    <2> DEFINE l == StrideLength(d)
    <2>1. /\ d.from = d.base + (n \div l) * d.increment
          /\ d.next = d.from + (n % l) * d.strideInc
        BY <1>2 DEF Stands
    <2>2. Configured(d, n + 1) = d.base + (((n + 1) - 1) \div l) * d.increment
                                    + (((n + 1) - 1) % l) * d.strideInc
        BY <1>2 DEF Configured, StrideLength
    <2> HIDE DEF l
    <2>3. Configured(d, n + 1) = d.base + (n \div l) * d.increment + (n % l) * d.strideInc
        BY <1>1, <2>2
    <2> QED
        BY <2>1, <2>3
<1>3. CASE ~d.striding /\ d.range > 0
    <2>1. d.next = d.base + (n % Rounds(d)) * d.increment
        BY <1>3 DEF Stands
    <2>2. Configured(d, n + 1) = d.base + (((n + 1) - 1) % Rounds(d)) * d.increment
        BY <1>3 DEF Configured, Rounds
    <2> QED
        BY <1>1, <2>1, <2>2
<1>4. CASE ~d.striding /\ ~(d.range > 0)
    <2>1. d.next = d.base + n * d.increment
        BY <1>4 DEF Stands
    <2>2. Configured(d, n + 1) = d.base + (((n + 1) - 1) % (n + 1)) * d.increment
        BY <1>4 DEF Configured
    <2>3. n % (n + 1) = n
        <3>1. n + 1 \in Nat \ {0} /\ n < n + 1
            OBVIOUS
        <3> QED
            BY <3>1, FirstInRound
    <2> QED
        BY <1>1, <2>1, <2>2, <2>3
<1> QED
    BY <1>2, <1>3, <1>4

\* At the base, nothing was sent; the first stride has the number 1.
LEMMA StandsFirst ==
    ASSUME NEW d, Shaped(d), NEW x, Shaped(x), Alike(d, x), x.next = d.base, x.from = d.base,
           x.count = 0, d.striding => x.strides = 1, d.range > 0 => d.increment > 0
    PROVE  Stands(x, 0)
<1>1. /\ x.base = d.base /\ x.striding = d.striding /\ x.range = d.range
      /\ x.increment = d.increment
    BY DEF Alike
<1>2. d.base \in Nat /\ x.increment \in Nat /\ x.strideInc \in Nat
    BY DEF Shaped
<1>3. 0 * x.increment = 0 /\ 0 * x.strideInc = 0
    BY <1>2
<1>4. CASE x.striding
    <2> DEFINE l == StrideLength(x)
    <2>1. l \in Nat \ {0} /\ 0 < l
        BY <1>4, LengthType
    <2> HIDE DEF l
    <2>2. 0 % l = 0 /\ 0 \div l = 0
        BY <2>1, FirstInRound
    <2>3. /\ x.count = 0 % l /\ x.strides = (0 \div l) + 1
          /\ x.from = x.base + (0 \div l) * x.increment
          /\ x.next = x.from + (0 % l) * x.strideInc
        BY <1>1, <1>2, <1>3, <1>4, <2>2
    <2> QED
        BY <1>4, <2>3 DEF Stands, l
<1>5. CASE ~x.striding /\ x.range > 0
    <2> DEFINE l == Rounds(x)
    <2>1. l \in Nat \ {0} /\ 0 < l
        BY <1>1, <1>5, LengthType
    <2> HIDE DEF l
    <2>2. 0 % l = 0
        BY <2>1, FirstInRound
    <2>3. x.next = x.base + (0 % l) * x.increment
        BY <1>1, <1>2, <1>3, <2>2
    <2> QED
        BY <1>5, <2>3 DEF Stands, l
<1>6. CASE ~x.striding /\ ~(x.range > 0)
    BY <1>1, <1>2, <1>3, <1>6 DEF Stands
<1> QED
    BY <1>4, <1>5, <1>6

\* From one address to the next, without strides: round the range.
LEMMA LinearAdvances ==
    ASSUME NEW d, Shaped(d), ~d.random, ~d.striding, d.range > 0 => d.increment > 0,
           NEW n \in Nat, Stands(d, n), NEW x \in Advanced(d)
    PROVE  Stands(x, n + 1)
<1> DEFINE a == d.next + d.increment
           y == [d EXCEPT !.next = a]
<1>1. x = IF Beyond(d, a) THEN Rewound(y) ELSE y
    <2>1. PICK z \in Following(d) : x = IF Beyond(d, z.next) THEN Rewound(z) ELSE z
        BY DEF Advanced
    <2>2. z = y
        <3>1. ~InStride(d)
            BY DEF InStride
        <3> QED
            BY <2>1, <3>1 DEF Following
    <2>3. y.next = a
        BY DEF Shaped, Fields, Where
    <2> QED
        BY <2>1, <2>2, <2>3
<1>2. /\ d.base \in Nat /\ d.increment \in Nat /\ d.range \in Nat /\ d.next \in Nat
    BY DEF Shaped
<1>3. /\ y.base = d.base /\ y.increment = d.increment /\ y.range = d.range
      /\ y.striding = d.striding /\ y.next = a /\ Rounds(y) = Rounds(d)
    BY DEF Shaped, Fields, Where, Rounds
<1>4. CASE d.range > 0
    <2> DEFINE l == Rounds(d)
               j == n % l
               m == j * d.increment
    <2>1. l \in Nat \ {0}
        BY <1>4, LengthType
    <2>2. d.next = d.base + m
        BY <1>4 DEF Stands
    <2> HIDE DEF l
    <2>3. j \in 0..l - 1 /\ j \in Nat
        BY <2>1, DivMod
    <2> HIDE DEF j
    <2>4. (j + 1) * d.increment = m + d.increment /\ m \in Nat
        BY <1>2, <2>3
    <2> HIDE DEF m
    <2>5. m + d.increment < d.range <=> j + 1 < l
        <3>1. d.range \in Nat \ {0} /\ d.increment \in Nat \ {0} /\ j + 1 \in Nat
            BY <1>2, <1>4, <2>3
        <3>2. (j + 1) * d.increment < d.range <=> j + 1 < ((d.range - 1) \div d.increment) + 1
            BY <3>1, FitsBelow
        <3> QED
            BY <2>4, <3>2 DEF l, Rounds
    <2>6. Beyond(d, a) <=> ~(m + d.increment < d.range)
        BY <1>2, <1>4, <2>2, <2>4 DEF Beyond
    <2>7. CASE j + 1 < l
        <3>1. x = y
            BY <1>1, <2>5, <2>6, <2>7
        <3>2. (n + 1) % l = j + 1
            BY <2>1, <2>7, NextInRound DEF j
        <3>3. x.next = x.base + ((n + 1) % l) * x.increment
            BY <1>2, <1>3, <2>2, <2>4, <3>1, <3>2
        <3> QED
            BY <1>3, <1>4, <3>1, <3>3 DEF Stands, l
    <2>8. CASE ~(j + 1 < l)
        <3>1. x = Rewound(y)
            BY <1>1, <2>5, <2>6, <2>8
        <3>2. Shaped(y)
            BY <1>2 DEF Shaped, Fields, Where, Strides
        <3>3. Alike(y, x) /\ x.next = y.base
            BY <3>1, <3>2, RewoundWithin
        <3>4. (n + 1) % l = 0
            BY <2>1, <2>8, NextInRound DEF j
        <3>5. 0 * d.increment = 0
            BY <1>2
        <3>6. /\ x.base = d.base /\ x.increment = d.increment /\ x.range = d.range
              /\ ~x.striding /\ Rounds(x) = Rounds(d) /\ x.next = d.base
            BY <1>3, <3>3 DEF Alike, Rounds
        <3>7. x.next = x.base + ((n + 1) % l) * x.increment
            BY <1>2, <3>4, <3>5, <3>6
        <3> QED
            BY <1>4, <3>6, <3>7 DEF Stands, l
    <2> QED
        BY <2>7, <2>8
<1>5. CASE ~(d.range > 0)
    <2>1. x = y
        BY <1>1, <1>5 DEF Beyond
    <2>2. d.next = d.base + n * d.increment
        BY <1>5 DEF Stands
    <2>3. (n + 1) * d.increment = n * d.increment + d.increment /\ n * d.increment \in Nat
        BY <1>2
    <2>4. x.next = x.base + (n + 1) * x.increment
        BY <1>2, <1>3, <2>1, <2>2, <2>3
    <2> QED
        BY <1>3, <1>5, <2>1, <2>4 DEF Stands
<1> QED
    BY <1>4, <1>5

\* From one address to the next, in strides by range.
LEMMA StridesAdvance ==
    ASSUME NEW d, Shaped(d), ~d.random, d.striding, d.range = 0, d.strideN = 0,
           NEW n \in Nat, Stands(d, n), NEW x \in Advanced(d)
    PROVE  Stands(x, n + 1)
<1> DEFINE l == StrideLength(d)
           c == n % l
           u == n \div l
<1>1. x \in Following(d)
    BY DEF Advanced, Beyond
<1>2. /\ d.base \in Nat /\ d.increment \in Nat /\ d.strideInc \in Nat /\ d.strideN \in Nat
      /\ d.strideRange \in Nat /\ d.next \in Nat /\ d.from \in Nat
    BY DEF Shaped
<1>3. l \in Nat \ {0}
    BY LengthType
<1>4. /\ d.count = c /\ d.strides = u + 1 /\ d.from = d.base + u * d.increment
      /\ d.next = d.from + c * d.strideInc
    BY DEF Stands
<1>5. c \in 0..l - 1 /\ c \in Nat /\ u \in Nat
    <2>1. l \in Nat \ {0}
        BY <1>3
    <2> HIDE DEF l
    <2>2. n \div l \in Nat /\ n % l \in 0..l - 1
        BY <2>1, DivMod
    <2>3. c \in 0..l - 1 /\ u \in Nat
        BY <2>2
    <2> HIDE DEF c, u
    <2> QED
        BY <2>1, <2>3
<1> HIDE DEF c, u
<1> DEFINE m == c * d.strideInc
<1>6. (c + 1) * d.strideInc = m + d.strideInc /\ m \in Nat
    BY <1>2, <1>5
<1>7. InStride(d) <=> c + 1 < l
    <2>1. d.strideRange \in Nat \ {0} /\ d.strideInc \in Nat \ {0}
        BY DEF Shaped, Strides
    <2>2. (c + 1) * d.strideInc < d.strideRange <=> c + 1 < ((d.strideRange - 1) \div d.strideInc) + 1
        BY <1>5, <2>1, FitsBelow
    <2>3. l = ((d.strideRange - 1) \div d.strideInc) + 1
        BY <2>1 DEF StrideLength
    <2> HIDE DEF m, l
    <2>4. d.next + d.strideInc < d.from + d.strideRange <=> m + d.strideInc < d.strideRange
        BY <1>2, <1>4, <1>6 DEF m
    <2>5. ~(d.count < d.strideN)
        BY <1>4, <1>5
    <2> QED
        BY <1>6, <2>2, <2>3, <2>4, <2>5 DEF InStride
<1> HIDE DEF l, m
<1>8. CASE c + 1 < l
    <2>1. x = [d EXCEPT !.count = @ + 1, !.next = d.from + (d.count + 1) * d.strideInc]
        BY <1>1, <1>7, <1>8 DEF Following
    <2>2. /\ x.count = c + 1 /\ x.strides = u + 1 /\ x.from = d.from
          /\ x.next = d.from + (c + 1) * d.strideInc /\ x.base = d.base
          /\ x.increment = d.increment /\ x.strideInc = d.strideInc /\ x.striding = d.striding
          /\ StrideLength(x) = StrideLength(d)
        BY <1>4, <2>1 DEF Shaped, Fields, Where, StrideLength
    <2>3. (n + 1) % l = c + 1 /\ (n + 1) \div l = u
        BY <1>3, <1>8, NextInRound DEF c, u
    <2> QED
        BY <1>4, <2>2, <2>3 DEF Stands, l
<1>9. CASE ~(c + 1 < l)
    <2>1. x = At(d, d.base + d.strides * d.increment, d.strides + 1)
        BY <1>1, <1>7, <1>9 DEF Following
    <2>2. d.base + d.strides * d.increment \in Nat /\ d.strides + 1 \in Nat
        BY <1>2, <1>4, <1>5, ProductNat
    <2>3. /\ x.count = 0 /\ x.strides = d.strides + 1 /\ Alike(d, x)
          /\ x.from = d.base + d.strides * d.increment /\ x.next = x.from
        BY <2>1 DEF Shaped, Alike, At, Fields, Where
    <2>4. StrideLength(x) = StrideLength(d) /\ x.striding
          /\ x.base = d.base /\ x.increment = d.increment /\ x.strideInc = d.strideInc
        BY <2>3 DEF Alike, StrideLength
    <2>5. (n + 1) % l = 0 /\ (n + 1) \div l = u + 1
        BY <1>3, <1>9, NextInRound DEF c, u
    <2>6. 0 * d.strideInc = 0 /\ x.from \in Nat
        BY <1>2, <2>2, <2>3
    <2>7. /\ x.count = 0 /\ x.strides = (u + 1) + 1 /\ x.from = x.base + (u + 1) * x.increment
          /\ x.next = x.from + 0 * x.strideInc
        BY <1>4, <2>3, <2>4, <2>6
    <2> QED
        BY <2>4, <2>5, <2>7 DEF Stands, l
<1> QED
    BY <1>8, <1>9

\* The descriptors init() leaves start from where they were configured to.
LEMMA InitialisedFirst ==
    ASSUME NEW p \in Pattern, Strides(p), NEW d \in Initialised(p)
    PROVE  /\ d.range = p.range /\ d.count = 0 /\ d.from = d.next
           /\ d.strides = IF d.striding THEN 1 ELSE 0
           /\ Plain(d) => d.next = d.base
<1> DEFINE blank == [f \in DOMAIN p \cup {"next", "strides", "count", "from"} |->
                        IF f \in DOMAIN p THEN p[f] ELSE 0]
           first == IF p.random THEN RandomAddresses(p)
                    ELSE {IF p.start > 0 THEN p.start ELSE p.base}
<1>1. /\ DOMAIN blank = Fields
      /\ blank = [f \in Fields |-> blank[f]]
    BY DEF Pattern, Fields, Where
<1>2. /\ blank.random = p.random /\ blank.base = p.base /\ blank.range = p.range
      /\ blank.start = p.start /\ blank.striding = p.striding
    BY DEF Pattern
<1>3. d \in {At(blank, a, FirstStride(p)) : a \in first}
    BY DEF Initialised
<1> HIDE DEF blank
<1>4. PICK a \in first : d = At(blank, a, FirstStride(p))
    BY <1>3
<1>5. /\ d.next = a /\ d.strides = FirstStride(p) /\ d.count = 0 /\ d.from = a
      /\ d.random = blank.random /\ d.base = blank.base /\ d.range = blank.range
      /\ d.start = blank.start /\ d.striding = blank.striding
    BY <1>1, <1>4 DEF At, Fields, Where
<1>6. ASSUME Plain(d) PROVE a = d.base
    <2>1. ~p.random /\ ~(p.start > 0)
        BY <1>2, <1>5, <1>6 DEF Plain
    <2> QED
        BY <1>2, <1>4, <1>5, <2>1
<1> QED
    BY <1>2, <1>5, <1>6 DEF FirstStride

\* What the i-th profile sends, with descriptor d, of the types m moved, is q so far.
Tell(i, d, q, m) ==
    /\ Len(q) <= Of(i).toSend
    /\ d.range = IF Of(i).type \in m THEN AutoRange(Of(i).pattern, Of(i).toSend)
                                     ELSE Of(i).pattern.range
    /\ Of(i).toSend > 0 /\ Roomy(i) /\ Plain(d)
       => /\ Stands(d, Len(q))
          /\ \A n \in 1..Len(q) : q[n] = Configured(d, n)

Tells(f, s, m) == \A i \in Nodes : Tell(i, f[i], s[i], m)

\* So for every stream, and for the original before anyone was given one.
Told ==
    /\ clonedStreams = None => Tells(desc[1], sent[1], {})
    /\ \A k \in Callers : given[k] # None => Tells(desc[Own(k)], sent[Own(k)], moved[k])

\* A profile that needs room, and goes through a range, has an increment.
LEMMA Increments ==
    ASSUME conf \in Configs, NEW i \in Nodes, NEW d, Shaped(d), Kept(Of(i).pattern, d),
           Plain(d), Of(i).toSend > 0, Roomy(i)
    PROVE  d.range > 0 => d.increment > 0
<1>1. CASE d.striding
    BY <1>1 DEF Plain
<1>2. CASE ~d.striding
    <2> DEFINE t == Of(i).toSend
               c == d.increment
    <2>1. RangeNeeded(d, t) > 0
        BY KeptNeeds DEF Roomy
    <2>2. RangeNeeded(d, t) = t * c
        BY <1>2 DEF RangeNeeded, Plain
    <2>3. t \in Nat /\ c \in Nat
        BY ConfType DEF Shaped
    <2> HIDE DEF t, c
    <2>4. c = 0 => t * c = 0
        BY <2>3
    <2>5. c > 0
        BY <2>1, <2>2, <2>3, <2>4
    <2> QED
        BY <2>5 DEF c
<1> QED
    BY <1>1, <1>2

\* Nothing was sent yet, and the descriptor is at its base.
LEMMA TellFirst ==
    ASSUME conf \in Configs, NEW i \in Nodes, NEW d, Shaped(d), Kept(Of(i).pattern, d), NEW m,
           d.range = IF Of(i).type \in m THEN AutoRange(Of(i).pattern, Of(i).toSend)
                                         ELSE Of(i).pattern.range,
           d.count = 0, d.from = d.next, Plain(d) => d.next = d.base,
           Of(i).toSend > 0 /\ Roomy(i) /\ Plain(d) /\ d.striding => d.strides = 1
    PROVE  Tell(i, d, <<>>, m)
<1>1. Len(<<>>) = 0 /\ Of(i).toSend \in Nat
    BY ConfType
<1>2. ASSUME Of(i).toSend > 0, Roomy(i), Plain(d) PROVE Stands(d, 0)
    <2>1. d.range > 0 => d.increment > 0
        BY <1>2, Increments
    <2>2. Alike(d, d)
        BY DEF Alike
    <2> QED
        BY <1>2, <2>1, <2>2, StandsFirst
<1> QED
    BY <1>1, <1>2 DEF Tell

LEMMA LoadedTells ==
    ASSUME conf \in Configs, NEW f \in Loaded(conf.stream)
    PROVE  Tells(f, Unsent(conf.stream), {})
<1>1. \A i \in Nodes : f[i] \in Initialised(Of(i).pattern)
    BY DEF Loaded, Nodes, Of
<1>2. SUFFICES ASSUME NEW i \in Nodes PROVE Tell(i, f[i], Unsent(conf.stream)[i], {})
    BY DEF Tells
<1>3. Of(i).pattern \in Pattern /\ Strides(Of(i).pattern) /\ f[i] \in Initialised(Of(i).pattern)
    BY <1>1, ConfType
<1>4. Shaped(f[i]) /\ Kept(Of(i).pattern, f[i])
    BY <1>3, InitialisedShaped
<1>5. /\ f[i].range = Of(i).pattern.range /\ f[i].count = 0 /\ f[i].from = f[i].next
      /\ f[i].strides = IF f[i].striding THEN 1 ELSE 0
      /\ Plain(f[i]) => f[i].next = f[i].base
    BY <1>3, InitialisedFirst
<1>6. Tell(i, f[i], <<>>, {})
    BY <1>4, <1>5, TellFirst
<1>7. Unsent(conf.stream)[i] = <<>>
    BY DEF Unsent, Nodes
<1> QED
    BY <1>6, <1>7

\* A packet more.
LEMMA TellNext ==
    ASSUME conf \in Configs, NEW i \in Nodes, NEW d, Shaped(d), Kept(Of(i).pattern, d), NEW m,
           NEW q \in Seq(Nat), Tell(i, d, q, m), Len(q) < Of(i).toSend, NEW x \in Advanced(d)
    PROVE  Tell(i, x, Append(q, d.next), m)
<1> DEFINE r == Append(q, d.next)
<1>1. Shaped(x) /\ Alike(d, x) /\ d.next \in Nat
    BY AdvancedWithin DEF Shaped
<1>2. /\ Len(q) \in Nat /\ Len(r) = Len(q) + 1 /\ r[Len(q) + 1] = d.next
      /\ \A n \in 1..Len(q) : r[n] = q[n]
    BY <1>1, AppendProperties, LenProperties
<1>3. Of(i).toSend \in Nat
    BY ConfType
<1> HIDE DEF r
<1>4. Len(r) <= Of(i).toSend
    BY <1>2, <1>3
<1>5. x.range = IF Of(i).type \in m THEN AutoRange(Of(i).pattern, Of(i).toSend)
                                     ELSE Of(i).pattern.range
    BY <1>1 DEF Alike, Tell
<1>6. ASSUME Of(i).toSend > 0, Roomy(i), Plain(x)
      PROVE  Stands(x, Len(r)) /\ \A n \in 1..Len(r) : r[n] = Configured(x, n)
    <2>1. Plain(d)
        BY <1>1, <1>6 DEF Plain, Alike
    <2>2. Stands(d, Len(q)) /\ \A n \in 1..Len(q) : q[n] = Configured(d, n)
        BY <1>6, <2>1 DEF Tell
    <2>3. d.range > 0 => d.increment > 0
        BY <1>6, <2>1, Increments
    <2>4. Stands(x, Len(q) + 1)
        <3>1. CASE d.striding
            BY <1>2, <2>1, <2>2, <3>1, StridesAdvance DEF Plain
        <3>2. CASE ~d.striding
            BY <1>2, <2>1, <2>2, <2>3, <3>2, LinearAdvances DEF Plain
        <3> QED
            BY <3>1, <3>2
    <2>5. d.next = Configured(d, Len(q) + 1)
        BY <1>2, <2>2, StandsConfigured
    <2>6. ASSUME NEW n \in 1..Len(r) PROVE r[n] = Configured(x, n)
        <3>1. Configured(x, n) = Configured(d, n)
            BY <1>1, ConfiguredAlike
        <3>2. CASE n = Len(q) + 1
            BY <1>2, <2>5, <3>1, <3>2
        <3>3. CASE n # Len(q) + 1
            <4>1. n \in 1..Len(q)
                BY <1>2, <3>3
            <4> QED
                BY <1>2, <2>2, <3>1, <4>1
        <3> QED
            BY <3>2, <3>3
    <2> QED
        BY <1>2, <2>4, <2>6
<1> QED
    BY <1>4, <1>5, <1>6 DEF Tell, r

LEMMA InitTold == Init => Told
<1> SUFFICES ASSUME Init PROVE Told
    OBVIOUS
<1>1. PICK f \in Loaded(conf.stream) : desc = <<f>>
    BY DEF Init
<1>2. desc[1] = f /\ sent[1] = Unsent(conf.stream) /\ conf \in Configs
    BY <1>1 DEF Init
<1>3. Tells(desc[1], sent[1], {})
    BY <1>2, LoadedTells
<1>4. \A k \in Callers : given[k] = None
    BY DEF Init
<1> QED
    BY <1>3, <1>4 DEF Told

LEMMA UniqueStreamTells ==
    ASSUME IInv, Told, NEW k \in Callers, NEW m, UniqueStream(k, m)
    PROVE  Told'
<1>1. ~exited /\ given[k] = None /\ conf' = conf /\ moved' = moved
    BY DEF UniqueStream
<1>2. conf \in Configs /\ moved[k] = {} /\ clonedStreams \in {None} \cup Nat
    BY <1>1 DEF IInv, Kinds, Givens
<1>3. CASE FirstUse(m)
    <2>1. /\ clonedStreams' = 0 /\ given' = [given EXCEPT ![k] = 0]
          /\ desc' = desc /\ sent' = sent /\ clonedStreams = None
        BY <1>3 DEF UniqueStream, FirstUse
    <2>2. \A l \in Callers : given'[l] = IF l = k THEN 0 ELSE None
        BY <2>1 DEF IInv, Kinds, Givens
    <2>3. Tells(desc[1], sent[1], {})
        BY <2>1 DEF Told
    <2>4. ASSUME NEW l \in Callers, given'[l] # None
          PROVE  Tells(desc[Own(l)], sent[Own(l)], moved[l])'
        <3>1. l = k /\ Own(l)' = 1 /\ moved'[l] = {}
            BY <1>1, <1>2, <2>2, <2>4 DEF Own
        <3>2. desc'[Own(l)'] = desc[1] /\ sent'[Own(l)'] = sent[1]
            BY <2>1, <3>1
        <3> QED
            BY <1>1, <2>3, <3>1, <3>2 DEF Tells, Tell, Nodes, Of, Roomy
    <2>5. clonedStreams' # None
        BY <2>1 DEF None
    <2> QED
        BY <2>4, <2>5 DEF Told
<1>4. CASE ~FirstUse(m)
    <2> DEFINE n == Max({clonedStreams, 0}) + 1
    <2>1. /\ clonedStreams' = n /\ given' = [given EXCEPT ![k] = n]
          /\ \E f \in Loaded(conf.stream) : desc' = Append(desc, f)
          /\ sent' = Append(sent, Unsent(conf.stream))
        BY <1>4 DEF UniqueStream
    <2>2. n = Copies /\ n \in Nat /\ n > 0
        BY <1>2, MaxOf DEF Copies, None
    <2> HIDE DEF n
    <2>3. PICK f \in Loaded(conf.stream) : desc' = Append(desc, f)
        BY <2>1
    <2>4. desc = [j \in 1..n |-> desc[j]] /\ sent = [j \in 1..n |-> sent[j]]
        BY <2>2 DEF IInv, Kinds
    <2>5. /\ desc' = [j \in 1..n + 1 |-> IF j = n + 1 THEN f ELSE desc[j]]
          /\ sent' = [j \in 1..n + 1 |-> IF j = n + 1 THEN Unsent(conf.stream) ELSE sent[j]]
        BY <2>1, <2>2, <2>3, <2>4, AppendTo
    <2>6. \A l \in Callers : given'[l] = IF l = k THEN n ELSE given[l]
        BY <2>1 DEF IInv, Kinds
    <2>7. Tells(f, Unsent(conf.stream), {})
        BY <1>2, LoadedTells
    <2>8. ASSUME NEW l \in Callers, given'[l] # None
          PROVE  Tells(desc[Own(l)], sent[Own(l)], moved[l])'
        <3>1. CASE l = k
            <4>1. Own(l)' = n + 1 /\ moved'[l] = {} /\ n + 1 \in 1..n + 1
                BY <1>1, <1>2, <2>2, <2>6, <3>1 DEF Own
            <4>2. desc'[Own(l)'] = f /\ sent'[Own(l)'] = Unsent(conf.stream)
                BY <2>5, <4>1
            <4> QED
                BY <1>1, <2>7, <4>1, <4>2 DEF Tells, Tell, Nodes, Of, Roomy
        <3>2. CASE l # k
            <4>1. given[l] # None /\ Own(l)' = Own(l) /\ Own(l) \in 1..n
                BY <2>2, <2>6, <2>8, <3>2, OwnOne DEF Own
            <4>2. desc'[Own(l)'] = desc[Own(l)] /\ sent'[Own(l)'] = sent[Own(l)]
                BY <2>2, <2>5, <4>1
            <4>3. Tells(desc[Own(l)], sent[Own(l)], moved[l])
                BY <4>1 DEF Told
            <4> QED
                BY <1>1, <4>2, <4>3 DEF Tells, Tell, Nodes, Of, Roomy
        <3> QED
            BY <3>1, <3>2
    <2>9. clonedStreams' # None
        BY <2>1, <2>2 DEF None
    <2> QED
        BY <2>8, <2>9 DEF Told
<1> QED
    BY <1>3, <1>4

\* A step of one caller on its own stream.
LEMMA ToldOf ==
    ASSUME IInv, Told, NEW k \in Callers, given[k] # None, NEW f, NEW s, NEW m,
           desc' = [desc EXCEPT ![Own(k)] = f], sent' = [sent EXCEPT ![Own(k)] = s],
           moved' = [moved EXCEPT ![k] = m], UNCHANGED <<conf, clonedStreams, given>>,
           Tells(f, s, m)
    PROVE  Told'
<1>1. /\ conf' = conf /\ clonedStreams' = clonedStreams /\ given' = given
      /\ clonedStreams # None
    BY DEF IInv, Givens
<1>2. Own(k) \in 1..Copies
    BY OwnOne
<1>3. desc = [n \in 1..Copies |-> desc[n]] /\ sent = [n \in 1..Copies |-> sent[n]]
    BY DEF IInv, Kinds
<1>4. \A n \in 1..Copies : /\ desc'[n] = IF n = Own(k) THEN f ELSE desc[n]
                           /\ sent'[n] = IF n = Own(k) THEN s ELSE sent[n]
    BY <1>3
<1>5. \A l \in Callers : moved'[l] = IF l = k THEN m ELSE moved[l]
    BY DEF IInv, Kinds
<1>6. ASSUME NEW l \in Callers, given[l] # None
      PROVE  Tells(desc[Own(l)], sent[Own(l)], moved[l])'
    <2>1. Own(l)' = Own(l)
        BY <1>1 DEF Own
    <2>2. CASE l = k
        <3>1. desc'[Own(l)'] = f /\ sent'[Own(l)'] = s /\ moved'[l] = m
            BY <1>2, <1>4, <1>5, <2>1, <2>2
        <3> QED
            BY <1>1, <3>1 DEF Tells, Tell, Nodes, Of, Roomy
    <2>3. CASE l # k
        <3>1. Own(l) \in 1..Copies /\ Own(l) # Own(k)
            BY <1>6, <2>3, OwnOne
        <3>2. desc'[Own(l)'] = desc[Own(l)] /\ sent'[Own(l)'] = sent[Own(l)] /\ moved'[l] = moved[l]
            BY <1>4, <1>5, <2>1, <2>3, <3>1
        <3>3. Tells(desc[Own(l)], sent[Own(l)], moved[l])
            BY <1>6 DEF Told
        <3> QED
            BY <1>1, <3>2, <3>3 DEF Tells, Tell, Nodes, Of, Roomy
    <2> QED
        BY <2>2, <2>3
<1> QED
    BY <1>1, <1>6 DEF Told

LEMMA SendTells ==
    ASSUME IInv, Told, NEW k \in Callers, NEW i \in Nodes, SendPacket(k, i)
    PROVE  Told'
<1> DEFINE f == desc[Own(k)]
           s == sent[Own(k)]
           m == moved[k]
<1>1. /\ given[k] # None /\ Len(s[i]) < Of(i).toSend
      /\ UNCHANGED <<conf, clonedStreams, given, moved, exited>>
    BY DEF SendPacket, Ready
<1>2. PICK x \in Advanced(f[i]) : desc' = [desc EXCEPT ![Own(k)][i] = x]
    BY DEF SendPacket
<1> DEFINE g == [f EXCEPT ![i] = x]
           t == [s EXCEPT ![i] = Append(s[i], f[i].next)]
<1>3. desc' = [desc EXCEPT ![Own(k)] = g] /\ sent' = [sent EXCEPT ![Own(k)] = t]
    BY <1>2 DEF SendPacket
<1>4. Streamed(f, s) /\ moved' = [moved EXCEPT ![k] = m] /\ conf \in Configs
    BY <1>1, OwnStream
<1>5. Shaped(f[i]) /\ Kept(Of(i).pattern, f[i]) /\ s[i] \in Seq(Nat)
    BY <1>4 DEF Streamed
<1>6. \A j \in Nodes : Tell(j, f[j], s[j], m)
    BY <1>1 DEF Told, Tells
<1>7. Tell(i, x, Append(s[i], f[i].next), m)
    BY <1>1, <1>4, <1>5, <1>6, TellNext
<1>8. \A j \in Nodes : /\ g[j] = IF j = i THEN x ELSE f[j]
                       /\ t[j] = IF j = i THEN Append(s[i], f[i].next) ELSE s[j]
    BY <1>4 DEF Streamed
<1> HIDE DEF f, s, m, g, t
<1>9. Tells(g, t, m)
    BY <1>6, <1>7, <1>8 DEF Tells
<1> QED
    BY <1>1, <1>3, <1>4, <1>9, ToldOf

LEMMA ResetTells ==
    ASSUME IInv, Told, NEW k \in Callers, ResetStream(k)
    PROVE  Told'
<1> DEFINE f == desc[Own(k)]
           s == sent[Own(k)]
           m == moved[k]
           g == [i \in Nodes |-> Rewound(f[i])]
           t == Unsent(conf.stream)
<1>1. /\ given[k] # None
      /\ UNCHANGED <<conf, clonedStreams, given, moved, exited>>
      /\ desc' = [desc EXCEPT ![Own(k)] = g] /\ sent' = [sent EXCEPT ![Own(k)] = t]
    BY DEF ResetStream, Ready
<1>2. Streamed(f, s) /\ moved' = [moved EXCEPT ![k] = m] /\ conf \in Configs
    BY <1>1, OwnStream
<1>3. \A i \in Nodes : Tell(i, f[i], s[i], m)
    BY <1>1 DEF Told, Tells
<1>4. ASSUME NEW i \in Nodes PROVE Tell(i, g[i], t[i], m)
    <2> DEFINE d == f[i]
               x == Rewound(d)
    <2>1. g[i] = x /\ t[i] = <<>>
        BY DEF Unsent, Nodes
    <2>2. Shaped(d) /\ Kept(Of(i).pattern, d)
        BY <1>2 DEF Streamed
    <2>3. d.range = IF Of(i).type \in m THEN AutoRange(Of(i).pattern, Of(i).toSend)
                                         ELSE Of(i).pattern.range
        BY <1>3 DEF Tell
    <2> HIDE DEF f, s, m, g, t, d
    <2>4. Shaped(x) /\ Alike(d, x) /\ x.next = d.base /\ x.from = d.base
        BY <2>2, RewoundWithin
    <2>5. x.count = 0 /\ x.strides = FirstStride(d)
        BY <2>2 DEF Rewound, At, Shaped, Fields, Where
    <2> HIDE DEF x
    <2>6. Kept(Of(i).pattern, x) /\ x.range = d.range /\ x.base = d.base /\ x.striding = d.striding
        BY <2>2, <2>4 DEF Kept, Alike
    <2>7. Tell(i, x, <<>>, m)
        BY <1>2, <2>3, <2>4, <2>5, <2>6, TellFirst DEF FirstStride
    <2> QED
        BY <2>1, <2>7
<1> HIDE DEF f, s, m, g, t
<1>5. Tells(g, t, m)
    BY <1>4 DEF Tells
<1> QED
    BY <1>1, <1>2, <1>5, ToldOf

LEMMA ConfigureTells ==
    ASSUME IInv, Told, NEW k \in Callers, NEW type \in Types, ConfigureStream(k, type)
    PROVE  Told'
<1> DEFINE f == desc[Own(k)]
           s == sent[Own(k)]
           m == moved[k] \cup {type}
           base == BufferBase(k, type)
           end == Ends(f, type, base)
           g == [i \in Nodes |-> IF Of(i).type = type
                                 THEN Moved(f[i], end[i - 1], end[i] - end[i - 1]) ELSE f[i]]
           N == Len(conf.stream)
<1>1. /\ given[k] # None /\ type \notin moved[k] /\ s = Unsent(conf.stream)
      /\ UNCHANGED <<conf, clonedStreams, given, sent>>
    BY DEF ConfigureStream
<1>2. desc' = [desc EXCEPT ![Own(k)] = g] /\ moved' = [moved EXCEPT ![k] = m]
    BY DEF ConfigureStream
<1>3. Streamed(f, s) /\ conf \in Configs
    BY <1>1, OwnStream
<1>4. sent' = [sent EXCEPT ![Own(k)] = s]
    <2>1. sent = [n \in 1..Copies |-> sent[n]] /\ Own(k) \in 1..Copies
        BY <1>1, OwnOne DEF IInv, Kinds
    <2> QED
        BY <1>1, <2>1
<1>5. \A i \in Nodes : /\ Shaped(f[i]) /\ Kept(Of(i).pattern, f[i])
                      /\ AutoRange(f[i], Of(i).toSend) \in Nat
    BY <1>3, ConfType, AutoRangeType DEF Streamed
<1>6. base \in Nat
    BY <1>3, ConfType, BufferType DEF Types
<1> HIDE DEF base
<1>7. /\ end[0] = base
      /\ \A n \in 0..N : end[n] \in Int
      /\ \A n \in 1..N : end[n] = end[n - 1] +
            IF Of(n).type = type THEN AutoRange(f[n], Of(n).toSend) ELSE 0
      /\ \A a, n \in 0..N : a <= n => end[a] <= end[n]
    BY <1>3, <1>5, <1>6, ConfType, EndsGrow
<1>8. Nodes = 1..N /\ N \in Nat
    BY <1>3, ConfType
<1>9. \A i \in Nodes : Tell(i, f[i], s[i], moved[k])
    BY <1>1 DEF Told, Tells
<1>10. \A i \in Nodes : s[i] = <<>>
    BY <1>1 DEF Unsent, Nodes
<1>11. ASSUME NEW i \in Nodes, Of(i).type # type PROVE Tell(i, g[i], s[i], m)
    <2>1. g[i] = f[i] /\ (Of(i).type \in m <=> Of(i).type \in moved[k])
        BY <1>11
    <2>2. Tell(i, f[i], s[i], moved[k])
        BY <1>9
    <2> HIDE DEF f, s, m, g
    <2> QED
        BY <2>1, <2>2 DEF Tell
<1>12. ASSUME NEW i \in Nodes, Of(i).type = type PROVE Tell(i, g[i], s[i], m)
    <2> DEFINE d == f[i]
               b == end[i - 1]
               r == AutoRange(d, Of(i).toSend)
               x == Moved(d, b, r)
    <2>1. b \in Nat /\ end[i] - end[i - 1] = r
        <3>1. i \in 1..N /\ i - 1 \in 0..N /\ i \in 0..N /\ 0 \in 0..N /\ 0 <= i - 1
            BY <1>8
        <3>2. end[i - 1] \in Int /\ end[i] \in Int /\ base <= end[i - 1]
            BY <1>7, <3>1
        <3>3. end[i] = end[i - 1] + r /\ r \in Nat
            BY <1>5, <1>7, <1>12, <3>1
        <3> HIDE DEF r, end
        <3> QED
            BY <1>6, <3>2, <3>3
    <2>2. g[i] = x /\ s[i] = <<>> /\ Of(i).type \in m
        BY <1>10, <1>12, <2>1
    <2>3. Shaped(d) /\ Kept(Of(i).pattern, d) /\ r \in Nat
        BY <1>5
    <2>4. d.range = Of(i).pattern.range
        BY <1>1, <1>9, <1>12 DEF Tell
    <2>5. r = AutoRange(Of(i).pattern, Of(i).toSend)
        BY <2>3, <2>4, KeptNeeds DEF AutoRange
    <2>6. Of(i).toSend \in Nat
        BY <1>3, ConfType
    <2>7. Of(i).toSend > 0 /\ Roomy(i) => r > 0
        <3>1. SUFFICES ASSUME Of(i).toSend > 0, Roomy(i) PROVE r > 0
            OBVIOUS
        <3>2. RangeNeeded(d, Of(i).toSend) > 0
            BY <2>3, <3>1, KeptNeeds DEF Roomy
        <3> HIDE DEF d
        <3> QED
            BY <2>3, <2>6, <3>1, <3>2, AutoRangePositive
    <2> HIDE DEF f, s, m, g, d, b, r, end
    <2>8. /\ Shaped(x) /\ x.base = b /\ x.range = r /\ x.next = b /\ x.from = b
        BY <2>1, <2>3, MovedShaped
    <2>9. Kept(Of(i).pattern, x) /\ x.count = 0
        <3>1. Kept(d, x) /\ x.count = 0
            BY <2>3 DEF Moved, At, Kept, Shaped, Fields, Where
        <3> QED
            BY <2>3, <3>1 DEF Kept
    <2> HIDE DEF x
    <2>10. Of(i).toSend > 0 /\ Roomy(i) /\ Plain(x) /\ x.striding => x.strides = 1
        BY <2>1, <2>3, <2>7, <2>8 DEF Plain
    <2>11. Tell(i, x, <<>>, m)
        BY <1>3, <2>2, <2>5, <2>8, <2>9, <2>10, TellFirst
    <2> QED
        BY <2>2, <2>11
<1> HIDE DEF f, s, m, g
<1>13. Tells(g, s, m)
    BY <1>11, <1>12 DEF Tells
<1> QED
    BY <1>1, <1>2, <1>4, <1>13, ToldOf

LEMMA StepTold == IInv /\ Told /\ [Next]_vars => Told'
<1> SUFFICES ASSUME IInv, Told, [Next]_vars PROVE Told'
    OBVIOUS
<1>1. ASSUME NEW k \in Callers, NEW m \in Masters \cup {NoMaster}, UniqueStream(k, m) PROVE Told'
    BY <1>1, UniqueStreamTells
<1>2. ASSUME NEW k \in Callers, NEW type \in Types, ConfigureStream(k, type) PROVE Told'
    BY <1>2, ConfigureTells
<1>3. ASSUME NEW k \in Callers, NEW i \in Nodes, SendPacket(k, i) PROVE Told'
    BY <1>3, SendTells
<1>4. ASSUME NEW k \in Callers, ResetStream(k) PROVE Told'
    BY <1>4, ResetTells
<1>5. CASE UNCHANGED vars
    <2>1. UNCHANGED <<conf, clonedStreams, given, desc, sent, moved, exited>>
        BY <1>5 DEF vars
    <2>2. \A k \in Callers : Own(k)' = Own(k)
        BY <2>1 DEF Own
    <2>3. clonedStreams' = None => Tells(desc[1], sent[1], {})'
        BY <2>1 DEF Told, Tells, Tell, Nodes, Of, Roomy
    <2>4. ASSUME NEW k \in Callers, given'[k] # None
          PROVE  Tells(desc[Own(k)], sent[Own(k)], moved[k])'
        <3>1. Tells(desc[Own(k)], sent[Own(k)], moved[k])
            BY <2>1, <2>4 DEF Told
        <3>2. /\ desc'[Own(k)'] = desc[Own(k)] /\ sent'[Own(k)'] = sent[Own(k)]
              /\ moved'[k] = moved[k] /\ conf' = conf
            BY <2>1, <2>2
        <3> QED
            BY <3>1, <3>2 DEF Tells, Tell, Nodes, Of, Roomy
    <2> QED
        BY <2>3, <2>4 DEF Told
<1> QED
    BY <1>1, <1>2, <1>3, <1>4, <1>5 DEF Next

\* A linear profile that was given the room it needs uses it once.
LEMMA SentOnce ==
    ASSUME conf \in Configs, NEW i \in Nodes, NEW d, Shaped(d), Kept(Of(i).pattern, d),
           Plain(d), ~d.striding, Of(i).toSend > 0, Roomy(i), Of(i).pattern.range = 0,
           d.range = AutoRange(Of(i).pattern, Of(i).toSend),
           NEW n \in 1..Of(i).toSend, NEW l \in 1..Of(i).toSend,
           Configured(d, n) = Configured(d, l)
    PROVE  n = l
<1> DEFINE t == Of(i).toSend
           c == d.increment
           w == t * c
<1>1. t \in Nat \ {0} /\ c \in Nat /\ d.base \in Nat
    BY ConfType DEF Shaped
<1>2. d.range = w
    <2>1. d.range = RangeNeeded(Of(i).pattern, t)
        BY DEF AutoRange
    <2>2. RangeNeeded(d, t) = w
        BY DEF RangeNeeded, Plain
    <2> QED
        BY <2>1, <2>2, KeptNeeds
<1>3. w > 0
    <2>1. RangeNeeded(d, t) > 0
        BY KeptNeeds DEF Roomy
    <2> QED
        BY <2>1 DEF RangeNeeded, Plain
<1> HIDE DEF t, c
<1>4. c \in Nat \ {0} /\ w \in Nat \ {0}
    <2>1. c = 0 => t * c = 0
        BY <1>1
    <2>2. t * c \in Nat
        BY <1>1
    <2> QED
        BY <1>1, <1>3, <2>1, <2>2
<1> DEFINE rounds == ((w - 1) \div c) + 1
<1>5. rounds \in Nat \ {0} /\ t <= rounds
    <2> HIDE DEF w
    <2>1. (w - 1) \div c \in Nat
        BY <1>4, FitsBelow
    <2>2. t - 1 \in Nat
        BY <1>1
    <2>3. (t - 1) * c < w <=> t - 1 < rounds
        BY <1>4, <2>2, FitsBelow
    <2>4. (t - 1) * c = w - c
        BY <1>1 DEF w
    <2>5. t - 1 < rounds
        BY <1>4, <2>3, <2>4
    <2> HIDE DEF rounds
    <2>6. rounds \in Nat \ {0}
        BY <2>1 DEF rounds
    <2> QED
        BY <1>1, <2>5, <2>6
<1> HIDE DEF w, rounds
<1>6. ASSUME NEW j \in 1..t PROVE Configured(d, j) = d.base + (j - 1) * c
    <2>1. Configured(d, j) = d.base + ((j - 1) % rounds) * c
        BY <1>2, <1>4 DEF Configured, rounds, c
    <2>2. (j - 1) % rounds = j - 1
        <3>1. j - 1 \in Nat /\ j - 1 < rounds
            BY <1>1, <1>5
        <3> QED
            BY <1>5, <3>1, FirstInRound
    <2> QED
        BY <2>1, <2>2
<1>7. (n - 1) * c = (l - 1) * c
    <2>1. d.base + (n - 1) * c = d.base + (l - 1) * c
        BY <1>6 DEF t
    <2>2. n \in Nat /\ l \in Nat
        BY <1>1 DEF t
    <2>3. (n - 1) * c \in Int /\ (l - 1) * c \in Int
        BY <1>4, <2>2
    <2> QED
        BY <1>1, <2>1, <2>3
<1>8. n - 1 \in Int /\ l - 1 \in Int /\ n \in Int /\ l \in Int
    BY <1>1 DEF t
<1>9. ASSUME n < l PROVE FALSE
    <2>1. n <= l - 1
        BY <1>8, <1>9
    <2>2. n * c <= (l - 1) * c
        BY <1>4, <1>8, <2>1
    <2>3. (n - 1) * c = n * c - c
        BY <1>4, <1>8
    <2>4. n * c \in Int /\ (l - 1) * c \in Int
        BY <1>4, <1>8
    <2> QED
        BY <1>4, <1>7, <2>2, <2>3, <2>4
<1>10. ASSUME l < n PROVE FALSE
    <2>1. l <= n - 1
        BY <1>8, <1>10
    <2>2. l * c <= (n - 1) * c
        BY <1>4, <1>8, <2>1
    <2>3. (l - 1) * c = l * c - c
        BY <1>4, <1>8
    <2>4. l * c \in Int /\ (n - 1) * c \in Int
        BY <1>4, <1>8
    <2> QED
        BY <1>4, <1>7, <2>2, <2>3, <2>4
<1> QED
    BY <1>8, <1>9, <1>10

\* What a linear profile, or one with strides by range, sends is known from its
\* configuration and the place it was given, before and after moves and resets
\* (PacketDesc::getAddress, addressReconfigure, autoRange), and one that was given
\* the room it needs uses no address twice, under the same condition.
THEOREM Addresses ==
    ASSUME \A c \in Configs : \A i \in DOMAIN c.stream :
               LET p == c.stream[i] IN p.toSend > 0 => RangeNeeded(p.pattern, p.toSend) > 0
    PROVE  Spec => []AddressesExact
<1>1. IInv /\ Told => AddressesExact
    <2> SUFFICES ASSUME IInv, Told, NEW k \in Callers, given[k] # None, NEW i \in Nodes
                 PROVE  LET d == desc[Own(k)][i] IN
                        /\ /\ ~d.random /\ d.start = 0
                           /\ d.striding => d.range = 0 /\ d.strideN = 0
                           => Sends(k, i)
                        /\ /\ ~d.random /\ ~d.striding /\ d.start = 0
                           /\ Of(i).type \in moved[k] /\ conf.stream[i].pattern.range = 0
                           => IsInjective(sent[Own(k)][i])
        BY DEF AddressesExact, LinearExact, NoRepeat
    <2> DEFINE d == desc[Own(k)][i]
               q == sent[Own(k)][i]
    <2>1. conf \in Configs /\ Shaped(d) /\ Kept(Of(i).pattern, d) /\ q \in Seq(Nat)
        BY OwnStream DEF Streamed
    <2>2. Roomy(i)
        BY <2>1 DEF Roomy, Of, Nodes
    <2>3. Tell(i, d, q, moved[k])
        BY DEF Told, Tells
    <2>4. Of(i).toSend \in Nat /\ Len(q) \in Nat /\ DOMAIN q = 1..Len(q)
        BY <2>1, ConfType, LenProperties
    <2> HIDE DEF d, q
    <2>5. ASSUME Plain(d), NEW n \in DOMAIN q PROVE q[n] = Configured(d, n) /\ n \in 1..Of(i).toSend
        <3>1. n \in 1..Len(q) /\ Len(q) <= Of(i).toSend
            BY <2>3, <2>4 DEF Tell
        <3>2. Of(i).toSend > 0 /\ n \in 1..Of(i).toSend
            BY <2>4, <3>1
        <3> QED
            BY <2>2, <2>3, <2>5, <3>1, <3>2 DEF Tell
    <2>6. Plain(d) => Sends(k, i)
        BY <2>5 DEF Sends, d, q
    <2>7. ASSUME Plain(d), ~d.striding, Of(i).type \in moved[k], Of(i).pattern.range = 0,
                 NEW n \in DOMAIN q, NEW l \in DOMAIN q, q[n] = q[l]
          PROVE  n = l
        <3>1. /\ Configured(d, n) = Configured(d, l)
              /\ n \in 1..Of(i).toSend /\ l \in 1..Of(i).toSend
            BY <2>5, <2>7
        <3>2. Of(i).toSend > 0
            BY <2>4, <3>1
        <3>3. d.range = AutoRange(Of(i).pattern, Of(i).toSend)
            BY <2>3, <2>7 DEF Tell
        <3> QED
            BY <2>1, <2>2, <2>7, <3>1, <3>2, <3>3, SentOnce
    <2>8. Plain(d) /\ ~d.striding /\ Of(i).type \in moved[k] /\ Of(i).pattern.range = 0
          => IsInjective(q)
        BY <2>7 DEF IsInjective
    <2> QED
        BY <2>6, <2>8 DEF Plain, d, q, Of
<1>2. Spec => []Told
    BY InitTold, StepTold, InvHolds, PTL DEF Spec
<1> QED
    BY <1>1, <1>2, InvHolds, PTL
=============================================================================
