-------------------------- MODULE SchedulingProofs --------------------------
(***************************************************************************)
(* What is proved of the two components that decide when the engine runs:  *)
(* Kronos, for every bucket width, calendar size and horizon, and the gem5 *)
(* adapter, for any masters, packets, memories and clocks.  They share no  *)
(* state; what they share is the arithmetic of times.                      *)
(*                                                                         *)
(* Of the adapter, the account of each master's packets (Account) is kept  *)
(* by every update, answer and retry, and the simulation is done only when *)
(* all of them have been answered.                                         *)
(***************************************************************************)
EXTENDS Kronos, Adapter, FiniteSetTheorems, SequenceTheorems,
        WellFoundedInduction, TLAPS

(***************************************************************************)
(* Arithmetic of buckets.                                                  *)
(***************************************************************************)

\* A non-empty set of naturals has a smallest element.
LEMMA LeastNatural ==
    ASSUME NEW T \in SUBSET Nat, T # {}
    PROVE  \E x \in T : \A y \in T : x <= y
<1>1. IsWellFoundedOn(OpToRel(<, Nat), Nat)
    BY NatLessThanWellFounded
<1>2. PICK x \in T : \A y \in T : ~(<<y, x>> \in OpToRel(<, Nat))
    BY <1>1, WFMin
<1>3. \A y \in T : ~(y < x)
    BY <1>2 DEF OpToRel
<1> QED
    BY <1>3

\* The slot of a time is a bucket of the calendar.
LEMMA BucketOfType ==
    ASSUME NEW t \in Nat
    PROVE  BucketOf(t) \in Buckets
<1>1. Quantum(t) \in Nat
    BY WidthAssumption DEF Quantum
<1> QED
    BY <1>1, SizeAssumption DEF BucketOf, Buckets

(***************************************************************************)
(* The lists of a bucket.                                                  *)
(***************************************************************************)

\* Leading(s, t) counts the longest prefix of s that is not later than t.
LEMMA LeadingSpec ==
    ASSUME NEW s \in Seq(Events), NEW t \in Int
    PROVE  /\ Leading(s, t) \in 0 .. Len(s)
           /\ \A i \in 1 .. Leading(s, t) : s[i].time <= t
           /\ Leading(s, t) < Len(s) => s[Leading(s, t) + 1].time > t
<1> DEFINE T == {n \in Nat : n < Len(s) => s[n + 1].time > t}
<1>1. Len(s) \in T
    OBVIOUS
<1>2. PICK n \in T : \A m \in T : n <= m
    BY <1>1, LeastNatural
<1>3. n \in 0 .. Len(s)
    BY <1>1, <1>2
<1>4. ASSUME NEW i \in 1 .. n
      PROVE  s[i].time <= t
    <2>1. i - 1 \in Nat /\ i - 1 \notin T
        BY <1>2
    <2>2. i - 1 < Len(s) /\ ~(s[i].time > t)
        BY <2>1
    <2>3. s[i] \in Events
        BY <2>2, <1>3
    <2> QED
        BY <2>2, <2>3 DEF Events
<1>5. n < Len(s) => s[n + 1].time > t
    BY <1>2
<1> QED
    BY <1>3, <1>4, <1>5 DEF Leading

\* Insert(s, e) is s with e put in after the entries that are earlier than e.
LEMMA InsertSpec ==
    ASSUME NEW s \in Seq(Events), NEW e \in Events
    PROVE  LET n == Leading(s, e.time - 1)
           IN  /\ n \in 0 .. Len(s)
               /\ Insert(s, e) \in Seq(Events)
               /\ Len(Insert(s, e)) = Len(s) + 1
               /\ \A i \in 1 .. Len(s) + 1 :
                    Insert(s, e)[i] = IF i <= n THEN s[i]
                                      ELSE IF i = n + 1 THEN e ELSE s[i - 1]
<1> DEFINE n == Leading(s, e.time - 1)
<1>1. e.time - 1 \in Int
    BY DEF Events
<1>2. n \in 0 .. Len(s)
    BY <1>1, LeadingSpec
<1> HIDE DEF n
<1> DEFINE A == SubSeq(s, 1, n)
           B == SubSeq(s, n + 1, Len(s))
<1>3. A \in Seq(Events) /\ Len(A) = n /\ \A i \in 1 .. n : A[i] = s[i]
    BY <1>2
<1>4. /\ B \in Seq(Events) /\ Len(B) = Len(s) - n
      /\ \A i \in 1 .. Len(s) - n : B[i] = s[i + n]
    BY <1>2
<1>5. Insert(s, e) = (A \o <<e>>) \o B
    BY DEF Insert, n
<1> HIDE DEF A, B
<1> DEFINE C == A \o <<e>>
<1>6. /\ C \in Seq(Events) /\ Len(C) = n + 1
      /\ \A i \in 1 .. n + 1 : C[i] = IF i <= n THEN A[i] ELSE e
    BY <1>2, <1>3
<1> HIDE DEF C
<1>7. /\ C \o B \in Seq(Events) /\ Len(C \o B) = Len(s) + 1
      /\ \A i \in 1 .. Len(s) + 1 :
            (C \o B)[i] = IF i <= n + 1 THEN C[i] ELSE B[i - (n + 1)]
    BY <1>2, <1>4, <1>6, ConcatProperties
<1>8. ASSUME NEW i \in 1 .. Len(s) + 1
      PROVE  Insert(s, e)[i] = IF i <= n THEN s[i]
                               ELSE IF i = n + 1 THEN e ELSE s[i - 1]
    <2>1. Insert(s, e)[i] = IF i <= n + 1 THEN C[i] ELSE B[i - (n + 1)]
        BY <1>5, <1>7 DEF C
    <2>2. i <= n + 1 => C[i] = IF i <= n THEN s[i] ELSE e
        BY <1>2, <1>3, <1>6
    <2>3. i > n + 1 => B[i - (n + 1)] = s[i - 1]
        BY <1>2, <1>4
    <2> QED
        BY <1>2, <2>1, <2>2, <2>3
<1> QED
    BY <1>2, <1>5, <1>7, <1>8 DEF n, C

\* What get() takes from a list are its entries that are due, from the front,
\* and what it keeps is the rest in the same order.
LEMMA PopSpec ==
    ASSUME NEW s \in Seq(Events), NEW t \in Nat
    PROVE  LET n == Leading(s, t)
           IN  /\ n \in 0 .. Len(s)
               /\ Kept(s, t) \in Seq(Events)
               /\ Len(Kept(s, t)) = Len(s) - n
               /\ \A i \in 1 .. Len(s) - n : Kept(s, t)[i] = s[i + n]
               /\ Popped(s, t) = {s[i] : i \in 1 .. n}
<1> DEFINE n == Leading(s, t)
<1>1. n \in 0 .. Len(s)
    BY LeadingSpec
<1> HIDE DEF n
<1>2. Kept(s, t) = SubSeq(s, n + 1, Len(s))
    BY DEF Kept, n
<1>3. Kept(s, t) \in Seq(Events) /\ Len(Kept(s, t)) = Len(s) - n
    BY <1>1, <1>2
<1>4. \A i \in 1 .. Len(s) - n : Kept(s, t)[i] = s[i + n]
    BY <1>1, <1>2
<1>5. Popped(s, t) = {s[i] : i \in 1 .. n}
    <2>1. Len(SubSeq(s, 1, n)) = n /\ \A i \in 1 .. n : SubSeq(s, 1, n)[i] = s[i]
        BY <1>1
    <2> QED
        BY <2>1 DEF Popped, Held, n
<1> QED
    BY <1>1, <1>3, <1>4, <1>5 DEF n

(***************************************************************************)
(* Arithmetic of the cursor.                                               *)
(***************************************************************************)

\* Quotient and remainder are the only pair that decomposes a number.
LEMMA DivisionUnique ==
    ASSUME NEW k \in Nat, NEW r \in Buckets
    PROVE  (k * Size + r) % Size = r
<1> DEFINE a == k * Size + r
           p == a \div Size
           m == a % Size
<1>1. a \in Nat /\ p \in Nat /\ m \in 0 .. Size - 1 /\ a = p * Size + m
    BY SizeAssumption DEF Buckets
<1>2. (p - k) * Size = r - m
    BY <1>1, SizeAssumption DEF Buckets
<1>3. r - m < Size /\ r - m > -Size
    BY <1>1, SizeAssumption DEF Buckets
<1> HIDE DEF a, p, m
<1>4. CASE p - k >= 1
    <2>1. (p - k) * Size >= Size
        BY <1>1, <1>4, SizeAssumption
    <2> QED
        BY <2>1, <1>2, <1>3, <1>1, SizeAssumption DEF Buckets
<1>5. CASE p - k <= -1
    <2>1. (p - k) * Size <= -Size
        BY <1>1, <1>5, SizeAssumption
    <2> QED
        BY <2>1, <1>2, <1>3, <1>1, SizeAssumption DEF Buckets
<1>6. CASE p = k
    BY <1>6, <1>2, <1>1, SizeAssumption DEF Buckets, a, m
<1> QED
    BY <1>1, <1>4, <1>5, <1>6

\* Every bucket is met within Size steps from any quantum.
LEMMA BucketReached ==
    ASSUME NEW q \in Nat, NEW b \in Buckets
    PROVE  \E d \in 0 .. Size - 1 : (q + d) % Size = b
<1> DEFINE k == q \div Size
           r == q % Size
<1>1. k \in Nat /\ r \in 0 .. Size - 1 /\ q = k * Size + r
    BY SizeAssumption
<1>2. CASE b >= r
    <2>1. b - r \in 0 .. Size - 1 /\ q + (b - r) = k * Size + b
        BY <1>1, <1>2, SizeAssumption DEF Buckets
    <2> QED
        BY <2>1, <1>1, DivisionUnique
<1>3. CASE b < r
    <2>1. b + Size - r \in 0 .. Size - 1
        BY <1>1, <1>3, SizeAssumption DEF Buckets
    <2>2. q + (b + Size - r) = (k + 1) * Size + b
        BY <1>1, SizeAssumption DEF Buckets
    <2>3. ((k + 1) * Size + b) % Size = b
        BY <1>1, DivisionUnique
    <2> QED
        BY <2>1, <2>2, <2>3
<1> QED
    BY <1>1, <1>2, <1>3, SizeAssumption DEF Buckets

(***************************************************************************)
(* The inductive invariant: the checked invariants, and that the calendar  *)
(* is finite (what makes counting it meaningful).                          *)
(***************************************************************************)
IInv == TypeOK /\ BucketsOrdered /\ ExactlyOnce /\ CounterExact /\ NeverEarly
        /\ IsFiniteSet(Pending)

LEMMA InitIInv == Init => IInv
<1> SUFFICES ASSUME Init PROVE IInv
    OBVIOUS
<1>1. Pending = {}
    BY DEF Init, Pending, InCalendar, Held
<1>2. TypeOK
    BY SizeAssumption DEF Init, TypeOK, Buckets
<1>3. BucketsOrdered
    BY DEF Init, BucketsOrdered
<1>4. ExactlyOnce
    <2>1. 0 .. issued - 1 = {} /\ delivered = {}
        BY DEF Init
    <2>2. \A b \in Buckets : Len(calendar[b]) = 0
        BY DEF Init
    <2> QED
        BY <1>1, <2>1, <2>2 DEF ExactlyOnce
<1>5. CounterExact /\ IsFiniteSet(Pending)
    BY <1>1, FS_EmptySet DEF Init, CounterExact
<1>6. NeverEarly
    BY DEF Init, NeverEarly
<1> QED
    BY <1>2, <1>3, <1>4, <1>5, <1>6 DEF IInv

\* schedule() adds its event, which is new, and keeps the invariant.
LEMMA ScheduleStep ==
    ASSUME IInv, NEW t \in Nat, Schedule(t)
    PROVE  /\ IInv'
           /\ [id |-> issued, time |-> t] \notin Pending
           /\ Pending' = Pending \cup {[id |-> issued, time |-> t]}
<1> DEFINE e == [id |-> issued, time |-> t]
           b == BucketOf(t)
           s == calendar[b]
           n == Leading(s, t - 1)
<1> USE DEF IInv
<1>1. e \in Events /\ e.time = t /\ e.id = issued
    BY DEF TypeOK, Events
<1>2. b \in Buckets /\ s \in Seq(Events)
    BY BucketOfType DEF TypeOK
<1>3. /\ calendar' = [calendar EXCEPT ![b] = Insert(s, e)]
      /\ counter' = counter + 1 /\ issued' = issued + 1
      /\ UNCHANGED <<mode, now, epoch, bucket, delivered>>
    BY DEF Schedule
<1>4. /\ n \in 0 .. Len(s)
      /\ Insert(s, e) \in Seq(Events)
      /\ Len(Insert(s, e)) = Len(s) + 1
      /\ \A i \in 1 .. Len(s) + 1 :
            Insert(s, e)[i] = IF i <= n THEN s[i]
                              ELSE IF i = n + 1 THEN e ELSE s[i - 1]
    BY <1>1, <1>2, InsertSpec
<1>5. /\ \A i \in 1 .. n : s[i].time <= t - 1
      /\ n < Len(s) => s[n + 1].time > t - 1
    <2>1. t - 1 \in Int
        OBVIOUS
    <2> HIDE DEF s, b
    <2> QED
        BY <2>1, <1>2, LeadingSpec
<1> HIDE DEF n, s, b, e
<1>6. calendar'[b] = Insert(s, e) /\ \A c \in Buckets \ {b} : calendar'[c] = calendar[c]
    BY <1>2, <1>3 DEF TypeOK
<1>7. TypeOK'
    BY <1>1, <1>2, <1>3, <1>4 DEF TypeOK
<1>8. \A c \in Buckets : \A i \in 1 .. Len(calendar[c]) : calendar[c][i] \in Events
    BY DEF TypeOK
\* Every slot of the new calendar is the new event or an old slot, and back.
<1>9. ASSUME NEW c \in Buckets, NEW i \in 1 .. Len(calendar'[c])
      PROVE  \/ c = b /\ i = n + 1 /\ calendar'[c][i] = e
             \/ c = b /\ i <= n /\ i \in 1 .. Len(calendar[c]) /\ calendar'[c][i] = calendar[c][i]
             \/ c = b /\ i > n + 1 /\ i - 1 \in 1 .. Len(calendar[c])
                /\ calendar'[c][i] = calendar[c][i - 1]
             \/ c # b /\ i \in 1 .. Len(calendar[c]) /\ calendar'[c][i] = calendar[c][i]
    <2>1. CASE c # b
        <3>1. calendar'[c] = calendar[c]
            BY <2>1, <1>6
        <3> QED
            BY <2>1, <3>1, <1>9
    <2>2. CASE c = b
        <3>1. calendar'[c] = Insert(s, e) /\ calendar[c] = s
            BY <2>2, <1>6 DEF s
        <3>2. i \in 1 .. Len(s) + 1 /\ Len(s) \in Nat
            BY <3>1, <1>2, <1>4, <1>9, LenProperties
        <3>3. Insert(s, e)[i] = IF i <= n THEN s[i] ELSE IF i = n + 1 THEN e ELSE s[i - 1]
            BY <3>2, <1>4
        <3>4. i <= n => i \in 1 .. Len(s)
            BY <3>2, <1>4
        <3>5. i > n + 1 => i - 1 \in 1 .. Len(s)
            BY <3>2, <1>4
        <3>6. i <= n \/ i = n + 1 \/ i > n + 1
            BY <3>2, <1>4
        <3>7. ~(i = n + 1 /\ i <= n) /\ ~(i > n + 1 /\ i <= n) /\ ~(i > n + 1 /\ i = n + 1)
            BY <3>2, <1>4
        <3> QED
            BY <2>2, <3>1, <3>3, <3>4, <3>5, <3>6, <3>7
    <2> QED
        BY <2>1, <2>2
<1>10. ASSUME NEW c \in Buckets, NEW i \in 1 .. Len(calendar[c])
       PROVE  \E j \in 1 .. Len(calendar'[c]) : calendar'[c][j] = calendar[c][i]
    <2>1. CASE c # b
        BY <2>1, <1>6
    <2>2. CASE c = b /\ i <= n
        <3>1. i \in 1 .. Len(s) /\ Len(s) \in Nat
            BY <2>2, <1>2, LenProperties DEF s
        <3>2. i \in 1 .. Len(s) + 1
            BY <3>1
        <3>3. Insert(s, e)[i] = s[i]
            BY <2>2, <3>2, <1>4
        <3> QED
            BY <2>2, <3>2, <3>3, <1>4, <1>6 DEF s
    <2>3. CASE c = b /\ i > n
        <3> DEFINE k == i + 1
        <3>0. i \in 1 .. Len(s) /\ k \in 1 .. Len(s) + 1 /\ k > n + 1 /\ k - 1 = i
            BY <2>3, <1>2, <1>4 DEF s
        <3> HIDE DEF k
        <3>1. k \in 1 .. Len(calendar'[c]) /\ calendar'[c][k] = calendar[c][i]
            BY <3>0, <2>3, <1>2, <1>4, <1>6 DEF s
        <3> QED
            BY <3>1
    <2> QED
        BY <1>4, <2>1, <2>2, <2>3
<1>11. n + 1 \in 1 .. Len(calendar'[b]) /\ calendar'[b][n + 1] = e
    BY <1>2, <1>4, <1>6
<1>12. Pending' = Pending \cup {e}
    <2>1. \A x \in Pending : x \in Pending'
        BY <1>10 DEF Pending, InCalendar, Held
    <2>2. e \in Pending'
        BY <1>2, <1>11 DEF Pending, InCalendar, Held
    <2>3. \A x \in Pending' : x \in Pending \cup {e}
        BY <1>9 DEF Pending, InCalendar, Held
    <2> QED
        BY <2>1, <2>2, <2>3
<1>13. \A x \in Pending \cup delivered : x.id \in 0 .. issued - 1
    BY DEF ExactlyOnce
<1>14. e \notin Pending
    BY <1>1, <1>13 DEF TypeOK
<1>15. CounterExact' /\ IsFiniteSet(Pending)'
    BY <1>3, <1>12, <1>14, FS_AddElement, FS_CardinalityType DEF CounterExact
<1>16. NeverEarly'
    BY <1>3 DEF NeverEarly
<1>17. BucketsOrdered'
    <2>1. ASSUME NEW c \in Buckets, NEW i \in 1 .. Len(calendar'[c])
          PROVE  BucketOf(calendar'[c][i].time) = c
        <3>1. \A k \in 1 .. Len(calendar[c]) : BucketOf(calendar[c][k].time) = c
            BY DEF BucketsOrdered
        <3>2. BucketOf(e.time) = b
            BY <1>1 DEF b
        <3>3. \/ c = b /\ calendar'[c][i] = e
              \/ \E k \in 1 .. Len(calendar[c]) : calendar'[c][i] = calendar[c][k]
            BY <1>9
        <3> QED
            BY <3>1, <3>2, <3>3
    <2>2. ASSUME NEW c \in Buckets, NEW i \in 1 .. Len(calendar'[c]),
                 NEW j \in i .. Len(calendar'[c])
          PROVE  calendar'[c][i].time <= calendar'[c][j].time
        <3>1. CASE c # b
            BY <3>1, <1>6 DEF BucketsOrdered
        <3>2. CASE c = b
            <4>1. /\ \A k \in 1 .. Len(s) : s[k].time \in Nat
                  /\ \A k \in 1 .. Len(s) : \A l \in k .. Len(s) : s[k].time <= s[l].time
                BY <1>2, <1>8 DEF BucketsOrdered, s, Events
            <4>2. \A k \in n + 1 .. Len(s) : t <= s[k].time
                <5>1. SUFFICES ASSUME NEW k \in n + 1 .. Len(s) PROVE t <= s[k].time
                    OBVIOUS
                <5>2. n < Len(s) /\ n + 1 \in 1 .. Len(s) /\ k \in n + 1 .. Len(s) /\ k \in 1 .. Len(s)
                    BY <5>1, <1>2, <1>4, LenProperties
                <5>3. s[n + 1].time > t - 1 /\ s[n + 1].time <= s[k].time
                    BY <5>2, <4>1, <1>5
                <5>4. s[n + 1].time \in Nat /\ s[k].time \in Nat
                    BY <5>2, <4>1
                <5> QED
                    BY <5>3, <5>4
            <4>3. \A k \in 1 .. n : s[k].time <= t
                BY <4>1, <1>4, <1>5
            <4>4. /\ i \in 1 .. Len(s) + 1 /\ j \in i .. Len(s) + 1
                  /\ calendar'[c][i] = Insert(s, e)[i] /\ calendar'[c][j] = Insert(s, e)[j]
                BY <3>2, <1>2, <1>4, <1>6
            <4>5. \A k \in 1 .. Len(s) + 1 :
                    /\ k <= n => Insert(s, e)[k] = s[k] /\ k \in 1 .. Len(s)
                    /\ k = n + 1 => Insert(s, e)[k] = e
                    /\ k > n + 1 => Insert(s, e)[k] = s[k - 1] /\ k - 1 \in n + 1 .. Len(s)
                BY <1>4
            <4>6. j <= n => calendar'[c][i].time <= calendar'[c][j].time
                BY <4>1, <4>4, <4>5, <1>4
            <4>7. j = n + 1 => calendar'[c][i].time <= calendar'[c][j].time
                <5>1. i <= n => calendar'[c][i].time <= t
                    BY <4>3, <4>4, <4>5, <1>4
                <5>2. j = n + 1 => calendar'[c][j].time = t
                    BY <4>4, <4>5, <1>1
                <5> QED
                    BY <5>1, <5>2, <4>4, <1>4
            <4>8. j > n + 1 => calendar'[c][i].time <= calendar'[c][j].time
                <5>1. j > n + 1 => calendar'[c][j] = s[j - 1] /\ j - 1 \in n + 1 .. Len(s)
                    BY <4>4, <4>5
                <5>2. ASSUME j > n + 1, i <= n
                      PROVE  calendar'[c][i].time <= calendar'[c][j].time
                    <6>1. calendar'[c][i] = s[i] /\ calendar'[c][j] = s[j - 1]
                        BY <5>1, <5>2, <4>4, <4>5
                    <6>2. i \in 1 .. Len(s) /\ j - 1 \in i .. Len(s)
                        BY <5>1, <5>2, <4>4, <1>4
                    <6> QED
                        BY <6>1, <6>2, <4>1
                <5>3. ASSUME j > n + 1, i = n + 1
                      PROVE  calendar'[c][i].time <= calendar'[c][j].time
                    BY <5>1, <5>3, <4>2, <4>4, <4>5, <1>1
                <5>4. ASSUME j > n + 1, i > n + 1
                      PROVE  calendar'[c][i].time <= calendar'[c][j].time
                    <6>0. i \in Nat /\ j \in Nat /\ n \in Nat /\ i <= j /\ Len(s) \in Nat
                          /\ j - 1 <= Len(s)
                        BY <5>1, <5>4, <4>4, <1>4
                    <6>1. i - 1 \in 1 .. Len(s) /\ j - 1 \in i - 1 .. Len(s)
                        BY <5>4, <6>0
                    <6>2. s[i - 1].time <= s[j - 1].time
                        BY <6>1, <4>1
                    <6> QED
                        BY <6>2, <5>1, <5>4, <4>4, <4>5
                <5> QED
                    BY <5>2, <5>3, <5>4, <4>4, <1>4
            <4> QED
                BY <4>4, <4>6, <4>7, <4>8, <1>4
        <3> QED
            BY <3>1, <3>2
    <2> QED
        BY <2>1, <2>2 DEF BucketsOrdered
<1>18. ExactlyOnce'
    <2>1. {x.id : x \in Pending' \cup delivered'} = 0 .. issued' - 1
        <3>1. {x.id : x \in Pending' \cup delivered'}
                = {x.id : x \in Pending \cup delivered} \cup {issued}
            BY <1>1, <1>3, <1>12
        <3> QED
            <4>1. issued \in Nat /\ (0 .. issued - 1) \cup {issued} = 0 .. issued
                BY DEF TypeOK
            <4>2. {x.id : x \in Pending \cup delivered} = 0 .. issued - 1
                BY DEF ExactlyOnce
            <4>3. issued' - 1 = issued
                BY <4>1, <1>3
            <4> QED
                BY <3>1, <4>1, <4>2, <4>3
    <2>2. \A d \in delivered' : \A x \in Pending' \cup (delivered' \ {d}) : x.id # d.id
        <3>1. \A d \in delivered : d.id # issued
            BY <1>13 DEF TypeOK
        <3> QED
            BY <3>1, <1>1, <1>3, <1>12 DEF ExactlyOnce
    <2>3. ASSUME NEW c \in Buckets, NEW f \in Buckets, NEW i \in 1 .. Len(calendar'[c]),
                 NEW j \in 1 .. Len(calendar'[f]), calendar'[c][i].id = calendar'[f][j].id
          PROVE  c = f /\ i = j
        <3>1. \A g \in Buckets : \A k \in 1 .. Len(calendar[g]) : calendar[g][k].id # e.id
            <4>1. SUFFICES ASSUME NEW g \in Buckets, NEW k \in 1 .. Len(calendar[g]) PROVE calendar[g][k].id # e.id
                OBVIOUS
            <4>2. calendar[g][k] \in Pending
                BY DEF Pending, InCalendar, Held
            <4>3. calendar[g][k].id \in 0 .. issued - 1 /\ issued \in Nat
                BY <4>2, <1>13 DEF TypeOK
            <4> QED
                BY <4>3, <1>1
        <3>2. \A g, h \in Buckets :
                \A k \in 1 .. Len(calendar[g]), l \in 1 .. Len(calendar[h]) :
                    calendar[g][k].id = calendar[h][l].id => g = h /\ k = l
            BY DEF ExactlyOnce
        <3> DEFINE New(g, k) == g = b /\ k = n + 1
                   Old(g, k) == IF g = b /\ k > n + 1 THEN k - 1 ELSE k
        <3>3. \A g \in Buckets : \A k \in 1 .. Len(calendar'[g]) :
                /\ New(g, k) => calendar'[g][k] = e
                /\ ~New(g, k) => /\ Old(g, k) \in 1 .. Len(calendar[g])
                                 /\ calendar'[g][k] = calendar[g][Old(g, k)]
            BY <1>4, <1>9
        <3>4. CASE New(c, i) /\ New(f, j)
            BY <3>4
        <3>5. CASE New(c, i) /\ ~New(f, j)
            <4>1. calendar'[c][i] = e
                BY <3>3, <3>5
            <4>2. Old(f, j) \in 1 .. Len(calendar[f]) /\ calendar'[f][j] = calendar[f][Old(f, j)]
                BY <3>3, <3>5
            <4> HIDE DEF Old
            <4> QED
                BY <3>1, <4>1, <4>2, <2>3
        <3>6. CASE ~New(c, i) /\ New(f, j)
            <4>1. calendar'[f][j] = e
                BY <3>3, <3>6
            <4>2. Old(c, i) \in 1 .. Len(calendar[c]) /\ calendar'[c][i] = calendar[c][Old(c, i)]
                BY <3>3, <3>6
            <4> HIDE DEF Old
            <4> QED
                BY <3>1, <4>1, <4>2, <2>3
        <3>7. CASE ~New(c, i) /\ ~New(f, j)
            <4>1. c = f /\ Old(c, i) = Old(f, j)
                <5> DEFINE oi == Old(c, i)
                           oj == Old(f, j)
                <5>1. oi \in 1 .. Len(calendar[c]) /\ calendar'[c][i] = calendar[c][oi]
                    BY <3>3, <3>7
                <5>2. oj \in 1 .. Len(calendar[f]) /\ calendar'[f][j] = calendar[f][oj]
                    BY <3>3, <3>7
                <5> HIDE DEF oi, oj
                <5>3. c = f /\ oi = oj
                    BY <5>1, <5>2, <3>2, <2>3
                <5> QED
                    BY <5>3 DEF oi, oj
            <4> QED
                BY <4>1, <3>7, <1>4
        <3> QED
            BY <3>4, <3>5, <3>6, <3>7
    <2> QED
        BY <2>1, <2>2, <2>3 DEF ExactlyOnce
<1> QED
    BY <1>7, <1>12, <1>14, <1>15, <1>16, <1>17, <1>18 DEF e

\* The events get() takes, and what it leaves in the calendar.
Due(t)  == UNION {Popped(calendar[b], t) : b \in Scanned(t)}
Left(t) == [b \in Buckets |-> IF b \in Scanned(t)
                              THEN Kept(calendar[b], t) ELSE calendar[b]]
Shift(b, t) == IF b \in Scanned(t) THEN Leading(calendar[b], t) ELSE 0

\* get() walks buckets only.
LEMMA ScannedBuckets ==
    ASSUME TypeOK, NEW t \in Nat
    PROVE  Scanned(t) \subseteq Buckets
<1>1. BucketOf(t) \in Buckets /\ bucket \in Buckets
    BY BucketOfType DEF TypeOK
<1>2. \A i \in Nat : i % Size \in Buckets
    BY SizeAssumption DEF Buckets
<1> QED
    BY <1>1, <1>2, SizeAssumption DEF Scanned, Buckets

\* get() splits every bucket at one point: before it the events taken, from it
\* on the events left.
LEMMA SplitSpec ==
    ASSUME TypeOK, NEW t \in Nat
    PROVE  /\ Left(t) \in [Buckets -> Seq(Events)]
           /\ \A b \in Buckets :
                /\ Shift(b, t) \in 0 .. Len(calendar[b])
                /\ Len(Left(t)[b]) = Len(calendar[b]) - Shift(b, t)
                /\ \A i \in 1 .. Len(Left(t)[b]) :
                        Left(t)[b][i] = calendar[b][i + Shift(b, t)]
                /\ \A i \in 1 .. Shift(b, t) : calendar[b][i].time <= t
           /\ Due(t) = {x \in Pending : \E b \in Buckets : \E i \in 1 .. Shift(b, t) :
                                           x = calendar[b][i]}
<1>1. ASSUME NEW b \in Buckets
      PROVE  calendar[b] \in Seq(Events)
    BY DEF TypeOK
\* The two lemmas on lists, at the list of one bucket.
<1>a. ASSUME NEW b \in Buckets
      PROVE  /\ Leading(calendar[b], t) \in 0 .. Len(calendar[b])
             /\ Kept(calendar[b], t) \in Seq(Events)
             /\ Len(Kept(calendar[b], t)) = Len(calendar[b]) - Leading(calendar[b], t)
             /\ \A i \in 1 .. Len(calendar[b]) - Leading(calendar[b], t) :
                    Kept(calendar[b], t)[i] = calendar[b][i + Leading(calendar[b], t)]
             /\ Popped(calendar[b], t)
                    = {calendar[b][i] : i \in 1 .. Leading(calendar[b], t)}
             /\ \A i \in 1 .. Leading(calendar[b], t) : calendar[b][i].time <= t
    <2> DEFINE s == calendar[b]
    <2>1. s \in Seq(Events)
        BY <1>1
    <2> HIDE DEF s
    <2>2. /\ Leading(s, t) \in 0 .. Len(s)
          /\ Kept(s, t) \in Seq(Events)
          /\ Len(Kept(s, t)) = Len(s) - Leading(s, t)
          /\ \A i \in 1 .. Len(s) - Leading(s, t) : Kept(s, t)[i] = s[i + Leading(s, t)]
          /\ Popped(s, t) = {s[i] : i \in 1 .. Leading(s, t)}
        BY <2>1, PopSpec
    <2>3. \A i \in 1 .. Leading(s, t) : s[i].time <= t
        BY <2>1, LeadingSpec
    <2> QED
        BY <2>2, <2>3 DEF s
<1>2. ASSUME NEW b \in Buckets
      PROVE  /\ Left(t)[b] \in Seq(Events)
             /\ Shift(b, t) \in 0 .. Len(calendar[b])
             /\ Len(Left(t)[b]) = Len(calendar[b]) - Shift(b, t)
             /\ \A i \in 1 .. Len(Left(t)[b]) :
                    Left(t)[b][i] = calendar[b][i + Shift(b, t)]
             /\ \A i \in 1 .. Shift(b, t) : calendar[b][i].time <= t
    <2>1. CASE b \in Scanned(t)
        BY <2>1, <1>a DEF Left, Shift
    <2>2. CASE b \notin Scanned(t)
        BY <2>2, <1>1 DEF Left, Shift
    <2> QED
        BY <2>1, <2>2
<1>3. Left(t) \in [Buckets -> Seq(Events)]
    <2>1. Left(t) = [b \in Buckets |-> Left(t)[b]]
        BY DEF Left
    <2> QED
        BY <2>1, <1>2
<1>4. Due(t) = {x \in Pending : \E b \in Buckets : \E i \in 1 .. Shift(b, t) :
                                    x = calendar[b][i]}
    <2>1. ASSUME NEW x \in Due(t)
          PROVE  x \in Pending /\ \E b \in Buckets : \E i \in 1 .. Shift(b, t) :
                                    x = calendar[b][i]
        <3>1. PICK b \in Scanned(t) : x \in Popped(calendar[b], t)
            BY DEF Due
        <3>2. b \in Buckets /\ Shift(b, t) = Leading(calendar[b], t)
            BY <3>1, ScannedBuckets DEF Shift
        <3>a. Popped(calendar[b], t) = {calendar[b][i] : i \in 1 .. Leading(calendar[b], t)}
            BY <3>2, <1>a
        <3>3. PICK i \in 1 .. Shift(b, t) : x = calendar[b][i]
            BY <3>1, <3>2, <3>a
        <3>4. i \in 1 .. Len(calendar[b])
            BY <3>2, <1>2
        <3> QED
            BY <3>2, <3>3, <3>4 DEF Pending, InCalendar, Held
    <2>2. ASSUME NEW b \in Buckets, NEW i \in 1 .. Shift(b, t)
          PROVE  calendar[b][i] \in Due(t)
        <3>1. b \in Scanned(t) /\ Shift(b, t) = Leading(calendar[b], t)
            BY <2>2 DEF Shift
        <3>2. calendar[b][i] \in Popped(calendar[b], t)
            BY <3>1, <1>a
        <3> QED
            BY <3>1, <3>2 DEF Due
    <2> QED
        BY <2>1, <2>2
<1> QED
    BY <1>2, <1>3, <1>4

\* What is left in the calendar is what was pending and not taken.
LEMMA LeftPending ==
    ASSUME IInv, NEW t \in Nat
    PROVE  InCalendar(Left(t)) = Pending \ Due(t)
<1> USE DEF IInv
<1>1. /\ \A b \in Buckets :
            /\ Shift(b, t) \in 0 .. Len(calendar[b])
            /\ Len(Left(t)[b]) = Len(calendar[b]) - Shift(b, t)
            /\ \A i \in 1 .. Len(Left(t)[b]) :
                    Left(t)[b][i] = calendar[b][i + Shift(b, t)]
      /\ Due(t) = {x \in Pending : \E b \in Buckets : \E i \in 1 .. Shift(b, t) :
                                       x = calendar[b][i]}
    BY SplitSpec
<1>2. ASSUME NEW x \in InCalendar(Left(t))
      PROVE  x \in Pending \ Due(t)
    <2>1. PICK b \in Buckets : \E i \in 1 .. Len(Left(t)[b]) : x = Left(t)[b][i]
        BY DEF InCalendar, Held
    <2>2. PICK i \in 1 .. Len(Left(t)[b]) : x = Left(t)[b][i]
        BY <2>1
    <2> DEFINE k == i + Shift(b, t)
    <2>3. k \in 1 .. Len(calendar[b]) /\ k > Shift(b, t) /\ x = calendar[b][k]
        BY <2>2, <1>1
    <2> HIDE DEF k
    <2>4. x \in Pending
        BY <2>3 DEF Pending, InCalendar, Held
    <2>5. ASSUME NEW c \in Buckets, NEW j \in 1 .. Shift(c, t), x = calendar[c][j]
          PROVE  FALSE
        <3>1. j \in 1 .. Len(calendar[c])
            BY <2>5, <1>1
        <3>2. c = b /\ j = k
            <4>1. \A g, h \in Buckets :
                    \A l \in 1 .. Len(calendar[g]), m \in 1 .. Len(calendar[h]) :
                        calendar[g][l].id = calendar[h][m].id => g = h /\ l = m
                BY DEF ExactlyOnce
            <4>2. calendar[c][j].id = calendar[b][k].id
                BY <2>3, <2>5
            <4> QED
                BY <3>1, <2>3, <4>1, <4>2
        <3> QED
            BY <3>2, <2>3, <2>5, <1>1
    <2> QED
        BY <2>4, <2>5, <1>1
<1>3. ASSUME NEW x \in Pending \ Due(t)
      PROVE  x \in InCalendar(Left(t))
    <2>1. PICK b \in Buckets : \E i \in 1 .. Len(calendar[b]) : x = calendar[b][i]
        BY DEF Pending, InCalendar, Held
    <2>2. PICK i \in 1 .. Len(calendar[b]) : x = calendar[b][i]
        BY <2>1
    <2>3. i > Shift(b, t)
        BY <2>2, <1>1
    <2> DEFINE k == i - Shift(b, t)
    <2>4. k \in 1 .. Len(Left(t)[b]) /\ k + Shift(b, t) = i
        BY <2>2, <2>3, <1>1
    <2>5. Left(t)[b][k] = x
        BY <2>2, <2>4, <1>1
    <2> QED
        BY <2>4, <2>5 DEF InCalendar, Held
<1> QED
    BY <1>2, <1>3

\* A bucket with an event is found within one turn of the calendar, so the
\* walk that skips empty buckets ends, in a bucket.
LEMMA SkipSpec ==
    ASSUME NEW cal \in [Buckets -> Seq(Events)], NEW q \in Nat, NEW n \in Nat,
           n > 0 => InCalendar(cal) # {}
    PROVE  /\ Skip(cal, q, n) \in 0 .. Size - 1
           /\ n > 0 => \A x \in 0 .. Skip(cal, q, n) - 1 : cal[(q + x) % Size] = << >>
<1>1. CASE n = 0
    BY <1>1, SizeAssumption DEF Skip
<1>2. CASE n > 0
    <2> DEFINE T == {d \in 0 .. Size - 1 : cal[(q + d) % Size] # << >>}
    <2>1. PICK b \in Buckets : \E i \in 1 .. Len(cal[b]) : TRUE
        BY <1>2 DEF InCalendar, Held
    <2>2. cal[b] # << >>
        BY <2>1
    <2>3. PICK d \in 0 .. Size - 1 : (q + d) % Size = b
        BY BucketReached
    <2>4. d \in T /\ T \subseteq Nat
        BY <2>2, <2>3, SizeAssumption
    <2>5. PICK m \in T : \A x \in T : m <= x
        BY <2>4, LeastNatural
    <2>6. \A x \in 0 .. m - 1 : cal[(q + x) % Size] = << >>
        <3> SUFFICES ASSUME NEW x \in 0 .. m - 1, cal[(q + x) % Size] # << >>
                     PROVE  FALSE
            OBVIOUS
        <3>1. m \in 0 .. Size - 1 /\ x \in 0 .. Size - 1 /\ x < m
            BY <2>5, SizeAssumption
        <3>2. x \in T
            BY <3>1
        <3> QED
            BY <3>1, <3>2, <2>5
    <2>7. \E y \in 0 .. Size - 1 :
            /\ cal[(q + y) % Size] # << >>
            /\ \A x \in 0 .. y - 1 : cal[(q + x) % Size] = << >>
        BY <2>5, <2>6
    <2>8. Skip(cal, q, n) = CHOOSE y \in 0 .. Size - 1 :
                                /\ cal[(q + y) % Size] # << >>
                                /\ \A x \in 0 .. y - 1 : cal[(q + x) % Size] = << >>
        <3>1. n # 0
            BY <1>2
        <3> QED
            BY <3>1, Zenon DEF Skip
    <2>9. /\ Skip(cal, q, n) \in 0 .. Size - 1
          /\ \A x \in 0 .. Skip(cal, q, n) - 1 : cal[(q + x) % Size] = << >>
        BY <2>7, <2>8, Zenon
    <2> QED
        BY <2>9
<1> QED
    BY <1>1, <1>2

\* get() at time t takes due events, all of which were pending, leaves the
\* others, and keeps the invariant.
LEMMA GetStep ==
    ASSUME IInv, NEW t \in Nat, Get(t), now' = t, UNCHANGED <<mode, issued>>
    PROVE  /\ IInv'
           /\ Due(t) \subseteq Pending
           /\ \A e \in Due(t) : e.time <= t
           /\ Pending' = Pending \ Due(t)
           /\ Served' = Served \cup Due(t)
           /\ delivered' = delivered \cup
                {[id |-> e.id, time |-> e.time, at |-> t] : e \in Due(t)}
<1> USE DEF IInv
<1> DEFINE n == counter - Cardinality(Due(t))
           d == Skip(Left(t), Quantum(t), n)
           new == {[id |-> e.id, time |-> e.time, at |-> t] : e \in Due(t)}
<1>1. /\ calendar' = Left(t)
      /\ counter' = n
      /\ epoch' = (Quantum(t) + d) \div Size
      /\ bucket' = (Quantum(t) + d) % Size
      /\ delivered' = delivered \cup new
    BY DEF Get, Due, Left, CursorBucket
<1>2. /\ Left(t) \in [Buckets -> Seq(Events)]
      /\ \A b \in Buckets :
            /\ Shift(b, t) \in 0 .. Len(calendar[b])
            /\ Len(Left(t)[b]) = Len(calendar[b]) - Shift(b, t)
            /\ \A i \in 1 .. Len(Left(t)[b]) :
                    Left(t)[b][i] = calendar[b][i + Shift(b, t)]
            /\ \A i \in 1 .. Shift(b, t) : calendar[b][i].time <= t
      /\ Due(t) = {x \in Pending : \E b \in Buckets : \E i \in 1 .. Shift(b, t) :
                                       x = calendar[b][i]}
    BY SplitSpec
<1>3. Due(t) \subseteq Pending /\ \A e \in Due(t) : e.time <= t
    BY <1>2
<1>4. Pending' = Pending \ Due(t)
    BY <1>1, LeftPending DEF Pending
<1>5. \A e \in Pending : e \in Events
    BY DEF Pending, InCalendar, Held, TypeOK
<1>6. /\ n \in Nat /\ counter' = Cardinality(Pending')
      /\ IsFiniteSet(Pending') /\ (n > 0 => Pending' # {})
    <2>1. IsFiniteSet(Due(t)) /\ IsFiniteSet(Pending')
        BY <1>3, <1>4, FS_Subset
    <2>2. Cardinality(Pending' \cup Due(t)) = Cardinality(Pending') + Cardinality(Due(t))
            - Cardinality(Pending' \cap Due(t))
        BY <2>1, FS_Union
    <2>3. Pending' \cup Due(t) = Pending /\ Pending' \cap Due(t) = {}
        BY <1>3, <1>4
    <2>4. Cardinality(Pending') \in Nat /\ Cardinality(Due(t)) \in Nat
        BY <2>1, FS_CardinalityType
    <2>a. Cardinality(Pending) = Cardinality(Pending') + Cardinality(Due(t)) - 0
        BY <2>2, <2>3, FS_EmptySet, Zenon
    <2>5. n = Cardinality(Pending')
        BY <2>a, <2>4 DEF CounterExact
    <2> QED
        BY <2>1, <2>4, <2>5, <1>1, FS_EmptySet
<1>7. Quantum(t) \in Nat
    BY WidthAssumption DEF Quantum
<1>8. d \in 0 .. Size - 1
    <2>1. n > 0 => InCalendar(Left(t)) # {}
        BY <1>6, <1>4, LeftPending
    <2> QED
        BY <2>1, <1>2, <1>6, <1>7, SkipSpec
<1>9. epoch' \in Nat /\ bucket' \in Buckets
    BY <1>1, <1>7, <1>8, SizeAssumption DEF Buckets
<1> HIDE DEF n, d
<1>10. TypeOK'
    <2>1. \A x \in new : x \in [id : Nat, time : Nat, at : Nat]
        BY <1>3, <1>5 DEF Events
    <2> HIDE DEF new
    <2> QED
        BY <2>1, <1>1, <1>2, <1>6, <1>9 DEF TypeOK
<1>11. CounterExact' /\ IsFiniteSet(Pending)'
    BY <1>6 DEF CounterExact
<1>12. NeverEarly'
    BY <1>1, <1>3 DEF NeverEarly
<1>13. BucketsOrdered'
    <2> SUFFICES ASSUME NEW b \in Buckets, NEW i \in 1 .. Len(Left(t)[b])
                 PROVE  /\ BucketOf(Left(t)[b][i].time) = b
                        /\ \A j \in i .. Len(Left(t)[b]) :
                                Left(t)[b][i].time <= Left(t)[b][j].time
        BY <1>1 DEF BucketsOrdered
    <2> DEFINE h == Shift(b, t)
    <2>1. /\ h \in 0 .. Len(calendar[b])
          /\ Len(Left(t)[b]) = Len(calendar[b]) - h
          /\ \A k \in 1 .. Len(Left(t)[b]) : Left(t)[b][k] = calendar[b][k + h]
        BY <1>2
    <2>2. /\ \A k \in 1 .. Len(calendar[b]) : BucketOf(calendar[b][k].time) = b
          /\ \A k \in 1 .. Len(calendar[b]) : \A j \in k .. Len(calendar[b]) :
                calendar[b][k].time <= calendar[b][j].time
        BY DEF BucketsOrdered
    <2> HIDE DEF h
    <2>3. i + h \in 1 .. Len(calendar[b])
        BY <2>1
    <2>4. ASSUME NEW j \in i .. Len(Left(t)[b])
          PROVE  Left(t)[b][i].time <= Left(t)[b][j].time
        <3>1. j + h \in i + h .. Len(calendar[b]) /\ j \in 1 .. Len(Left(t)[b])
            BY <2>1
        <3>2. calendar[b][i + h].time <= calendar[b][j + h].time
            BY <3>1, <2>2, <2>3
        <3>3. Left(t)[b][i] = calendar[b][i + h] /\ Left(t)[b][j] = calendar[b][j + h]
            BY <3>1, <2>1
        <3> QED
            BY <3>2, <3>3
    <2> QED
        BY <2>1, <2>2, <2>3, <2>4
\* The records added to the history are the events taken.
<1>b. /\ \A x \in new : \E e \in Due(t) : /\ x.id = e.id /\ x.time = e.time
                                          /\ e = [id |-> x.id, time |-> x.time]
      /\ \A e \in Due(t) : \E x \in new : /\ x.id = e.id /\ x.time = e.time
                                          /\ e = [id |-> x.id, time |-> x.time]
    <2>1. \A e \in Due(t) : e = [id |-> e.id, time |-> e.time]
        BY <1>3, <1>5 DEF Events
    <2>2. ASSUME NEW x \in new
          PROVE  \E e \in Due(t) : /\ x.id = e.id /\ x.time = e.time
                                   /\ e = [id |-> x.id, time |-> x.time]
        <3>1. PICK e \in Due(t) : x = [id |-> e.id, time |-> e.time, at |-> t]
            BY <2>2
        <3>2. x.id = e.id /\ x.time = e.time
            BY <3>1
        <3> QED
            BY <3>2, <2>1
    <2>3. ASSUME NEW e \in Due(t)
          PROVE  \E x \in new : /\ x.id = e.id /\ x.time = e.time
                                /\ e = [id |-> x.id, time |-> x.time]
        <3> DEFINE x == [id |-> e.id, time |-> e.time, at |-> t]
        <3>1. x \in new /\ x.id = e.id /\ x.time = e.time
            OBVIOUS
        <3> HIDE DEF x, new
        <3> QED
            BY <3>1, <2>1
    <2> HIDE DEF new
    <2> QED
        BY <2>2, <2>3
<1>14. Served' = Served \cup Due(t)
    <2>1. {[id |-> x.id, time |-> x.time] : x \in new} = Due(t)
        <3> HIDE DEF new
        <3> QED
            BY <1>b
    <2> HIDE DEF new
    <2> QED
        BY <2>1, <1>1 DEF Served
<1>15. ExactlyOnce'
    <2>1. \A e, f \in Pending : e.id = f.id => e = f
        BY DEF Pending, InCalendar, Held, ExactlyOnce
    <2>2. {x.id : x \in Pending' \cup delivered'} = {x.id : x \in Pending \cup delivered}
        <3> HIDE DEF new
        <3>1. {x.id : x \in new} = {e.id : e \in Due(t)}
            BY <1>b
        <3>2. {x.id : x \in Pending' \cup delivered'}
                = {x.id : x \in Pending'} \cup {x.id : x \in delivered} \cup {x.id : x \in new}
            BY <1>1
        <3>3. {x.id : x \in Pending} = {x.id : x \in Pending'} \cup {e.id : e \in Due(t)}
            BY <1>3, <1>4
        <3>4. {x.id : x \in Pending \cup delivered}
                = {x.id : x \in Pending} \cup {x.id : x \in delivered}
            OBVIOUS
        <3> QED
            BY <3>1, <3>2, <3>3, <3>4
    <2>3. ASSUME NEW x \in delivered', NEW y \in Pending' \cup (delivered' \ {x})
          PROVE  y.id # x.id
        <3>1. \A u \in new : \E e \in Due(t) : u = [id |-> e.id, time |-> e.time, at |-> t]
            OBVIOUS
        <3> HIDE DEF new
        <3>2. \A u \in new, v \in new : u.id = v.id => u = v
            BY <3>1, <2>1, <1>3
        <3>3. \A u \in new : \E e \in Due(t) : u.id = e.id
            BY <3>1
        <3>4. \A u \in delivered : \A e \in Pending \cup (delivered \ {u}) : e.id # u.id
            BY DEF ExactlyOnce
        <3>5. CASE x \in delivered
            BY <3>3, <3>4, <3>5, <1>1, <1>3, <1>4
        <3>6. CASE x \in new
            <4>1. CASE y \in Pending'
                BY <4>1, <3>3, <3>6, <2>1, <1>3, <1>4
            <4>2. CASE y \in delivered
                BY <4>2, <3>3, <3>4, <3>6, <1>3
            <4>3. CASE y \in new /\ y # x
                BY <4>3, <3>2, <3>6
            <4> QED
                BY <4>1, <4>2, <4>3, <1>1
        <3> QED
            BY <3>5, <3>6, <1>1
    <2>4. ASSUME NEW b \in Buckets, NEW c \in Buckets,
                 NEW i \in 1 .. Len(Left(t)[b]), NEW j \in 1 .. Len(Left(t)[c]),
                 Left(t)[b][i].id = Left(t)[c][j].id
          PROVE  b = c /\ i = j
        <3> DEFINE k == i + Shift(b, t)
                   l == j + Shift(c, t)
        <3>a. Shift(b, t) \in Nat /\ Shift(c, t) \in Nat
            BY <1>2
        <3>1. k \in 1 .. Len(calendar[b]) /\ Left(t)[b][i] = calendar[b][k]
            <4>1. Len(Left(t)[b]) = Len(calendar[b]) - Shift(b, t)
                BY <1>2
            <4>2. k \in 1 .. Len(calendar[b])
                BY <4>1, <3>a
            <4> QED
                BY <4>2, <1>2
        <3>2. l \in 1 .. Len(calendar[c]) /\ Left(t)[c][j] = calendar[c][l]
            <4>1. Len(Left(t)[c]) = Len(calendar[c]) - Shift(c, t)
                BY <1>2
            <4>2. l \in 1 .. Len(calendar[c])
                BY <4>1, <3>a
            <4> QED
                BY <4>2, <1>2
        <3> HIDE DEF k, l
        <3>3. b = c /\ k = l
            BY <3>1, <3>2, <2>4 DEF ExactlyOnce
        <3> QED
            BY <3>3, <3>a DEF k, l
    <2> HIDE DEF new
    <2>5. {x.id : x \in Pending' \cup delivered'} = 0 .. issued' - 1
        BY <2>2 DEF ExactlyOnce
    <2>6. \A b, c \in Buckets :
            \A i \in 1 .. Len(calendar'[b]), j \in 1 .. Len(calendar'[c]) :
                calendar'[b][i].id = calendar'[c][j].id => b = c /\ i = j
        BY <2>4, <1>1
    <2> QED
        BY <2>3, <2>5, <2>6 DEF ExactlyOnce
<1> QED
    BY <1>1, <1>3, <1>4, <1>10, <1>11, <1>12, <1>13, <1>14, <1>15

(***************************************************************************)
(* next() and the turn of the loop.                                        *)
(***************************************************************************)

LEMMA MinSpec ==
    ASSUME NEW T \in SUBSET Nat, T # {}
    PROVE  Min(T) \in T /\ \A y \in T : Min(T) <= y
<1>1. \E x \in T : \A y \in T : x <= y
    BY LeastNatural
<1> QED
    BY <1>1 DEF Min

\* The bucket of the clock is one of those get() walks.
LEMMA TargetScanned ==
    ASSUME TypeOK, NEW t \in Nat
    PROVE  BucketOf(t) \in Scanned(t)
<1> DEFINE b == BucketOf(t)
           distance == b - bucket
           stop == bucket + (IF distance > 0 THEN distance ELSE Size - distance)
<1>1. b \in Buckets /\ bucket \in Buckets
    BY BucketOfType DEF TypeOK
<1>2. Scanned(t) = {i % Size : i \in bucket .. stop}
    BY DEF Scanned
<1> HIDE DEF b
<1>3. CASE distance > 0
    <2>1. b \in bucket .. stop
        BY <1>1, <1>3, SizeAssumption DEF Buckets
    <2>2. (0 * Size + b) % Size = b /\ 0 * Size + b = b
        BY <1>1, DivisionUnique, SizeAssumption DEF Buckets
    <2> QED
        BY <2>1, <2>2, <1>2 DEF b
<1>4. CASE ~(distance > 0)
    <2>1. b + Size \in bucket .. stop
        BY <1>1, <1>4, SizeAssumption DEF Buckets
    <2>2. (1 * Size + b) % Size = b /\ 1 * Size + b = b + Size
        BY <1>1, DivisionUnique, SizeAssumption DEF Buckets
    <2> QED
        BY <2>1, <2>2, <1>2 DEF b
<1> QED
    BY <1>3, <1>4

\* The entries of a bucket are events.
LEMMA EntryType ==
    ASSUME TypeOK, NEW b \in Buckets
    PROVE  /\ calendar[b] \in Seq(Events)
           /\ Len(calendar[b]) \in Nat
           /\ calendar[b] # << >> => Len(calendar[b]) > 0
           /\ \A i \in 1 .. Len(calendar[b]) :
                    calendar[b][i] \in Events /\ calendar[b][i].time \in Nat
<1>1. calendar[b] \in Seq(Events)
    BY DEF TypeOK
<1>2. \A i \in 1 .. Len(calendar[b]) : calendar[b][i] \in Events
    BY <1>1
<1>3. \A e \in Events : e.time \in Nat
    BY DEF Events
<1> QED
    BY <1>1, <1>2, <1>3

\* While events remain, next() is the time of the first event of some bucket.
LEMMA NextIsFront ==
    ASSUME IInv, counter > 0
    PROVE  \E b \in Buckets : Len(calendar[b]) > 0 /\ NextTime = calendar[b][1].time
<1> USE DEF IInv
<1> DEFINE filled == {b \in Buckets : calendar[b] # << >>}
           at(d) == (bucket + d) % Size
           thisEpoch == {d \in Buckets : /\ at(d) \in filled
                                        /\ EpochOf(calendar[at(d)][1].time) = epoch}
           fronts == {calendar[b][1].time : b \in filled}
<1>1. Pending # {}
    BY FS_EmptySet DEF CounterExact
<1>2. \A b \in filled : Len(calendar[b]) > 0 /\ calendar[b][1].time \in Nat
    <2> SUFFICES ASSUME NEW b \in filled
                 PROVE  Len(calendar[b]) > 0 /\ calendar[b][1].time \in Nat
        OBVIOUS
    <2>1. b \in Buckets /\ calendar[b] # << >>
        OBVIOUS
    <2>2. Len(calendar[b]) > 0 /\ 1 \in 1 .. Len(calendar[b])
        BY <2>1, EntryType
    <2> QED
        BY <2>1, <2>2, EntryType
<1>3. filled # {}
    BY <1>1 DEF Pending, InCalendar, Held
<1>4. CASE thisEpoch # {}
    <2>1. NextTime = calendar[at(Min(thisEpoch))][1].time
        BY <1>4 DEF NextTime
    <2>2. thisEpoch \in SUBSET Nat
        BY SizeAssumption DEF Buckets
    <2>3. Min(thisEpoch) \in thisEpoch
        BY <1>4, <2>2, MinSpec
    <2> QED
        BY <2>1, <2>3, <1>2
<1>5. CASE thisEpoch = {}
    <2>1. NextTime = Min(fronts)
        BY <1>5 DEF NextTime
    <2>2. fronts \in SUBSET Nat /\ fronts # {}
        BY <1>2, <1>3
    <2>3. Min(fronts) \in fronts
        BY <2>2, MinSpec
    <2> QED
        BY <2>1, <2>3, <1>2
<1> QED
    BY <1>4, <1>5

\* A turn of the loop takes the clock to the time of an event that it delivers, or
\* leaves it; and it delivers the event next() named if it walks its bucket.
LEMMA TickStep ==
    ASSUME IInv, LoopTick
    PROVE  /\ NextTime \in Nat /\ SetTime(NextTime) \in Nat /\ SetTime(NextTime) >= now
           /\ \/ SetTime(NextTime) = now
              \/ \E e \in Due(SetTime(NextTime)) : e.time = SetTime(NextTime)
           /\ BucketOf(NextTime) \in Scanned(SetTime(NextTime)) =>
                  \E d \in delivered' \ delivered : d.time = NextTime /\ d.at = now'
<1> USE DEF IInv
<1> DEFINE f == NextTime
           t == SetTime(f)
<1>1. counter > 0 /\ now' = t /\ Get(t) /\ UNCHANGED <<mode, issued>>
    BY DEF LoopTick
<1>2. PICK b \in Buckets : Len(calendar[b]) > 0 /\ f = calendar[b][1].time
    BY <1>1, NextIsFront
<1> DEFINE e == calendar[b][1]
<1>3. e \in Events /\ e.time = f /\ f \in Nat /\ calendar[b] \in Seq(Events)
    <2>1. 1 \in 1 .. Len(calendar[b])
        BY <1>2, EntryType
    <2> QED
        BY <2>1, <1>2, EntryType
<1>4. BucketOf(f) = b
    BY <1>2, <1>3 DEF BucketsOrdered
<1> HIDE DEF f
<1>5. t \in Nat /\ f <= t /\ t >= now /\ (t = now \/ t = f)
    BY <1>3 DEF SetTime, TypeOK
<1> HIDE DEF t
<1>6. BucketOf(t) \in Scanned(t)
    BY <1>5, TargetScanned
<1>7. ASSUME b \in Scanned(t) PROVE e \in Due(t)
    <2>1. Leading(calendar[b], t) \in Nat /\ Leading(calendar[b], t) # 0
        <3> DEFINE l == Leading(calendar[b], t)
        <3>1. calendar[b] \in Seq(Events) /\ t \in Int
            BY <1>3, <1>5
        <3>2. l \in 0 .. Len(calendar[b]) /\ (l < Len(calendar[b]) => calendar[b][l + 1].time > t)
            BY <3>1, LeadingSpec
        <3>3. calendar[b][0 + 1].time = f /\ 0 < Len(calendar[b]) /\ Len(calendar[b]) \in Nat
            BY <1>2, <1>3, LenProperties
        <3> HIDE DEF l
        <3>4. l # 0
            BY <1>3, <1>5, <3>2, <3>3
        <3> QED
            BY <3>2, <3>3, <3>4 DEF l
    <2>2. 1 \in 1 .. Shift(b, t)
        BY <2>1, <1>7 DEF Shift
    <2>3. e \in Pending
        BY <1>2, <1>3 DEF Pending, InCalendar, Held
    <2> QED
        BY <2>2, <2>3, <1>5, SplitSpec
<1>8. ASSUME b \in Scanned(t)
      PROVE  \E d \in delivered' \ delivered : d.time = f /\ d.at = now'
    <2> DEFINE x == [id |-> e.id, time |-> e.time, at |-> t]
    <2>1. delivered' = delivered \cup
                {[id |-> y.id, time |-> y.time, at |-> t] : y \in Due(t)}
        BY <1>1, <1>5, GetStep
    <2>2. x \in delivered'
        BY <2>1, <1>7, <1>8
    <2>3. e \in Pending
        BY <1>2, <1>3 DEF Pending, InCalendar, Held
    <2>4. x \notin delivered
        BY <2>3 DEF ExactlyOnce
    <2>5. x.time = f /\ x.at = now'
        BY <1>1, <1>3
    <2> QED
        BY <2>2, <2>4, <2>5
<1>9. t = now \/ \E y \in Due(t) : y.time = t
    <2>1. CASE t = f
        BY <2>1, <1>3, <1>4, <1>6, <1>7
    <2> QED
        BY <2>1, <1>5
<1> QED
    BY <1>3, <1>4, <1>5, <1>8, <1>9 DEF f, t

\* After a get() the walk of another one at the same time meets every bucket that
\* is not empty: it ends a whole calendar after the clock's bucket, and the ones
\* the cursor was moved past are empty.
LEMMA LeftReached ==
    ASSUME IInv, NEW t \in Nat, Get(t), now' = t, UNCHANGED <<mode, issued>>,
           NEW e \in Pending'
    PROVE  BucketOf(e.time) \in Scanned(t)'
<1> DEFINE q == Quantum(t)
           n == counter'
           d == Skip(calendar', q, n)
           a == BucketOf(t)
           b == BucketOf(e.time)
<1>1. bucket' = (q + d) % Size
    BY DEF Get, CursorBucket
<1>2. IInv'
    BY GetStep
<1>3. n \in Nat /\ n > 0 /\ calendar' \in [Buckets -> Seq(Events)] /\ InCalendar(calendar') # {}
    <2>1. n \in Nat /\ calendar' \in [Buckets -> Seq(Events)]
        BY <1>2 DEF IInv, TypeOK
    <2>2. n = Cardinality(Pending') /\ IsFiniteSet(Pending')
        BY <1>2 DEF IInv, CounterExact
    <2>3. n # 0
        BY <2>2, FS_EmptySet
    <2>4. Pending' = InCalendar(calendar')
        BY DEF Pending
    <2> QED
        BY <2>1, <2>3, <2>4
<1>4. q \in Nat /\ a \in Buckets /\ a = q % Size
    BY BucketOfType, WidthAssumption DEF Quantum, BucketOf
<1>5. d \in 0 .. Size - 1 /\ \A x \in 0 .. d - 1 : calendar'[(q + x) % Size] = << >>
    BY <1>3, <1>4, SkipSpec
<1>6. b \in Buckets /\ calendar'[b] # << >>
    <2>1. PICK c \in Buckets : e \in Held(calendar'[c])
        BY DEF Pending, InCalendar
    <2>2. PICK i \in 1 .. Len(calendar'[c]) : e = calendar'[c][i]
        BY <2>1 DEF Held
    <2>3. BucketOf(e.time) = c
        BY <1>2, <2>2 DEF IInv, BucketsOrdered
    <2>4. calendar'[c] # << >>
        BY <2>2
    <2> QED
        BY <2>3, <2>4
<1>7. PICK x \in 0 .. Size - 1 : (q + x) % Size = b
    BY <1>4, <1>6, BucketReached
<1>8. x >= d
    <2>1. SUFFICES ASSUME x < d PROVE FALSE
        BY <1>5, SizeAssumption
    <2>2. x \in 0 .. d - 1
        BY <2>1, <1>5
    <2> QED
        BY <2>2, <1>5, <1>6, <1>7
\* The walk after the get(), from bucket c on.
<1> DEFINE k == q \div Size
           c == bucket'
           stop == c + (IF a - c > 0 THEN a - c ELSE Size - (a - c))
<1>9. Scanned(t)' = {i % Size : i \in c .. stop}
    BY DEF Scanned
<1>10. Size \in Nat \ {0} /\ k \in Nat /\ k + 1 \in Nat /\ 0 \in Nat /\ 1 \in Nat /\ q = k * Size + a
    <2>1. q \in Nat /\ Size \in Nat \ {0} /\ a = q % Size
        BY <1>4, SizeAssumption
    <2> HIDE DEF q, a
    <2> QED
        BY <2>1
<1> HIDE DEF q, n, d, a, b, k
<1>11. CASE a + d < Size
    <2>1. c = a + d
        <3>1. a + d \in Buckets /\ q + d = k * Size + (a + d)
            BY <1>4, <1>5, <1>10, <1>11 DEF Buckets
        <3> QED
            BY <1>1, <1>10, <3>1, DivisionUnique
    <2>2. stop = c + Size + d
        BY <2>1, <1>4, <1>5, <1>10 DEF Buckets
    <2>3. a + x \in c .. stop
        BY <2>1, <2>2, <1>4, <1>5, <1>7, <1>8, <1>10 DEF Buckets
    <2>4. (a + x) % Size = b
        <3>1. CASE a + x < Size
            <4>1. a + x \in Buckets /\ q + x = k * Size + (a + x) /\ a + x = 0 * Size + (a + x)
                BY <1>4, <1>7, <1>10, <3>1 DEF Buckets
            <4>2. (k * Size + (a + x)) % Size = a + x /\ (0 * Size + (a + x)) % Size = a + x
                BY <4>1, <1>10, DivisionUnique
            <4> QED
                BY <4>1, <4>2, <1>7
        <3>2. CASE a + x >= Size
            <4>1. /\ a + x - Size \in Buckets
                  /\ q + x = (k + 1) * Size + (a + x - Size)
                  /\ a + x = 1 * Size + (a + x - Size)
                BY <1>4, <1>7, <1>10, <3>2 DEF Buckets
            <4>2. ((k + 1) * Size + (a + x - Size)) % Size = a + x - Size
                BY <4>1, <1>10, DivisionUnique
            <4>3. (1 * Size + (a + x - Size)) % Size = a + x - Size
                BY <4>1, <1>10, DivisionUnique
            <4> QED
                BY <4>1, <4>2, <4>3, <1>7
        <3> QED
            BY <3>1, <3>2, <1>4, <1>7, <1>10 DEF Buckets
    <2> HIDE DEF stop, c
    <2> QED
        BY <2>3, <2>4, <1>9 DEF b
<1>12. CASE a + d >= Size
    <2>1. c = a + d - Size
        <3>1. a + d - Size \in Buckets /\ q + d = (k + 1) * Size + (a + d - Size)
            BY <1>4, <1>5, <1>10, <1>12 DEF Buckets
        <3>2. ((k + 1) * Size + (a + d - Size)) % Size = a + d - Size
            BY <1>10, <3>1, DivisionUnique
        <3> QED
            BY <1>1, <3>1, <3>2
    <2>2. stop = a
        BY <2>1, <1>4, <1>5, <1>10 DEF Buckets
    <2>3. a + x - Size \in c .. stop /\ a + x - Size \in Buckets
        <3>1. a \in 0 .. Size - 1 /\ d \in 0 .. Size - 1 /\ x \in 0 .. Size - 1
            BY <1>4, <1>5, <1>7 DEF Buckets
        <3> HIDE DEF stop, c
        <3>2. a + x - Size \in a + d - Size .. a
            BY <3>1, <1>8, <1>10
        <3>3. a + x - Size \in 0 .. Size - 1
            BY <3>1, <1>8, <1>10, <1>12
        <3> QED
            BY <2>1, <2>2, <3>2, <3>3 DEF Buckets
    <2>4. (a + x - Size) % Size = b
        <3>1. /\ q + x = (k + 1) * Size + (a + x - Size)
              /\ a + x - Size = 0 * Size + (a + x - Size)
            BY <1>4, <1>7, <1>10, <2>3 DEF Buckets
        <3>2. ((k + 1) * Size + (a + x - Size)) % Size = a + x - Size
            BY <2>3, <1>10, DivisionUnique
        <3>3. (0 * Size + (a + x - Size)) % Size = a + x - Size
            BY <2>3, <1>10, DivisionUnique
        <3> QED
            BY <3>1, <3>2, <3>3, <1>7
    <2> HIDE DEF stop, c
    <2> QED
        BY <2>3, <2>4, <1>9 DEF b
<1> QED
    BY <1>4, <1>5, <1>10, <1>11, <1>12 DEF Buckets

(***************************************************************************)
(* What next() and a poll find when nothing lies behind the cursor.        *)
(***************************************************************************)

\* A number is its quotient and its remainder.
LEMMA QuotientRemainder ==
    ASSUME NEW q \in Nat
    PROVE  q \div Size \in Nat /\ q % Size \in Buckets /\ q = (q \div Size) * Size + (q % Size)
<1> DEFINE k == q \div Size
           r == q % Size
<1>1. k \in Nat /\ r \in 0 .. Size - 1 /\ q = k * Size + r
    BY SizeAssumption
<1> HIDE DEF k, r
<1>2. k \in Nat /\ r \in Buckets /\ q = k * Size + r
    BY <1>1 DEF Buckets
<1> QED
    BY <1>2 DEF k, r

\* A slot is an epoch and a bucket.
LEMMA SlotParts ==
    ASSUME NEW t \in Nat
    PROVE  /\ Quantum(t) \in Nat /\ EpochOf(t) \in Nat /\ BucketOf(t) \in Buckets
           /\ Quantum(t) = EpochOf(t) * Size + BucketOf(t)
<1>1. Quantum(t) \in Nat
    BY WidthAssumption DEF Quantum
<1> DEFINE q == Quantum(t)
<1>2. EpochOf(t) = q \div Size /\ BucketOf(t) = q % Size
    BY DEF EpochOf, BucketOf
<1> HIDE DEF q
<1>3. q \in Nat
    BY <1>1 DEF q
<1>4. q \div Size \in Nat /\ q % Size \in Buckets /\ q = (q \div Size) * Size + (q % Size)
    BY <1>3, QuotientRemainder
<1> QED
    BY <1>2, <1>3, <1>4, Zenon DEF q

\* Slots come in the order of their times.
LEMMA SlotsInOrder ==
    ASSUME NEW s \in Nat, NEW t \in Nat, s <= t
    PROVE  Quantum(s) <= Quantum(t)
<1> DEFINE a == s \div Width
           b == t \div Width
<1>1. /\ a \in Nat /\ Width * a <= s
      /\ b \in Nat /\ t < Width * b + Width
    BY WidthAssumption
<1> HIDE DEF a, b
<1>2. ASSUME b < a PROVE FALSE
    <2>1. b + 1 <= a
        BY <1>1, <1>2
    <2>2. Width * (b + 1) <= Width * a
        BY <1>1, <2>1, WidthAssumption
    <2>3. Width * (b + 1) = Width * b + Width
        BY <1>1, WidthAssumption
    <2> DEFINE x == Width * a
               y == Width * b
    <2>4. x \in Nat /\ y \in Nat /\ Width \in Nat
        BY <1>1, WidthAssumption
    <2>5. x <= s /\ t < y + Width /\ y + Width <= x
        BY <1>1, <2>2, <2>3
    <2> HIDE DEF x, y
    <2> QED
        BY <2>4, <2>5
<1> QED
    BY <1>1, <1>2 DEF a, b, Quantum

\* A time in an earlier slot is earlier.
LEMMA EarlierSlot ==
    ASSUME NEW s \in Nat, NEW t \in Nat, Quantum(s) < Quantum(t)
    PROVE  s <= t
<1>1. SUFFICES ASSUME t <= s PROVE FALSE
    OBVIOUS
<1>2. Quantum(t) <= Quantum(s) /\ Quantum(s) \in Nat /\ Quantum(t) \in Nat
    BY <1>1, SlotsInOrder, SlotParts
<1> QED
    BY <1>2

\* Of the slots from the cursor on, those of an earlier epoch, or of the same
\* epoch and an earlier bucket, come first.
LEMMA EpochsInOrder ==
    ASSUME NEW k \in Nat, NEW a \in Buckets, NEW l \in Nat, NEW b \in Buckets
    PROVE  /\ k < l => k * Size + a < l * Size + b
           /\ k = l /\ a < b => k * Size + a < l * Size + b
<1>1. Size \in Nat /\ a \in Nat /\ b \in Nat /\ a < Size
    BY SizeAssumption DEF Buckets
<1>2. k * Size \in Nat /\ l * Size \in Nat
    BY <1>1
<1>3. ASSUME k < l PROVE k * Size + a < l * Size + b
    <2>1. k + 1 <= l
        BY <1>3
    <2>2. (k + 1) * Size <= l * Size
        BY <1>1, <2>1
    <2>3. (k + 1) * Size = k * Size + Size
        BY <1>1
    <2> QED
        BY <1>1, <1>2, <2>2, <2>3
<1>4. ASSUME k = l, a < b PROVE k * Size + a < l * Size + b
    BY <1>1, <1>2, <1>4
<1> QED
    BY <1>3, <1>4

\* The first event of a bucket is no later than the others.
LEMMA FrontFirst ==
    ASSUME IInv, NEW e \in Pending
    PROVE  LET b == BucketOf(e.time)
           IN  /\ e.time \in Nat /\ b \in Buckets /\ calendar[b] # << >>
               /\ calendar[b][1].time <= e.time
<1> USE DEF IInv
<1>1. PICK b \in Buckets : e \in Held(calendar[b])
    BY DEF Pending, InCalendar
<1>2. PICK i \in 1 .. Len(calendar[b]) : e = calendar[b][i]
    BY <1>1 DEF Held
<1>3. e.time \in Nat /\ Len(calendar[b]) \in Nat
    BY <1>2, EntryType
<1>4. BucketOf(e.time) = b
    BY <1>2 DEF BucketsOrdered
<1>5. 1 \in 1 .. Len(calendar[b]) /\ i \in 1 .. Len(calendar[b])
    BY <1>3, <1>2
<1>6. calendar[b][1].time <= e.time
    BY <1>2, <1>5 DEF BucketsOrdered
<1>7. calendar[b] # << >>
    <2>1. SUFFICES ASSUME calendar[b] = << >> PROVE FALSE
        OBVIOUS
    <2>2. Len(calendar[b]) = 0
        BY <2>1
    <2> QED
        BY <1>5, <2>2
<1> QED
    BY <1>3, <1>4, <1>6, <1>7

\* And it is itself pending, in a slot of the bucket.
LEMMA FrontPending ==
    ASSUME IInv, NEW b \in Buckets, calendar[b] # << >>
    PROVE  /\ calendar[b][1] \in Pending /\ calendar[b][1].time \in Nat
           /\ BucketOf(calendar[b][1].time) = b
<1> USE DEF IInv
<1>1. 1 \in 1 .. Len(calendar[b])
    BY EntryType
<1>2. calendar[b][1] \in Held(calendar[b])
    BY <1>1 DEF Held
<1> QED
    BY <1>1, <1>2, EntryType DEF Pending, InCalendar, BucketsOrdered

\* Two offsets that stay within the calendar do not wrap around.
LEMMA NoWrap ==
    ASSUME NEW n \in Nat \ {0}, NEW x \in 0 .. n - 1, NEW y \in 0 .. n - 1, NEW z \in 0 .. n - 1, y <= z - x
    PROVE  (x + y) % n = x + y /\ x + y <= z
OBVIOUS

\* If no event lies behind the cursor, next() is the earliest time.
LEMMA NextIsExact ==
    ASSUME IInv, counter > 0, \A e \in Pending : Quantum(e.time) >= Cursor
    PROVE  NextTime = Min({e.time : e \in Pending})
<1> DEFINE filled == {b \in Buckets : calendar[b] # << >>}
           front(b) == calendar[b][1].time
           at(d) == (bucket + d) % Size
           thisEpoch == {d \in Buckets : at(d) \in filled /\ EpochOf(front(at(d))) = epoch}
           fronts == {front(b) : b \in filled}
           times == {e.time : e \in Pending}
<1>0. /\ TypeOK /\ epoch \in Nat /\ bucket \in Buckets /\ Size \in Nat \ {0}
      /\ Cursor = epoch * Size + bucket
    BY SizeAssumption DEF IInv, TypeOK, Cursor
<1>1. Pending # {}
    BY FS_EmptySet DEF IInv, CounterExact
<1>2. times \in SUBSET Nat /\ times # {}
    BY <1>1, FrontFirst
<1>3. Min(times) \in times /\ \A y \in times : Min(times) <= y
    BY <1>2, MinSpec
<1>4. \A b \in filled : front(b) \in times
    BY FrontPending
<1>5. \A y \in times : \E b \in filled : front(b) <= y /\ front(b) \in Nat
    BY FrontFirst, FrontPending
\* It is enough that no event is earlier.
<1>6. ASSUME NextTime \in times, \A b \in filled : NextTime <= front(b)
      PROVE  NextTime = Min(times)
    <2>1. NextTime \in Nat /\ Min(times) \in Nat /\ Min(times) <= NextTime
        BY <1>2, <1>3, <1>6
    <2>2. PICK b \in filled : front(b) <= Min(times) /\ front(b) \in Nat
        BY <1>3, <1>5
    <2>3. NextTime <= front(b)
        BY <1>6
    <2> QED
        BY <2>1, <2>2, <2>3
<1>7. CASE thisEpoch # {}
    <2> DEFINE d == Min(thisEpoch)
               f == front(at(d))
    <2>0. counter # 0
        BY DEF IInv, TypeOK
    <2>1. NextTime = f
        BY <1>7, <2>0, Zenon DEF NextTime
    <2>2. thisEpoch \in SUBSET Nat
        BY SizeAssumption DEF Buckets
    <2>3. d \in thisEpoch /\ \A x \in thisEpoch : d <= x
        BY <1>7, <2>2, MinSpec
    <2>4. d \in Buckets /\ at(d) \in filled /\ EpochOf(f) = epoch
        BY <2>3
    <2>5. f \in Nat /\ f \in times /\ BucketOf(f) = at(d)
        BY <2>4, FrontPending
    <2>6. Quantum(f) = epoch * Size + at(d) /\ Quantum(f) >= Cursor /\ at(d) \in Buckets
        <3>1. calendar[at(d)][1] \in Pending
            BY <2>4, FrontPending
        <3> QED
            BY <2>4, <2>5, <3>1, SlotParts
    <2>7. ASSUME NEW b \in filled PROVE f <= front(b)
        <3> DEFINE g == front(b)
        <3>1. g \in Nat /\ calendar[b][1] \in Pending /\ BucketOf(g) = b
            BY FrontPending
        <3>2. Quantum(g) \in Nat /\ EpochOf(g) \in Nat /\ Quantum(g) = EpochOf(g) * Size + b
            BY <3>1, SlotParts
        <3>3. Quantum(g) >= Cursor
            BY <3>1
        <3>4. epoch <= EpochOf(g)
            <4>1. SUFFICES ASSUME EpochOf(g) < epoch PROVE FALSE
                BY <1>0, <3>2
            <4>2. Quantum(g) < Cursor
                BY <1>0, <3>2, <4>1, EpochsInOrder
            <4>3. Cursor \in Nat
                BY <1>0 DEF Buckets
            <4> QED
                BY <3>2, <3>3, <4>2, <4>3
        <3>5. CASE epoch < EpochOf(g)
            <4>1. Quantum(f) < Quantum(g)
                BY <1>0, <2>6, <3>2, <3>5, EpochsInOrder
            <4> QED
                BY <2>5, <3>1, <4>1, EarlierSlot
        <3>6. CASE epoch = EpochOf(g)
            <4>1. b \in Buckets /\ bucket <= b
                BY <1>0, <3>2, <3>3, <3>6 DEF Buckets
            <4>2. b - bucket \in thisEpoch
                <5>1. b - bucket \in Buckets /\ bucket + (b - bucket) = b
                    BY <1>0, <4>1 DEF Buckets
                <5>2. at(b - bucket) = b
                    <6>1. 0 * Size + b = b /\ 0 \in Nat
                        BY <1>0, <4>1 DEF Buckets
                    <6>2. b % Size = b
                        BY <4>1, <6>1, DivisionUnique
                    <6> QED
                        BY <5>1, <6>2
                <5> QED
                    BY <3>6, <5>1, <5>2
            <4>3. d <= b - bucket
                BY <2>3, <4>2
            <4>4. at(d) = bucket + d /\ bucket + d <= b
                <5>1. bucket \in 0 .. Size - 1 /\ d \in 0 .. Size - 1 /\ b \in 0 .. Size - 1
                    BY <1>0, <2>4, <4>1 DEF Buckets
                <5> HIDE DEF d
                <5> QED
                    BY <1>0, <4>3, <5>1, NoWrap
            <4>5. at(d) <= b
                BY <4>4
            <4>6. CASE at(d) = b
                BY <3>1, <4>6
            <4>7. CASE at(d) < b
                <5>1. Quantum(f) < Quantum(g)
                    BY <1>0, <2>6, <3>2, <3>6, <4>1, <4>7, EpochsInOrder
                <5> QED
                    BY <2>5, <3>1, <5>1, EarlierSlot
            <4> QED
                <5>1. at(d) \in Int /\ b \in Int
                    <6>1. Buckets \subseteq Int
                        BY DEF Buckets
                    <6> QED
                        BY <2>6, <4>1, <6>1
                <5>2. at(d) = b \/ at(d) < b
                    <6> DEFINE c == at(d)
                    <6>1. c \in Int /\ b \in Int /\ c <= b
                        BY <4>5, <5>1
                    <6> HIDE DEF c
                    <6>2. c = b \/ c < b
                        BY <6>1
                    <6> QED
                        BY <6>2 DEF c
                <5> QED
                    BY <4>6, <4>7, <5>2
        <3>7. epoch < EpochOf(g) \/ epoch = EpochOf(g)
            <4> DEFINE h == EpochOf(g)
            <4>1. h \in Nat /\ epoch \in Nat /\ epoch <= h
                BY <1>0, <3>2, <3>4
            <4> HIDE DEF h
            <4>2. epoch < h \/ epoch = h
                BY <4>1
            <4> QED
                BY <4>2 DEF h
        <3> QED
            BY <3>5, <3>6, <3>7
    <2> QED
        BY <1>6, <2>1, <2>5, <2>7
<1>8. CASE thisEpoch = {}
    <2>1. NextTime = Min(fronts)
        BY <1>8 DEF NextTime
    <2>2. fronts \in SUBSET Nat /\ fronts # {}
        <3>1. \A b \in filled : front(b) \in Nat
            BY <1>2, <1>4
        <3>2. filled # {}
            BY <1>3, <1>5
        <3> HIDE DEF front, filled
        <3> QED
            BY <3>1, <3>2
    <2>3. Min(fronts) \in fronts /\ \A y \in fronts : Min(fronts) <= y
        BY <2>2, MinSpec
    <2> QED
        BY <1>4, <1>6, <2>1, <2>3
<1> QED
    BY <1>7, <1>8

\* The buckets a poll walks hold the slots from the cursor's to the clock's.
LEMMA WalkCovers ==
    ASSUME TypeOK, NEW s \in Nat, NEW t \in Nat, s <= t,
           Quantum(s) >= Cursor, Quantum(t) < Cursor + Size
    PROVE  BucketOf(s) \in Scanned(t)
<1> DEFINE k == EpochOf(s)
           a == BucketOf(s)
           l == EpochOf(t)
           b == BucketOf(t)
           stop == bucket + (IF b - bucket > 0 THEN b - bucket ELSE Size - (b - bucket))
<1>1. /\ k \in Nat /\ a \in Buckets /\ Quantum(s) = k * Size + a
      /\ l \in Nat /\ b \in Buckets /\ Quantum(t) = l * Size + b
      /\ Quantum(s) <= Quantum(t) /\ Quantum(s) \in Nat /\ Quantum(t) \in Nat
    BY SlotParts, SlotsInOrder
<1>2. /\ epoch \in Nat /\ bucket \in Buckets /\ Size \in Nat \ {0}
      /\ Cursor = epoch * Size + bucket
    BY SizeAssumption DEF TypeOK, Cursor
<1>3. Scanned(t) = {i % Size : i \in bucket .. stop}
    BY DEF Scanned
<1> HIDE DEF a, b, k, l
<1> DEFINE walk == bucket .. stop
<1>4. (a \in walk \/ a + Size \in walk) => a \in Scanned(t)
    <2>1. 0 * Size + a = a /\ 1 * Size + a = a + Size /\ 0 \in Nat /\ 1 \in Nat
        BY <1>1, <1>2 DEF Buckets
    <2>2. a % Size = a /\ (a + Size) % Size = a
        BY <1>1, <2>1, DivisionUnique
    <2>3. ASSUME NEW i \in walk PROVE i % Size \in Scanned(t)
        BY <1>3
    <2> HIDE DEF walk
    <2> QED
        BY <2>2, <2>3
<1>5. CASE b <= bucket
    <2>1. stop = Size + (2 * bucket - b)
        BY <1>1, <1>2, <1>5 DEF Buckets
    <2>2. stop \in Nat /\ bucket \in Nat /\ a \in Nat /\ bucket + Size <= stop
          /\ a < Size /\ bucket < Size
        BY <1>1, <1>2, <1>5, <2>1 DEF Buckets
    <2> HIDE DEF stop
    <2>3. CASE bucket <= a
        <3>1. a \in walk
            BY <1>2, <2>2, <2>3
        <3> QED
            BY <1>4, <3>1 DEF a
    <2>4. CASE a < bucket
        <3>1. a + Size \in walk
            <4>1. a + Size <= stop /\ bucket <= a + Size /\ a + Size \in Int
                BY <1>2, <2>2, <2>4
            <4> QED
                BY <2>2, <4>1
        <3> QED
            BY <1>4, <3>1 DEF a
    <2> QED
        BY <2>2, <2>3, <2>4
<1>6. CASE bucket < b
    <2>1. stop = b
        BY <1>1, <1>2, <1>6 DEF Buckets
    \* The clock is in the cursor's epoch,
    <2>2. ~(epoch < l)
        <3>1. SUFFICES ASSUME epoch + 1 <= l PROVE FALSE
            BY <1>1, <1>2
        <3>2. (epoch + 1) * Size <= l * Size /\ (epoch + 1) * Size = epoch * Size + Size
            BY <1>1, <1>2, <3>1
        <3>3. epoch * Size \in Nat /\ l * Size \in Nat /\ b \in Nat /\ bucket \in Nat
            BY <1>1, <1>2 DEF Buckets
        <3> QED
            BY <1>1, <1>2, <1>6, <3>2, <3>3
    \* and so is the event, between the two buckets.
    <2>3. ~(k < epoch) /\ ~(l < k)
        BY <1>1, <1>2, EpochsInOrder
    <2>4. k = epoch /\ l = epoch
        BY <1>1, <1>2, <2>2, <2>3
    <2>5. ~(a < bucket) /\ ~(b < a)
        BY <1>1, <1>2, <2>4, EpochsInOrder
    <2>6. a \in walk
        BY <1>1, <1>2, <2>1, <2>5 DEF Buckets
    <2> HIDE DEF walk
    <2> QED
        BY <1>4, <2>6 DEF a
<1> QED
    BY <1>1, <1>2, <1>4, <1>5, <1>6 DEF a, Buckets

\* So a poll leaves none of these that is due.
LEMMA PollLeavesNoneDue ==
    ASSUME IInv, NEW t \in Nat, Get(t), now' = t, UNCHANGED <<mode, issued>>,
           \A e \in Pending : Quantum(e.time) >= Cursor, Quantum(t) < Cursor + Size,
           NEW e \in Pending'
    PROVE  e.time > now'
<1>1. e \in Pending /\ e \notin Due(t)
    BY GetStep
<1>2. PICK b \in Buckets : e \in Held(calendar[b])
    BY <1>1 DEF Pending, InCalendar
<1>3. PICK i \in 1 .. Len(calendar[b]) : e = calendar[b][i]
    BY <1>2 DEF Held
<1>4. calendar[b] \in Seq(Events) /\ Len(calendar[b]) \in Nat /\ e.time \in Nat
    BY <1>3, EntryType DEF IInv
<1>5. BucketOf(e.time) = b
    BY <1>3 DEF IInv, BucketsOrdered
<1>6. SUFFICES ASSUME e.time <= t PROVE FALSE
    BY <1>4
<1>7. b \in Scanned(t)
    BY <1>1, <1>4, <1>5, <1>6, WalkCovers DEF IInv
<1> DEFINE n == Leading(calendar[b], t)
<1>8. /\ n \in 0 .. Len(calendar[b])
      /\ n < Len(calendar[b]) => calendar[b][n + 1].time > t
    <2> DEFINE s == calendar[b]
    <2>1. s \in Seq(Events) /\ t \in Int
        BY <1>4
    <2> HIDE DEF s
    <2>2. /\ Leading(s, t) \in 0 .. Len(s)
          /\ Leading(s, t) < Len(s) => s[Leading(s, t) + 1].time > t
        BY <2>1, LeadingSpec
    <2> QED
        BY <2>2 DEF s
<1>9. Shift(b, t) = n
    BY <1>7 DEF Shift
<1> HIDE DEF n
<1>10. ~(i \in 1 .. n)
    BY <1>1, <1>3, <1>9, SplitSpec DEF IInv
<1>11. n + 1 \in 1 .. Len(calendar[b]) /\ i \in n + 1 .. Len(calendar[b]) /\ n < Len(calendar[b])
    BY <1>3, <1>4, <1>8, <1>10
<1>12. calendar[b][n + 1].time <= e.time /\ calendar[b][n + 1].time \in Nat
    BY <1>3, <1>11, EntryType DEF IInv, BucketsOrdered
<1> QED
    BY <1>4, <1>6, <1>8, <1>11, <1>12

LEMMA NextIInv == IInv /\ [Next]_vars => IInv'
<1> SUFFICES ASSUME IInv, [Next]_vars PROVE IInv'
    OBVIOUS
<1>1. ASSUME NEW t \in 0 .. MaxTime, Schedule(t)
      PROVE  IInv'
    <2>1. t \in Nat
        BY BoundAssumption
    <2> QED
        BY <1>1, <2>1, ScheduleStep
<1>2. ASSUME LoopTick
      PROVE  IInv'
    BY <1>2, TickStep, GetStep DEF LoopTick
<1>3. ASSUME NEW t \in 0 .. MaxTime, AdapterSend(t)
      PROVE  IInv'
    BY <1>3, BoundAssumption, GetStep DEF AdapterSend
<1>4. ASSUME UNCHANGED vars
      PROVE  IInv'
    <2>1. UNCHANGED <<mode, now, calendar, epoch, bucket, counter, issued, delivered>>
        BY <1>4 DEF vars
    <2>2. Pending' = Pending
        BY <2>1 DEF Pending, InCalendar
    <2>3. TypeOK'
        BY <2>1 DEF IInv, TypeOK
    <2>4. BucketsOrdered'
        BY <2>1 DEF IInv, BucketsOrdered
    <2>5. ExactlyOnce'
        BY <2>1, <2>2 DEF IInv, ExactlyOnce
    <2>6. CounterExact' /\ IsFiniteSet(Pending')
        BY <2>1, <2>2 DEF IInv, CounterExact
    <2>7. NeverEarly'
        BY <2>1 DEF IInv, NeverEarly
    <2> QED
        BY <2>3, <2>4, <2>5, <2>6, <2>7 DEF IInv
<1> QED
    BY <1>1, <1>2, <1>3, <1>4 DEF Next

(***************************************************************************)
(* Theorems.                                                               *)
(***************************************************************************)

\* The strengthened invariant holds of every reachable state.
THEOREM Invariance == Spec => []IInv
    BY InitIInv, NextIInv, PTL DEF Spec

\* Kronos keeps its shape: the cursor always names a bucket of the calendar.
THEOREM TypeCorrect == Spec => []TypeOK
<1>1. IInv => TypeOK
    BY DEF IInv
<1> QED
    BY <1>1, Invariance, PTL

\* Every bucket stays in time order and holds only events of its own slots.
THEOREM AlwaysOrdered == Spec => []BucketsOrdered
<1>1. IInv => BucketsOrdered
    BY DEF IInv
<1> QED
    BY <1>1, Invariance, PTL

\* No event is lost, doubled or delivered twice, whatever the order of
\* schedule() and get() and wherever the cursor stands.
THEOREM AlwaysExactlyOnce == Spec => []ExactlyOnce
<1>1. IInv => ExactlyOnce
    BY DEF IInv
<1> QED
    BY <1>1, Invariance, PTL

\* The counter always counts the calendar: the loop stops exactly when it is
\* empty, and the walk past empty buckets always ends.
THEOREM AlwaysCounted == Spec => []CounterExact
<1>1. IInv => CounterExact
    BY DEF IInv
<1> QED
    BY <1>1, Invariance, PTL

\* The calendar queue keeps its account of the events it holds and has delivered.
THEOREM AlwaysExact == Spec => []CalendarExact
    BY AlwaysOrdered, AlwaysExactlyOnce, AlwaysCounted, PTL DEF CalendarExact

\* No event is delivered before its time.
THEOREM AlwaysOnTime == Spec => []NeverEarly
<1>1. IInv => NeverEarly
    BY DEF IInv
<1> QED
    BY <1>1, Invariance, PTL

\* Every due event lies in a bucket that get() would walk now, wherever the cursor
\* stands, if it was not scheduled in the past.
DueInWalk ==
    \A e \in Pending : e.time <= now /\ e.time \notin Past => BucketOf(e.time) \in Scanned(now)

\* An event is overlooked by next(), but not by the get() of a turn that leaves the
\* clock where it is.
THEOREM AlwaysReached == Spec => []DueInWalk
<1>1. Init => DueInWalk
    BY DEF Init, DueInWalk, Pending, InCalendar, Held
<1>2. IInv /\ DueInWalk /\ [Next]_vars => DueInWalk'
    <2> SUFFICES ASSUME IInv, DueInWalk, [Next]_vars PROVE DueInWalk'
        OBVIOUS
    <2>1. ASSUME NEW t \in 0 .. MaxTime, Schedule(t)
          PROVE  DueInWalk'
        <3> DEFINE e == [id |-> issued, time |-> t]
        <3>1. t \in Nat /\ e.time = t
            BY BoundAssumption
        <3>a. Pending' = Pending \cup {e}
            BY <2>1, <3>1, ScheduleStep
        <3>2. bucket' = bucket /\ now' = now /\ now \in Nat
            BY <2>1 DEF Schedule, IInv, TypeOK
        <3>3. Scanned(now)' = Scanned(now)
            BY <3>2 DEF Scanned
        <3>4. t <= now /\ t \notin Past => t = now
            BY <2>1, <3>1, <3>2 DEF Schedule
        <3>5. BucketOf(now) \in Scanned(now)
            BY <3>2, TargetScanned DEF IInv
        <3> HIDE DEF e
        <3>6. ASSUME NEW x \in Pending', x.time <= now', x.time \notin Past
              PROVE  BucketOf(x.time) \in Scanned(now)'
            <4>1. CASE x = e
                BY <4>1, <3>1, <3>2, <3>3, <3>4, <3>5, <3>6
            <4>2. CASE x \in Pending
                BY <4>2, <3>2, <3>3, <3>6 DEF DueInWalk
            <4> QED
                BY <4>1, <4>2, <3>a
        <3> QED
            BY <3>6 DEF DueInWalk
    <2>2. ASSUME NEW t \in Nat, Get(t), now' = t, UNCHANGED <<mode, issued>>
          PROVE  DueInWalk'
        <3>1. Scanned(now)' = Scanned(t)'
            BY <2>2 DEF Scanned
        <3> QED
            BY <2>2, <3>1, LeftReached DEF DueInWalk
    <2>3. ASSUME LoopTick
          PROVE  DueInWalk'
        BY <2>2, <2>3, TickStep DEF LoopTick
    <2>4. ASSUME NEW t \in 0 .. MaxTime, AdapterSend(t)
          PROVE  DueInWalk'
        BY <2>2, <2>4, BoundAssumption DEF AdapterSend
    <2>5. ASSUME UNCHANGED vars
          PROVE  DueInWalk'
        BY <2>5 DEF vars, DueInWalk, Pending, InCalendar, Scanned
    <2> QED
        BY <2>1, <2>3, <2>4, <2>5 DEF Next
<1> QED
    BY <1>1, <1>2, Invariance, PTL DEF Spec

\* Every turn of the loop delivers the event next() named, although next() may
\* overlook others and name them when they are past; only one that was scheduled
\* in the past may have to wait a turn.
THEOREM AlwaysTickDelivers == Spec => TickDelivers
<1>1. IInv /\ DueInWalk /\ [Next]_vars =>
        [LoopTick /\ NextTime \notin Past
         => \E d \in delivered' \ delivered : d.time = NextTime /\ d.at = now']_vars
    <2> SUFFICES ASSUME IInv, DueInWalk, LoopTick, NextTime \notin Past
                 PROVE  \E d \in delivered' \ delivered : d.time = NextTime /\ d.at = now'
        OBVIOUS
    <2> DEFINE f == NextTime
               t == SetTime(f)
    <2>1. f \in Nat /\ t \in Nat /\ now \in Nat /\ counter > 0 /\ (t = f \/ (t = now /\ f < now))
        <3>1. f \in Nat /\ now \in Nat /\ counter > 0
            BY TickStep DEF LoopTick, IInv, TypeOK
        <3> HIDE DEF f
        <3>2. SetTime(f) \in Nat /\ (SetTime(f) = f \/ (SetTime(f) = now /\ f < now))
            BY <3>1 DEF SetTime
        <3> QED
            BY <3>1, <3>2
    <2>2. PICK b \in Buckets : Len(calendar[b]) > 0 /\ f = calendar[b][1].time
        BY <2>1, NextIsFront
    <2>3. calendar[b][1] \in Pending
        BY <2>2, EntryType DEF IInv, Pending, InCalendar, Held
    <2>4. BucketOf(f) \in Scanned(t)
        <3>1. CASE t = f
            BY <3>1, <2>1, TargetScanned DEF IInv
        <3> HIDE DEF f, t
        <3>2. CASE t = now /\ f < now
            BY <3>2, <2>1, <2>2, <2>3 DEF DueInWalk, f
        <3> QED
            BY <3>1, <3>2, <2>1
    <2> QED
        BY <2>4, TickStep
<1> QED
    BY <1>1, Invariance, AlwaysReached, PTL DEF Spec, TickDelivers

\* If no event lies behind the cursor that get() left, the loop's next time is
\* that of the earliest event.
THEOREM AlwaysNextExactAhead == Spec => []NextExactAhead
<1>1. IInv => NextExactAhead
    BY NextIsExact DEF NextExactAhead
<1> QED
    BY <1>1, Invariance, PTL

\* A poll by an adapter leaves nothing behind that is due, if nothing lay behind
\* the cursor and the clock is within a calendar length of it.
THEOREM AlwaysPollComplete == Spec => PollComplete
<1> DEFINE A == (/\ mode = "adapter" /\ issued' = issued
                 /\ \A e \in Pending : Quantum(e.time) >= Cursor
                 /\ Quantum(now') < Cursor + Size)
                => \A e \in Pending' : e.time > now'
<1>1. IInv /\ [Next]_vars => [A]_vars
    <2> SUFFICES ASSUME IInv, Next, mode = "adapter", issued' = issued,
                        \A e \in Pending : Quantum(e.time) >= Cursor,
                        Quantum(now') < Cursor + Size
                 PROVE  \A e \in Pending' : e.time > now'
        OBVIOUS
    <2>1. ASSUME NEW t \in 0 .. MaxTime, AdapterSend(t) PROVE \A e \in Pending' : e.time > now'
        <3>1. t \in Nat /\ Get(t) /\ now' = t /\ UNCHANGED <<mode, issued>>
            BY <2>1, BoundAssumption DEF AdapterSend
        <3> QED
            BY <3>1, PollLeavesNoneDue
    <2>2. ASSUME NEW t \in 0 .. MaxTime, Schedule(t) PROVE FALSE
        BY <2>2 DEF Schedule, IInv, TypeOK
    <2>3. ~LoopTick
        BY DEF LoopTick
    <2> QED
        BY <2>1, <2>2, <2>3 DEF Next
<1> QED
    BY <1>1, Invariance, PTL DEF Spec, PollComplete

\* Each get() reaches what it has to: all that is due for an adapter, the event that
\* next() named for the loop.
THEOREM AlwaysComplete == Spec => GetsComplete
BY AlwaysPollComplete, AlwaysTickDelivers DEF GetsComplete

\* Kronos implements the future event list.
THEOREM Refinement == Spec => ImplementsFutureEventList
<1>1. Init => FEL!FELInit
    BY DEF Init, FEL!FELInit, Pending, InCalendar, Held, Served
<1>2. IInv /\ [Next]_vars => [FEL!FELNext]_(FEL!felVars)
    <2> SUFFICES ASSUME IInv, [Next]_vars
                 PROVE  [FEL!FELNext]_(FEL!felVars)
        OBVIOUS
    <2>1. ASSUME NEW t \in 0 .. MaxTime, Schedule(t)
          PROVE  FEL!FELNext
        <3> DEFINE e == [id |-> issued, time |-> t]
        <3>1. e \notin Pending /\ Pending' = Pending \cup {e}
            BY <2>1, BoundAssumption, ScheduleStep
        <3>2. e \notin Served
            <4>1. \A x \in delivered : x.id # issued
                BY DEF IInv, ExactlyOnce, TypeOK
            <4> QED
                BY <4>1 DEF Served
        <3>3. now' = now /\ Served' = Served /\ mode' = mode
            BY <2>1 DEF Schedule, Served
        <3> QED
            BY <3>1, <3>2, <3>3 DEF FEL!FELNext, FEL!Add
    <2>2. ASSUME LoopTick
          PROVE  FEL!FELNext
        <3> DEFINE t == SetTime(NextTime)
        <3>1. /\ t \in Nat /\ now' = t /\ t >= now /\ mode = "loop" /\ mode' = mode
              /\ t = now \/ \E e \in Due(t) : e.time = t
            BY <2>2, TickStep DEF LoopTick
        <3>2. /\ Due(t) \subseteq Pending
              /\ \A e \in Due(t) : e.time <= t
              /\ Pending' = Pending \ Due(t)
              /\ Served' = Served \cup Due(t)
            BY <2>2, <3>1, GetStep DEF LoopTick
        <3> HIDE DEF t
        <3>3. FEL!Turn
            BY <3>1, <3>2 DEF FEL!Turn, FEL!Deliver
        <3> QED
            BY <3>3 DEF FEL!FELNext
    <2>3. ASSUME NEW t \in 0 .. MaxTime, AdapterSend(t)
          PROVE  FEL!FELNext
        <3>1. t \in Nat /\ now' = t /\ t >= now /\ mode = "adapter" /\ mode' = mode
            BY <2>3, BoundAssumption DEF AdapterSend
        <3>2. /\ Due(t) \subseteq Pending
              /\ \A e \in Due(t) : e.time <= t
              /\ Pending' = Pending \ Due(t)
              /\ Served' = Served \cup Due(t)
            BY <2>3, <3>1, GetStep DEF AdapterSend
        <3>3. FEL!Poll
            BY <3>1, <3>2 DEF FEL!Poll, FEL!Deliver
        <3> QED
            BY <3>3 DEF FEL!FELNext
    <2>4. ASSUME UNCHANGED vars
          PROVE  UNCHANGED FEL!felVars
        BY <2>4 DEF vars, FEL!felVars, Pending, InCalendar, Served
    <2> QED
        BY <2>1, <2>2, <2>3, <2>4 DEF Next
<1> QED
    BY <1>1, <1>2, Invariance, PTL DEF Spec, ImplementsFutureEventList, FEL!FELSpec

-----------------------------------------------------------------------------
(* The adapter. *)

(***************************************************************************)
(* Numbers.                                                                *)
(***************************************************************************)

LEMMA MinOf ==
    ASSUME NEW T \in SUBSET Nat, T # {}
    PROVE  Min(T) \in T /\ \A y \in T : Min(T) <= y
<1>1. \E x \in T : \A y \in T : x <= y
    BY LeastNatural
<1> QED
    BY <1>1 DEF Min

LEMMA Division ==
    ASSUME NEW a \in Nat, NEW b \in Nat \ {0}
    PROVE  /\ a \div b \in Nat
           /\ b * (a \div b) <= a
           /\ a < b * (a \div b) + b
OBVIOUS

\* What lies beyond a time of gem5 is not due before the tick of that time.
LEMMA NotBefore ==
    ASSUME NEW tick0 \in Nat, NEW num \in Nat \ {0}, NEW den \in Nat \ {0}, NEW at \in Nat, NEW then \in Nat,
           at >= (tick0 * num) \div den, then > at
    PROVE  (then * den) \div num \in Nat /\ (then * den) \div num >= tick0
<1> DEFINE x == tick0 * num
           d == x \div den
           y == then * den
           q == y \div num
<1>1. x \in Nat /\ y \in Nat
    OBVIOUS
<1>2. d \in Nat /\ x < den * d + den
    <2> HIDE DEF x
    <2> QED
        BY <1>1, Division
<1>3. q \in Nat /\ y < num * q + num
    <2> HIDE DEF y
    <2> QED
        BY <1>1, Division
<1>4. y >= den * (d + 1)
    <2>1. then >= d + 1 /\ d + 1 \in Nat
        BY <1>2
    <2> HIDE DEF d
    <2>2. \E e \in Nat : then = (d + 1) + e
        <3>1. then - (d + 1) \in Nat
            BY <2>1
        <3> QED
            BY <2>1, <3>1
    <2>3. PICK e \in Nat : then = (d + 1) + e
        BY <2>2
    <2>4. then * den = (d + 1) * den + e * den /\ e * den >= 0
        BY <2>1, <2>3
    <2>5. (d + 1) * den = den * (d + 1)
        BY <2>1
    <2>6. (d + 1) * den \in Nat /\ e * den \in Nat
        BY <2>1, <2>3
    <2> QED
        BY <2>4, <2>5, <2>6
<1>5. den * (d + 1) = den * d + den
    BY <1>2
<1>6. num * tick0 = x
    OBVIOUS
<1>7. y > x
    <2>1. den * d + den \in Int
        BY <1>2
    <2> HIDE DEF x, y, d
    <2> QED
        BY <1>1, <1>2, <1>4, <1>5, <2>1
<1>8. q >= tick0
    <2>1. SUFFICES ASSUME q < tick0 PROVE FALSE
        BY <1>3
    <2> HIDE DEF q
    <2>2. \E e \in Nat : tick0 = (q + 1) + e
        <3>1. tick0 - (q + 1) \in Nat
            BY <1>3, <2>1
        <3> QED
            BY <1>3, <3>1
    <2>3. PICK e \in Nat : tick0 = (q + 1) + e
        BY <2>2
    <2>4. num * tick0 = num * q + num + num * e /\ num * e \in Nat /\ num * q \in Nat
        BY <1>3, <2>3
    <2> HIDE DEF x, y
    <2> QED
        BY <1>1, <1>3, <1>6, <1>7, <2>4
<1> QED
    BY <1>3, <1>8

LEMMA JoinCount ==
    ASSUME NEW S, NEW T, IsFiniteSet(S), IsFiniteSet(T), S \cap T = {}
    PROVE  /\ IsFiniteSet(S \cup T) /\ Cardinality(S) \in Nat /\ Cardinality(T) \in Nat
           /\ Cardinality(S \cup T) = Cardinality(S) + Cardinality(T)
<1>1. IsFiniteSet(S \cup T) /\ Cardinality(S \cup T) = Cardinality(S) + Cardinality(T) - Cardinality(S \cap T)
    BY FS_Union
<1>2. Cardinality(S \cap T) = 0
    BY FS_EmptySet
<1>3. Cardinality(S) \in Nat /\ Cardinality(T) \in Nat
    BY FS_CardinalityType
<1> QED
    BY <1>1, <1>2, <1>3

LEMMA PartOfInterval ==
    ASSUME NEW n \in Nat, NEW S \in SUBSET (1..n)
    PROVE  IsFiniteSet(S) /\ Cardinality(S) \in Nat
<1>1. IsFiniteSet(1..n)
    BY FS_Interval
<1>2. IsFiniteSet(S)
    BY <1>1, FS_Subset
<1> QED
    BY <1>2, FS_CardinalityType

(***************************************************************************)
(* The account of one master's packets.                                    *)
(***************************************************************************)

\* The packets of a set that are as the n-th is.
Alike(c, m, n, S) == {x \in S : c.packets[m][x] = c.packets[m][n]}

\* What has been offered to a port and not been answered.
OutOf(retry, sent) == sent \cup ({retry} \ {0})

\* The buffer holds the last packets made, in order, and no others have been offered;
\* the refused one is the last of those.  The table's entries and what is out agree
\* for every packet, and no more is out or buffered than is outstanding; if exact, no less.
Account(c, m, num, buffer, retry, sent, table, out, exact) ==
    LET before == num - Len(buffer) IN
    /\ num \in 0..Len(c.packets[m]) /\ out \in 0..c.maxOt[m]
    /\ buffer \in Seq(Nat) /\ before \in Nat
    /\ \A i \in 1..Len(buffer) : buffer[i] = before + i
    /\ retry \in 0..before /\ sent \subseteq 1..before
    /\ retry # 0 => \A n \in sent : n < retry
    /\ table \subseteq 1..before
    /\ \A n \in 1..Len(c.packets[m]) :
           Cardinality(Alike(c, m, n, table)) = Cardinality(Alike(c, m, n, OutOf(retry, sent)))
    /\ out >= Len(buffer) + Cardinality(OutOf(retry, sent))
    /\ exact => out = Len(buffer) + Cardinality(OutOf(retry, sent))

\* The engine makes some packets more, which are buffered.
LEMMA Queued ==
    ASSUME NEW c \in Configuration, NEW m \in Masters, NEW num, NEW buffer, NEW retry, NEW sent, NEW table, NEW out,
           NEW exact \in BOOLEAN, Account(c, m, num, buffer, retry, sent, table, out, exact),
           NEW more \in Nat, num + more <= Len(c.packets[m]), out + more <= c.maxOt[m]
    PROVE  /\ Len(buffer \o [i \in 1..more |-> num + i]) = Len(buffer) + more
           /\ Account(c, m, num + more, buffer \o [i \in 1..more |-> num + i], retry, sent, table, out + more, exact)
<1> DEFINE new == [i \in 1..more |-> num + i]
           before == num - Len(buffer)
           queue == buffer \o new
           o == OutOf(retry, sent)
<1>1. /\ num \in 0..Len(c.packets[m]) /\ out \in 0..c.maxOt[m]
      /\ buffer \in Seq(Nat) /\ before \in Nat
      /\ \A i \in 1..Len(buffer) : buffer[i] = before + i
      /\ retry \in 0..before /\ sent \subseteq 1..before
      /\ (retry # 0 => \A n \in sent : n < retry)
      /\ table \subseteq 1..before
      /\ \A n \in 1..Len(c.packets[m]) : Cardinality(Alike(c, m, n, table)) = Cardinality(Alike(c, m, n, o))
      /\ out >= Len(buffer) + Cardinality(o)
      /\ (exact => out = Len(buffer) + Cardinality(o))
    BY DEF Account
<1>2. c.packets[m] \in Seq([addr : Nat, cmd : Commands]) /\ c.maxOt[m] \in Nat
    BY DEF Configuration
<1>3. Len(c.packets[m]) \in Nat /\ Len(buffer) \in Nat
    BY <1>1, <1>2, LenProperties
<1>4. num \in Nat /\ out \in Nat
    BY <1>1, <1>2, <1>3
<1>5. new \in Seq(Nat) /\ Len(new) = more
    BY <1>4
<1>6. queue \in Seq(Nat) /\ Len(queue) = Len(buffer) + more
    BY <1>1, <1>5
<1>7. num + more - Len(queue) = before
    BY <1>3, <1>4, <1>6
<1>8. ASSUME NEW i \in 1..Len(queue) PROVE queue[i] = before + i
    <2>1. CASE i <= Len(buffer)
        <3>1. i \in 1..Len(buffer) /\ queue[i] = buffer[i]
            BY <1>1, <1>3, <1>5, <1>6, <2>1
        <3> QED
            BY <1>1, <3>1
    <2>2. CASE ~(i <= Len(buffer))
        <3>1. i - Len(buffer) \in 1..more /\ queue[i] = new[i - Len(buffer)]
            BY <1>1, <1>3, <1>5, <1>6, <2>2
        <3>2. new[i - Len(buffer)] = num + (i - Len(buffer))
            BY <3>1
        <3> QED
            BY <1>3, <1>4, <3>1, <3>2
    <2> QED
        BY <2>1, <2>2
<1>9. Cardinality(o) \in Nat
    <2>1. o \in SUBSET (1..before)
        BY <1>1 DEF OutOf
    <2> QED
        BY <1>1, <2>1, PartOfInterval
<1>10. /\ out + more >= Len(queue) + Cardinality(o)
       /\ exact => out + more = Len(queue) + Cardinality(o)
    <2> DEFINE k == Cardinality(o)
               q == Len(queue)
               b == Len(buffer)
    <2>1. k \in Nat /\ b \in Nat /\ q = b + more /\ out >= b + k /\ (exact => out = b + k)
        BY <1>1, <1>3, <1>6, <1>9
    <2> HIDE DEF k, q, b
    <2>2. out + more >= q + k
        BY <1>4, <2>1
    <2>3. ASSUME exact PROVE out + more = q + k
        BY <1>4, <2>1, <2>3
    <2> QED
        BY <2>2, <2>3 DEF q, k
<1>11. num + more \in 0..Len(c.packets[m]) /\ out + more \in 0..c.maxOt[m]
    BY <1>2, <1>3, <1>4
<1> HIDE DEF queue, o, new
<1>12. Account(c, m, num + more, queue, retry, sent, table, out + more, exact)
    BY <1>1, <1>6, <1>7, <1>8, <1>10, <1>11 DEF Account, o
<1> QED
    BY <1>6, <1>12 DEF queue, new

\* The first packets of a queue that holds successive ones.
LEMMA FirstOf ==
    ASSUME NEW queue \in Seq(Nat), NEW b \in Nat, \A i \in 1..Len(queue) : queue[i] = b + i,
           NEW k \in 0..Len(queue)
    PROVE  ToSet(SubSeq(queue, 1, k)) = b + 1..b + k
<1>1. Len(queue) \in Nat /\ k \in Nat
    BY LenProperties
<1> DEFINE s == SubSeq(queue, 1, k)
<1>2. Len(s) = k /\ DOMAIN s = 1..k /\ \A i \in 1..k : s[i] = b + i
    BY <1>1
<1>3. ToSet(s) = {s[i] : i \in 1..k}
    BY <1>2 DEF ToSet
<1>4. ASSUME NEW x \in b + 1..b + k PROVE x \in {s[i] : i \in 1..k}
    <2>1. x - b \in 1..k /\ s[x - b] = x
        BY <1>1, <1>2
    <2> QED
        BY <2>1
<1> HIDE DEF s
<1>5. {s[i] : i \in 1..k} \subseteq b + 1..b + k
    BY <1>1, <1>2
<1> QED
    BY <1>3, <1>4, <1>5 DEF s

\* A port takes packets of the queue until it refuses one; what is not in memory is
\* dropped on the way.
Taken(queue, passed, here) ==
    {n \in ToSet(SubSeq(queue, 1, Smaller(passed + 1, Len(queue)))) : n \in here}
Refused(queue, passed) == IF passed < Len(queue) THEN queue[passed + 1] ELSE 0
Dropped(queue, passed, here) == {n \in ToSet(SubSeq(queue, 1, passed)) : n \notin here}

LEMMA RoundServed ==
    ASSUME NEW c \in Configuration, NEW m \in Masters, NEW num, NEW queue, NEW sent, NEW table, NEW out,
           NEW exact \in BOOLEAN, Account(c, m, num, queue, 0, sent, table, out, exact),
           NEW passed \in 0..Len(queue), NEW here,
           passed < Len(queue) => queue[passed + 1] \in here
    PROVE  Account(c, m, num, SubSeq(queue, passed + 2, Len(queue)), Refused(queue, passed),
                   sent \cup (Taken(queue, passed, here) \ {Refused(queue, passed)}),
                   table \cup Taken(queue, passed, here), out, exact /\ Dropped(queue, passed, here) = {})
<1> DEFINE offered == Taken(queue, passed, here)
           refused == Refused(queue, passed)
           dropped == Dropped(queue, passed, here)
           b == num - Len(queue)
           l == Len(queue)
           k == Smaller(passed + 1, l)
           rest == SubSeq(queue, passed + 2, l)
           o == OutOf(refused, sent \cup (offered \ {refused}))
<1>1. /\ num \in 0..Len(c.packets[m]) /\ out \in 0..c.maxOt[m]
      /\ queue \in Seq(Nat) /\ b \in Nat
      /\ \A i \in 1..l : queue[i] = b + i
      /\ sent \subseteq 1..b /\ table \subseteq 1..b
      /\ \A n \in 1..Len(c.packets[m]) :
             Cardinality(Alike(c, m, n, table)) = Cardinality(Alike(c, m, n, OutOf(0, sent)))
      /\ out >= l + Cardinality(OutOf(0, sent))
      /\ (exact => out = l + Cardinality(OutOf(0, sent)))
    BY DEF Account
<1>2. OutOf(0, sent) = sent
    BY DEF OutOf
<1>3. l \in Nat /\ passed \in Nat /\ num \in Nat /\ b + l = num /\ out \in Nat
    <2>1. c.packets[m] \in Seq([addr : Nat, cmd : Commands]) /\ c.maxOt[m] \in Nat
        BY DEF Configuration
    <2>2. Len(c.packets[m]) \in Nat /\ l \in Nat
        BY <1>1, <2>1, LenProperties
    <2> QED
        BY <1>1, <2>1, <2>2
<1>4. k \in 0..l /\ k = IF passed < l THEN passed + 1 ELSE passed
    BY <1>3 DEF Smaller
<1>5. /\ ToSet(SubSeq(queue, 1, k)) = b + 1..b + k
      /\ ToSet(SubSeq(queue, 1, passed)) = b + 1..b + passed
    BY <1>1, <1>3, <1>4, FirstOf
<1>6. offered = {n \in b + 1..b + k : n \in here} /\ dropped = {n \in b + 1..b + passed : n \notin here}
    BY <1>5 DEF Taken, Dropped
<1>7. refused = IF passed < l THEN b + passed + 1 ELSE 0
    <2>1. passed < l => passed + 1 \in 1..l
        BY <1>3
    <2>2. passed < l => queue[passed + 1] = b + (passed + 1)
        BY <1>1, <2>1
    <2> QED
        BY <1>1, <1>3, <2>2 DEF Refused
<1>8. passed < l => b + passed + 1 \in here
    BY <1>7 DEF Refused
<1> HIDE DEF b, l, k, offered, refused, dropped
<1>9. b \in Nat /\ k \in Nat
    BY <1>1, <1>3, <1>4
<1>10. rest \in Seq(Nat) /\ Len(rest) = l - k /\ \A i \in 1..Len(rest) : rest[i] = b + k + i
    <2>1. passed + 2 \in Nat \ {0}
        BY <1>3
    <2>2. rest \in Seq(Nat) /\ Len(rest) = IF passed + 2 <= l THEN l - (passed + 1) ELSE 0
        BY <1>1, <1>3, <2>1 DEF l
    <2>3. Len(rest) = l - k
        BY <1>3, <1>4, <2>2
    <2>4. ASSUME NEW i \in 1..Len(rest) PROVE rest[i] = b + k + i
        <3>1. passed + 2 <= l /\ i \in 1..l - (passed + 1) /\ k = passed + 1
            BY <1>3, <1>4, <2>2, <2>4
        <3>2. rest[i] = queue[passed + 1 + i] /\ passed + 1 + i \in 1..l
            BY <1>1, <1>3, <2>1, <3>1 DEF l
        <3> QED
            BY <1>1, <1>3, <1>9, <3>1, <3>2
    <2> QED
        BY <2>2, <2>3, <2>4
<1> HIDE DEF rest
<1>11. num - Len(rest) = b + k /\ b + k \in Nat
    BY <1>3, <1>4, <1>9, <1>10
<1>12. refused \in 0..b + k /\ (refused # 0 => refused = b + k /\ refused \in offered)
    BY <1>3, <1>4, <1>6, <1>7, <1>8, <1>9
<1>13. offered \subseteq b + 1..b + k /\ offered \subseteq 1..b + k
    BY <1>6, <1>9
<1>14. o = sent \cup offered
    <2>1. 0 \notin offered
        BY <1>9, <1>13
    <2> QED
        BY <1>12, <2>1 DEF OutOf
<1> HIDE DEF o
<1>15. sent \cup (offered \ {refused}) \subseteq 1..b + k /\ table \cup offered \subseteq 1..b + k
    <2>1. 1..b \subseteq 1..b + k
        BY <1>9
    <2> QED
        BY <1>1, <1>13, <2>1
<1>16. refused # 0 => \A n \in sent \cup (offered \ {refused}) : n < refused
    <2>1. SUFFICES ASSUME refused # 0, NEW n \in sent \cup (offered \ {refused}) PROVE n < refused
        OBVIOUS
    <2>2. refused = b + k /\ k > 0
        BY <1>4, <1>7, <1>9, <1>12, <2>1, <1>3
    <2>3. CASE n \in sent
        BY <1>1, <1>9, <2>2, <2>3
    <2>4. CASE n \in offered /\ n # refused
        BY <1>9, <1>13, <2>2, <2>4
    <2> QED
        BY <2>1, <2>3, <2>4
<1>17. \A S \in SUBSET (1..b) : S \cap offered = {}
    BY <1>9, <1>13
<1>18. ASSUME NEW n \in 1..Len(c.packets[m])
       PROVE  Cardinality(Alike(c, m, n, table \cup offered)) = Cardinality(Alike(c, m, n, o))
    <2>1. /\ Alike(c, m, n, table \cup offered) = Alike(c, m, n, table) \cup Alike(c, m, n, offered)
          /\ Alike(c, m, n, o) = Alike(c, m, n, sent) \cup Alike(c, m, n, offered)
        BY <1>14 DEF Alike
    <2>2. /\ Alike(c, m, n, table) \in SUBSET (1..b) /\ Alike(c, m, n, sent) \in SUBSET (1..b)
          /\ Alike(c, m, n, offered) \in SUBSET (1..b + k)
          /\ Alike(c, m, n, offered) \subseteq offered
        BY <1>1, <1>13 DEF Alike
    <2>3. /\ Alike(c, m, n, table) \cap Alike(c, m, n, offered) = {}
          /\ Alike(c, m, n, sent) \cap Alike(c, m, n, offered) = {}
        BY <1>17, <2>2
    <2>4. IsFiniteSet(Alike(c, m, n, table)) /\ IsFiniteSet(Alike(c, m, n, sent)) /\ IsFiniteSet(Alike(c, m, n, offered))
        BY <1>9, <1>11, <2>2, PartOfInterval
    <2>5. Cardinality(Alike(c, m, n, table)) = Cardinality(Alike(c, m, n, sent))
        BY <1>1, <1>2
    <2>6. Cardinality(Alike(c, m, n, table) \cup Alike(c, m, n, offered))
          = Cardinality(Alike(c, m, n, table)) + Cardinality(Alike(c, m, n, offered))
        BY <2>3, <2>4, JoinCount
    <2>7. Cardinality(Alike(c, m, n, sent) \cup Alike(c, m, n, offered))
          = Cardinality(Alike(c, m, n, sent)) + Cardinality(Alike(c, m, n, offered))
        BY <2>3, <2>4, JoinCount
    <2> QED
        BY <2>1, <2>5, <2>6, <2>7
<1>19. /\ Cardinality(o) = Cardinality(sent) + Cardinality(offered)
       /\ Cardinality(sent) \in Nat /\ Cardinality(offered) \in Nat
    <2>1. IsFiniteSet(sent) /\ IsFiniteSet(offered)
        BY <1>1, <1>9, <1>11, <1>13, PartOfInterval
    <2>2. sent \cap offered = {}
        BY <1>1, <1>17
    <2> QED
        BY <1>14, <2>1, <2>2, JoinCount
<1>20. Cardinality(offered) + Cardinality(dropped) = k /\ Cardinality(dropped) \in Nat
    <2>1. offered \cup dropped = b + 1..b + k /\ offered \cap dropped = {}
        <3>1. b + 1..b + passed \subseteq b + 1..b + k
            BY <1>3, <1>4, <1>9
        <3>2. \A n \in b + 1..b + k : n \in b + 1..b + passed \/ (passed < l /\ n = b + passed + 1)
            BY <1>3, <1>4, <1>9
        <3> QED
            BY <1>6, <1>8, <3>1, <3>2
    <2>2. IsFiniteSet(b + 1..b + k) /\ Cardinality(b + 1..b + k) = k
        <3> DEFINE low == b + 1
                   high == b + k
        <3>1. low \in Int /\ high \in Int /\ (low > high <=> k = 0) /\ high - low + 1 = k
            BY <1>9
        <3> HIDE DEF low, high
        <3>2. IsFiniteSet(low..high) /\ Cardinality(low..high) = IF low > high THEN 0 ELSE high - low + 1
            BY <3>1, FS_Interval
        <3>3. IsFiniteSet(low..high) /\ Cardinality(low..high) = k
            BY <3>1, <3>2
        <3> QED
            BY <3>3 DEF low, high
    <2>3. IsFiniteSet(offered) /\ IsFiniteSet(dropped)
        BY <2>1, <2>2, FS_Subset
    <2>4. Cardinality(offered \cup dropped) = Cardinality(offered) + Cardinality(dropped) /\ Cardinality(dropped) \in Nat
        BY <2>1, <2>3, JoinCount
    <2> QED
        BY <2>1, <2>2, <2>4
<1>21. /\ out >= Len(rest) + Cardinality(o)
       /\ (exact /\ dropped = {}) => out = Len(rest) + Cardinality(o)
    <2> DEFINE x == Cardinality(sent)
               y == Cardinality(offered)
               z == Cardinality(dropped)
    <2>1. /\ x \in Nat /\ y \in Nat /\ z \in Nat /\ y + z = k /\ Cardinality(o) = x + y
          /\ Len(rest) = l - k /\ out >= l + x /\ (exact => out = l + x)
        BY <1>1, <1>2, <1>10, <1>19, <1>20
    <2>2. dropped = {} => z = 0
        BY FS_EmptySet
    <2> HIDE DEF x, y, z
    <2>3. out >= Len(rest) + Cardinality(o)
        BY <1>3, <1>9, <2>1
    <2>4. ASSUME exact, dropped = {} PROVE out = Len(rest) + Cardinality(o)
        BY <1>3, <1>9, <2>1, <2>2, <2>4
    <2> QED
        BY <2>3, <2>4
<1> HIDE DEF o
<1>22. \A i \in 1..Len(rest) : rest[i] = (num - Len(rest)) + i
    BY <1>10, <1>11
<1> QED
    BY <1>1, <1>10, <1>11, <1>12, <1>15, <1>16, <1>18, <1>21, <1>22 DEF Account, rest, o, l, offered, refused, dropped

\* An answer uses up the entry of some request of the same address and command.
LEMMA AnswerFound ==
    ASSUME NEW c \in Configuration, NEW m \in Masters, NEW num, NEW buffer, NEW retry, NEW sent, NEW table, NEW out,
           NEW exact \in BOOLEAN, Account(c, m, num, buffer, retry, sent, table, out, exact),
           NEW n \in sent, NEW entry, entry = Min({x \in table : c.packets[m][x] = c.packets[m][n]})
    PROVE  Account(c, m, num, buffer, retry, sent \ {n}, table \ {entry}, out - 1, exact)
<1> DEFINE before == num - Len(buffer)
           o == OutOf(retry, sent)
           rest == OutOf(retry, sent \ {n})
<1>1. /\ num \in 0..Len(c.packets[m]) /\ out \in 0..c.maxOt[m]
      /\ buffer \in Seq(Nat) /\ before \in Nat
      /\ \A i \in 1..Len(buffer) : buffer[i] = before + i
      /\ retry \in 0..before /\ sent \subseteq 1..before
      /\ (retry # 0 => \A x \in sent : x < retry)
      /\ table \subseteq 1..before
      /\ \A x \in 1..Len(c.packets[m]) : Cardinality(Alike(c, m, x, table)) = Cardinality(Alike(c, m, x, o))
      /\ out >= Len(buffer) + Cardinality(o)
      /\ (exact => out = Len(buffer) + Cardinality(o))
    BY DEF Account
<1>2. Len(buffer) \in Nat /\ c.maxOt[m] \in Nat /\ Len(c.packets[m]) \in Nat
    <2>1. c.packets[m] \in Seq([addr : Nat, cmd : Commands]) /\ c.maxOt[m] \in Nat
        BY DEF Configuration
    <2> QED
        BY <1>1, <2>1, LenProperties
<1>3. num \in Nat /\ out \in Nat /\ n \in 1..before
    BY <1>1, <1>2
<1>4. n \in 1..Len(c.packets[m])
    BY <1>1, <1>2, <1>3
<1>5. o \in SUBSET (1..before) /\ n \in o /\ rest = o \ {n}
    <2>1. n # retry
        BY <1>1, <1>3
    <2> QED
        BY <1>1, <2>1 DEF OutOf
<1> HIDE DEF before, o, rest
<1>6. before \in Nat
    BY <1>1
<1>7. ASSUME NEW x, NEW S \in SUBSET (1..before), NEW y
      PROVE  /\ IsFiniteSet(Alike(c, m, x, S)) /\ Cardinality(Alike(c, m, x, S)) \in Nat
             /\ Alike(c, m, x, S \ {y}) = Alike(c, m, x, S) \ {y}
             /\ y \in Alike(c, m, x, S) => Cardinality(Alike(c, m, x, S \ {y})) = Cardinality(Alike(c, m, x, S)) - 1
             /\ y \notin Alike(c, m, x, S) => Cardinality(Alike(c, m, x, S \ {y})) = Cardinality(Alike(c, m, x, S))
    <2>1. Alike(c, m, x, S) \in SUBSET (1..before) /\ Alike(c, m, x, S \ {y}) = Alike(c, m, x, S) \ {y}
        BY DEF Alike
    <2>2. IsFiniteSet(Alike(c, m, x, S)) /\ Cardinality(Alike(c, m, x, S)) \in Nat
        BY <1>6, <2>1, PartOfInterval
    <2>3. Cardinality(Alike(c, m, x, S) \ {y}) = IF y \in Alike(c, m, x, S) THEN Cardinality(Alike(c, m, x, S)) - 1
                                                 ELSE Cardinality(Alike(c, m, x, S))
        BY <2>2, FS_RemoveElement
    <2> QED
        BY <2>1, <2>2, <2>3
<1>8. entry \in table /\ c.packets[m][entry] = c.packets[m][n]
    <2>1. n \in Alike(c, m, n, o)
        BY <1>5 DEF Alike
    <2>2. Alike(c, m, n, table) # {}
        <3>1. SUFFICES ASSUME Alike(c, m, n, table) = {} PROVE FALSE
            OBVIOUS
        <3>2. Cardinality(Alike(c, m, n, o)) = 0
            <4>1. Cardinality(Alike(c, m, n, table)) = 0
                BY <3>1, FS_EmptySet
            <4> QED
                BY <1>1, <1>4, <4>1
        <3>3. IsFiniteSet(Alike(c, m, n, o))
            BY <1>5, <1>7
        <3> QED
            BY <2>1, <3>2, <3>3, FS_EmptySet
    <2>3. Alike(c, m, n, table) \in SUBSET Nat
        <3>1. table \in SUBSET Nat
            BY <1>1, <1>6
        <3> QED
            BY <3>1 DEF Alike
    <2>4. entry = Min(Alike(c, m, n, table))
        BY DEF Alike
    <2>5. entry \in Alike(c, m, n, table)
        BY <2>2, <2>3, <2>4, MinOf
    <2> QED
        BY <2>5 DEF Alike
<1>9. ASSUME NEW x \in 1..Len(c.packets[m])
      PROVE  Cardinality(Alike(c, m, x, table \ {entry})) = Cardinality(Alike(c, m, x, rest))
    <2>1. table \in SUBSET (1..before)
        BY <1>1 DEF before
    <2>2. Cardinality(Alike(c, m, x, table)) = Cardinality(Alike(c, m, x, o))
        BY <1>1 DEF o, before
    <2>3. entry \in Alike(c, m, x, table) <=> n \in Alike(c, m, x, o)
        BY <1>5, <1>8 DEF Alike
    <2>4. CASE entry \in Alike(c, m, x, table)
        <3>1. Cardinality(Alike(c, m, x, table \ {entry})) = Cardinality(Alike(c, m, x, table)) - 1
            <4> DEFINE S == table
                       y == entry
            <4>1. S \in SUBSET (1..before) /\ y \in Alike(c, m, x, S)
                BY <2>1, <2>4
            <4> HIDE DEF S, y
            <4>2. Cardinality(Alike(c, m, x, S \ {y})) = Cardinality(Alike(c, m, x, S)) - 1
                BY <1>7, <4>1
            <4> QED
                BY <4>2 DEF S, y
        <3>2. Cardinality(Alike(c, m, x, o \ {n})) = Cardinality(Alike(c, m, x, o)) - 1
            BY <1>5, <1>7, <2>3, <2>4
        <3> QED
            BY <1>5, <2>2, <3>1, <3>2
    <2>5. CASE entry \notin Alike(c, m, x, table)
        <3>1. Cardinality(Alike(c, m, x, table \ {entry})) = Cardinality(Alike(c, m, x, table))
            BY <1>7, <2>1, <2>5
        <3>2. Cardinality(Alike(c, m, x, o \ {n})) = Cardinality(Alike(c, m, x, o))
            BY <1>5, <1>7, <2>3, <2>5
        <3> QED
            BY <1>5, <2>2, <3>1, <3>2
    <2> QED
        BY <2>4, <2>5
<1>10. Cardinality(rest) = Cardinality(o) - 1 /\ Cardinality(o) \in Nat /\ Cardinality(rest) \in Nat
    <2>1. IsFiniteSet(o) /\ Cardinality(o) \in Nat
        BY <1>5, <1>6, PartOfInterval
    <2>2. IsFiniteSet(o \ {n}) /\ Cardinality(o \ {n}) = Cardinality(o) - 1
        BY <1>5, <2>1, FS_RemoveElement
    <2>3. Cardinality(o \ {n}) \in Nat
        BY <2>2, FS_CardinalityType
    <2> QED
        BY <1>5, <2>1, <2>2, <2>3
<1>11. /\ out - 1 \in 0..c.maxOt[m]
       /\ out - 1 >= Len(buffer) + Cardinality(rest)
       /\ exact => out - 1 = Len(buffer) + Cardinality(rest)
    <2> DEFINE x == Cardinality(rest)
               y == Cardinality(o)
               l == Len(buffer)
    <2>1. x \in Nat /\ y = x + 1 /\ l \in Nat /\ out >= l + y /\ (exact => out = l + y) /\ out \in 0..c.maxOt[m]
        BY <1>1, <1>2, <1>10 DEF o, before
    <2> HIDE DEF x, y, l
    <2>2. out - 1 >= l + x /\ out - 1 \in 0..c.maxOt[m]
        BY <1>2, <1>3, <2>1
    <2>3. ASSUME exact PROVE out - 1 = l + x
        BY <1>3, <2>1, <2>3
    <2> QED
        BY <2>2, <2>3 DEF l, x
<1>12. sent \ {n} \subseteq 1..before /\ table \ {entry} \subseteq 1..before
    BY <1>1 DEF before
<1> QED
    BY <1>1, <1>9, <1>11, <1>12 DEF Account, before, rest

\* A port takes the packet it had refused.
LEMMA Retried ==
    ASSUME NEW c \in Configuration, NEW m \in Masters, NEW num, NEW buffer, NEW retry, NEW sent, NEW table, NEW out,
           NEW exact \in BOOLEAN, Account(c, m, num, buffer, retry, sent, table, out, exact), retry # 0
    PROVE  Account(c, m, num, buffer, 0, sent \cup {retry}, table, out, exact)
<1>1. OutOf(0, sent \cup {retry}) = OutOf(retry, sent)
    <2>1. 0 \notin sent
        BY DEF Account
    <2> QED
        BY <2>1 DEF OutOf
<1>2. num - Len(buffer) \in Nat /\ retry \in 0..num - Len(buffer)
    BY DEF Account
<1>3. 0 \in 0..num - Len(buffer) /\ retry \in 1..num - Len(buffer)
    BY <1>2
<1> QED
    BY <1>1, <1>3 DEF Account

(***************************************************************************)
(* The invariant.                                                          *)
(***************************************************************************)

Typed ==
    /\ conf \in Configs /\ tick \in Nat /\ time \in Nat /\ announced \in Nat
    /\ made \in [Masters -> Nat] /\ ot \in [Masters -> Nat] /\ dueAt \in [Masters -> Nat]
    /\ localBuffer \in [Masters -> Seq(Nat)] /\ retryPkt \in [Masters -> Nat]
    /\ routingTable \in [Masters -> SUBSET Nat] /\ network \in SUBSET (Masters \X Nat)
    /\ updateAt = Never \/ (updateAt \in Nat /\ updateAt >= tick)
    /\ nextAtpTime = Never
    /\ drainState \in {"running", "draining", "drained", "stopped"}
    /\ exited \in {"no", "one", "suppressed", "done"}

SentBy(net, m) == {n \in Nat : <<m, n>> \in net}

\* Nothing was suppressed.
Exact(c, end) == ~c.outOfRange /\ end \in {"no", "done"}

Accounts ==
    \A m \in Masters :
        Account(conf, m, made[m], localBuffer[m], retryPkt[m], SentBy(network, m), routingTable[m], ot[m],
                Exact(conf, exited))

AccountInv == Typed /\ Accounts

LEMMA Sane ==
    ASSUME Typed, NEW m \in Masters
    PROVE  /\ conf \in Configuration
           /\ conf.packets[m] \in Seq([addr : Nat, cmd : Commands]) /\ Total(m) \in Nat
           /\ conf.burst[m] \in Nat \ {0} /\ conf.period[m] \in Nat \ {0} /\ conf.maxOt[m] \in Nat \ {0}
           /\ conf.num \in Nat \ {0} /\ conf.den \in Nat \ {0}
<1>1. conf \in Configuration
    BY ConfigsAssumption DEF Typed
<1>2. conf.packets[m] \in Seq([addr : Nat, cmd : Commands])
    BY <1>1 DEF Configuration
<1>3. Total(m) \in Nat
    BY <1>2, LenProperties DEF Total
<1> QED
    BY <1>1, <1>2, <1>3 DEF Configuration

LEMMA ClockIs ==
    ASSUME Typed
    PROVE  AtpTime \in Nat /\ AtpTime >= (tick * conf.num) \div conf.den /\ conf.num \in Nat \ {0} /\ conf.den \in Nat \ {0}
<1>1. conf \in Configuration /\ tick \in Nat /\ time \in Nat
    BY ConfigsAssumption DEF Typed
<1>2. conf.num \in Nat \ {0} /\ conf.den \in Nat \ {0}
    BY <1>1 DEF Configuration
<1> DEFINE a == tick * conf.num
           d == a \div conf.den
<1>3. a \in Nat
    BY <1>1, <1>2
<1>4. d \in Nat
    <2> HIDE DEF a
    <2> QED
        BY <1>2, <1>3, Division
<1>5. AtpTime = Larger(d, time)
    BY DEF AtpTime
<1> HIDE DEF d
<1>6. AtpTime \in Nat /\ AtpTime >= d
    BY <1>1, <1>4, <1>5 DEF Larger
<1> QED
    BY <1>2, <1>6 DEF d

LEMMA InitInv == AdapterInit => AccountInv
<1> SUFFICES ASSUME AdapterInit PROVE AccountInv
    OBVIOUS
<1>1. Typed
    BY DEF AdapterInit, Typed
<1>2. ASSUME NEW m \in Masters
      PROVE  Account(conf, m, made[m], localBuffer[m], retryPkt[m], SentBy(network, m), routingTable[m], ot[m],
                     Exact(conf, exited))
    <2>1. /\ made[m] = 0 /\ ot[m] = 0 /\ localBuffer[m] = <<>> /\ retryPkt[m] = 0 /\ routingTable[m] = {}
          /\ SentBy(network, m) = {}
        BY DEF AdapterInit, SentBy
    <2>2. Total(m) \in Nat /\ conf.maxOt[m] \in Nat
        BY <1>1, Sane
    <2>3. OutOf(0, {}) = {} /\ \A n : Alike(conf, m, n, {}) = {}
        BY DEF OutOf, Alike
    <2>4. Len(<<>>) = 0 /\ <<>> \in Seq(Nat) /\ Cardinality({}) = 0 /\ 1..0 = {}
        BY FS_EmptySet
    <2> DEFINE none == <<>>
               exact == Exact(conf, exited)
    <2>5. 0 \in 0..Len(conf.packets[m]) /\ 0 \in 0..conf.maxOt[m]
        BY <2>2 DEF Total
    <2>6. Len(none) = 0 /\ none \in Seq(Nat)
        OBVIOUS
    <2> HIDE DEF none, exact
    <2>8. 0 - Len(none) = 0
        BY <2>6
    <2>7. Account(conf, m, 0, none, 0, {}, {}, 0, exact)
        <3>1. \A i \in 1..Len(none) : none[i] = 0 + i
            BY <2>4, <2>6
        <3>2. 0 >= Len(none) + Cardinality(OutOf(0, {})) /\ 0 = Len(none) + Cardinality(OutOf(0, {}))
            <4>1. Cardinality(OutOf(0, {})) = 0
                BY <2>3, FS_EmptySet
            <4> QED
                BY <2>6, <4>1
        <3>3. \A n : Cardinality(Alike(conf, m, n, {})) = Cardinality(Alike(conf, m, n, OutOf(0, {})))
            BY <2>3
        <3> QED
            BY <2>5, <2>6, <2>8, <3>1, <3>2, <3>3 DEF Account
    <2> QED
        BY <2>1, <2>7 DEF none, exact
<1> QED
    BY <1>1, <1>2 DEF AccountInv, Accounts

\* What the engine sends keeps within the packets and the outstanding transactions.
LEMMA SendsWithin ==
    ASSUME AccountInv, NEW m \in Masters, NEW at \in Nat
    PROVE  /\ Sends(m, at) \in Nat
           /\ made[m] + Sends(m, at) <= Total(m) /\ ot[m] + Sends(m, at) <= conf.maxOt[m]
           /\ Sends(m, at) = 0 => dueAt[m] > at \/ made[m] = Total(m) \/ ot[m] = conf.maxOt[m]
<1>1. made[m] \in 0..Total(m) /\ ot[m] \in 0..conf.maxOt[m]
    BY DEF AccountInv, Accounts, Account, Total
<1>2. Total(m) \in Nat /\ conf.maxOt[m] \in Nat /\ conf.burst[m] \in Nat \ {0} /\ dueAt[m] \in Nat
    <2>1. Typed
        BY DEF AccountInv
    <2> QED
        BY <2>1, Sane DEF Typed
<1> DEFINE left == Smaller(Total(m) - made[m], conf.maxOt[m] - ot[m])
           most == Smaller(conf.burst[m], left)
<1>3. left \in Nat /\ left <= Total(m) - made[m] /\ left <= conf.maxOt[m] - ot[m]
      /\ (left = 0 => made[m] = Total(m) \/ ot[m] = conf.maxOt[m])
    BY <1>1, <1>2 DEF Smaller
<1>4. most \in Nat /\ most <= left /\ (most = 0 => left = 0)
    <2> HIDE DEF left
    <2> QED
        BY <1>2, <1>3 DEF Smaller
<1>5. Sends(m, at) = IF dueAt[m] > at THEN 0 ELSE most
    BY DEF Sends
<1> HIDE DEF left, most
<1> QED
    BY <1>1, <1>2, <1>3, <1>4, <1>5

\* The engine goes on beyond the present, or has nothing to announce.
LEMMA EngineGoesOn ==
    ASSUME AccountInv, NEW at \in Nat, EngineSends(at)
    PROVE  /\ made' \in [Masters -> Nat] /\ ot' \in [Masters -> Nat] /\ dueAt' \in [Masters -> Nat]
           /\ time' \in Nat /\ announced' \in Nat
           /\ announced' # 0 => announced' > at
           /\ announced' = 0 => \A m \in Masters : made'[m] >= Total(m) \/ ot'[m] >= conf.maxOt[m]
<1>1. Typed /\ Accounts
    BY DEF AccountInv
<1>2. /\ time' = at
      /\ made' = [m \in Masters |-> made[m] + Sends(m, at)]
      /\ ot' = [m \in Masters |-> ot[m] + Sends(m, at)]
      /\ dueAt' = [m \in Masters |-> IF Sends(m, at) > 0 THEN at + conf.period[m] ELSE dueAt[m]]
    BY DEF EngineSends
<1>3. \A m \in Masters : Sends(m, at) \in Nat /\ made[m] \in Nat /\ ot[m] \in Nat /\ dueAt[m] \in Nat
                         /\ conf.period[m] \in Nat \ {0}
    <2>1. TAKE m \in Masters
    <2> QED
        BY <1>1, SendsWithin, Sane DEF Typed
<1>4. made' \in [Masters -> Nat] /\ ot' \in [Masters -> Nat] /\ dueAt' \in [Masters -> Nat]
    <2>1. \A m \in Masters : /\ made[m] + Sends(m, at) \in Nat /\ ot[m] + Sends(m, at) \in Nat
                             /\ at + conf.period[m] \in Nat
        BY <1>3
    <2> QED
        BY <1>2, <1>3, <2>1
<1> DEFINE going == {m \in Masters : made'[m] < Total(m) /\ ot'[m] < conf.maxOt[m]}
           next == {dueAt'[m] : m \in going}
<1>5. announced' = IF next = {} THEN 0 ELSE Min(next)
    BY DEF EngineSends
<1>6. \A m \in going : dueAt'[m] \in Nat /\ dueAt'[m] > at
    <2>1. SUFFICES ASSUME NEW m \in going PROVE dueAt'[m] \in Nat /\ dueAt'[m] > at
        OBVIOUS
    <2>2. m \in Masters /\ made'[m] = made[m] + Sends(m, at) /\ ot'[m] = ot[m] + Sends(m, at)
          /\ dueAt'[m] = IF Sends(m, at) > 0 THEN at + conf.period[m] ELSE dueAt[m]
        BY <1>2, <2>1
    <2>3. Total(m) \in Nat /\ conf.maxOt[m] \in Nat
        BY <1>1, <2>2, Sane
    <2>4. made'[m] < Total(m) /\ ot'[m] < conf.maxOt[m]
        BY <2>1
    <2>5. Sends(m, at) = 0 => dueAt[m] > at \/ made[m] = Total(m) \/ ot[m] = conf.maxOt[m]
        BY <2>2, SendsWithin
    <2>6. CASE Sends(m, at) = 0
        BY <1>3, <2>2, <2>3, <2>4, <2>5, <2>6
    <2>7. CASE Sends(m, at) # 0
        BY <1>3, <2>2, <2>7
    <2> QED
        BY <2>6, <2>7
<1>7. next \in SUBSET Nat /\ \A x \in next : x > at
    BY <1>6
<1>8. next # {} => Min(next) \in next
    <2> HIDE DEF next
    <2> QED
        BY <1>7, MinOf
<1>9. announced' \in Nat /\ (announced' # 0 => announced' > at) /\ (announced' = 0 => next = {})
    <2> HIDE DEF next
    <2> QED
        BY <1>5, <1>7, <1>8
<1>10. next = {} => \A m \in Masters : made'[m] >= Total(m) \/ ot'[m] >= conf.maxOt[m]
    <2>1. SUFFICES ASSUME next = {}, NEW m \in Masters PROVE made'[m] >= Total(m) \/ ot'[m] >= conf.maxOt[m]
        OBVIOUS
    <2>2. m \notin going
        BY <2>1
    <2>3. Total(m) \in Nat /\ conf.maxOt[m] \in Nat /\ made'[m] \in Nat /\ ot'[m] \in Nat
        BY <1>1, <1>4, Sane
    <2> QED
        BY <2>2, <2>3
<1> HIDE DEF next
<1> QED
    BY <1>2, <1>4, <1>9, <1>10

(***************************************************************************)
(* The steps.                                                              *)
(***************************************************************************)

LEMMA Inexact ==
    ASSUME NEW c, NEW m, NEW num, NEW buffer, NEW retry, NEW sent, NEW table, NEW out, NEW exact \in BOOLEAN,
           NEW less \in BOOLEAN, Account(c, m, num, buffer, retry, sent, table, out, exact), less => exact
    PROVE  Account(c, m, num, buffer, retry, sent, table, out, less)
BY DEF Account

\* What is left to its port, and what the port has refused.
BufferAfter(m, queue, passed) == IF PortBusy(m) THEN queue ELSE SubSeq(queue, passed + 2, Len(queue))
RetryAfter(m, queue, passed) ==
    IF ~PortBusy(m) /\ passed < Len(queue) THEN queue[passed + 1] ELSE retryPkt[m]

ServedAccount(m, at, passed, exact) ==
    Account(conf, m, made[m] + Sends(m, at), BufferAfter(m, Queue(m, at), passed), RetryAfter(m, Queue(m, at), passed),
            SentBy(network, m) \cup (Offered(m, Queue(m, at), passed) \ {RetryAfter(m, Queue(m, at), passed)}),
            routingTable[m] \cup Offered(m, Queue(m, at), passed), ot[m] + Sends(m, at), exact)

\* What an update does for one master.
LEMMA ServedOne ==
    ASSUME AccountInv, NEW m \in Masters, NEW at \in Nat, NEW passed \in 0..Len(Queue(m, at)),
           Serves(m, Queue(m, at), passed), NEW exact \in BOOLEAN,
           exact => Exact(conf, exited) /\ Suppressed(m, Queue(m, at), passed) = {}
    PROVE  ServedAccount(m, at, passed, exact) /\ Offered(m, Queue(m, at), passed) \subseteq Nat
<1> DEFINE q == Queue(m, at)
           retry == RetryAfter(m, q, passed)
           buffer == BufferAfter(m, q, passed)
           offered == Offered(m, q, passed)
           n == made[m] + Sends(m, at)
           o == ot[m] + Sends(m, at)
           sent == SentBy(network, m)
           table == routingTable[m]
           before == Exact(conf, exited)
<1>1. Account(conf, m, made[m], localBuffer[m], retryPkt[m], sent, table, ot[m], before) /\ conf \in Configuration
    BY Sane DEF AccountInv, Accounts
<1>2. /\ Sends(m, at) \in Nat
      /\ made[m] + Sends(m, at) <= Len(conf.packets[m]) /\ ot[m] + Sends(m, at) <= conf.maxOt[m]
    BY SendsWithin DEF Total
<1>3. before \in BOOLEAN
    BY DEF Exact
<1> HIDE DEF before, sent, table
<1>4. Account(conf, m, n, q, retryPkt[m], sent, table, o, before)
    BY <1>1, <1>2, <1>3, Queued DEF Queue
<1> HIDE DEF n, o
<1>5. q \in Seq(Nat)
    BY <1>4 DEF Account
<1>6. CASE PortBusy(m)
    <2>1. offered = {} /\ retry = retryPkt[m] /\ buffer = q
        BY <1>6 DEF Offered, RetryAfter, BufferAfter
    <2>2. sent \cup (offered \ {retry}) = sent /\ table \cup offered = table
        BY <2>1
    <2>3. exact => before
        BY DEF before
    <2>4. Account(conf, m, n, q, retryPkt[m], sent, table, o, exact)
        BY <1>3, <1>4, <2>3, Inexact
    <2> QED
        BY <2>1, <2>2, <2>4 DEF n, o, sent, table, ServedAccount
<1>7. CASE ~PortBusy(m)
    <2> DEFINE here == {x \in Nat : InMemory(m, x)}
               l == Len(q)
               dropped == Dropped(q, passed, here)
    <2>1. retryPkt[m] = 0
        BY <1>7 DEF PortBusy
    <2>2. l \in Nat /\ passed \in 0..l
        BY <1>5, LenProperties
    <2>3. \A k \in 0..l : ToSet(SubSeq(q, 1, k)) \subseteq Nat
        <3>1. TAKE k \in 0..l
        <3>2. SubSeq(q, 1, k) \in Seq(Nat)
            BY <1>5, <2>2
        <3> QED
            BY <3>2 DEF ToSet
    <2>4. Smaller(passed + 1, l) \in 0..l
        BY <2>2 DEF Smaller
    <2>5. passed < l => q[passed + 1] \in here
        <3>1. SUFFICES ASSUME passed < l PROVE q[passed + 1] \in here
            OBVIOUS
        <3>2. InMemory(m, q[passed + 1])
            BY <1>7, <3>1 DEF Serves
        <3>3. passed + 1 \in 1..Len(q)
            BY <2>2, <3>1
        <3>4. q[passed + 1] \in Nat
            BY <1>5, <3>3, ElementOfSeq
        <3> QED
            BY <3>2, <3>4
    <2>6. offered = Taken(q, passed, here)
        BY <1>7, <2>3, <2>4 DEF Offered, Taken
    <2>7. dropped = Suppressed(m, q, passed)
        BY <2>2, <2>3 DEF Suppressed, Dropped
    <2>8. retry = Refused(q, passed) /\ buffer = SubSeq(q, passed + 2, Len(q))
        BY <1>7, <2>1 DEF Refused, RetryAfter, BufferAfter
    <2>9. Account(conf, m, n, q, 0, sent, table, o, before)
        BY <1>4, <2>1
    <2> HIDE DEF q, here, dropped
    <2>10. Account(conf, m, n, buffer, retry, sent \cup (offered \ {retry}), table \cup offered, o,
                   before /\ dropped = {})
        <3>1. conf \in Configuration /\ passed \in 0..Len(q) /\ (passed < Len(q) => q[passed + 1] \in here)
            BY <1>1, <2>2, <2>5
        <3>2. Account(conf, m, n, SubSeq(q, passed + 2, Len(q)), Refused(q, passed),
                      sent \cup (Taken(q, passed, here) \ {Refused(q, passed)}),
                      table \cup Taken(q, passed, here), o, before /\ Dropped(q, passed, here) = {})
            BY <1>3, <2>9, <3>1, RoundServed
        <3> QED
            BY <2>6, <2>8, <3>2 DEF dropped
    <2>11. exact => before /\ dropped = {}
        BY <2>7 DEF before, q
    <2>12. Account(conf, m, n, buffer, retry, sent \cup (offered \ {retry}), table \cup offered, o, exact)
        <3> DEFINE e == before /\ dropped = {}
        <3>1. e \in BOOLEAN
            OBVIOUS
        <3> HIDE DEF e
        <3>2. Account(conf, m, n, buffer, retry, sent \cup (offered \ {retry}), table \cup offered, o, e)
            BY <2>10 DEF e
        <3>3. exact => e
            BY <2>11 DEF e
        <3> QED
            BY <3>1, <3>2, <3>3, Inexact
    <2>13. offered \subseteq Nat
        BY <2>3, <2>4, <2>6 DEF Taken, here
    <2> QED
        BY <2>12, <2>13 DEF n, o, sent, table, q, ServedAccount
<1> QED
    BY <1>6, <1>7

LEMMA UpdateInv ==
    ASSUME AccountInv, Update
    PROVE  AccountInv' /\ DoneIsDone'
<1>1. Typed /\ Accounts
    BY DEF AccountInv
<1>2. conf' = conf /\ tick' = tick /\ drainState' = drainState /\ exited = "no"
    BY DEF Update, Running
<1> DEFINE at == IF nextAtpTime = Never THEN AtpTime ELSE nextAtpTime
           queue == [m \in Masters |-> Queue(m, at)]
           most == Max({Len(queue[m]) : m \in Masters})
<1>3. at = AtpTime /\ at \in Nat /\ at >= (tick * conf.num) \div conf.den
      /\ conf.num \in Nat \ {0} /\ conf.den \in Nat \ {0}
    BY <1>1, ClockIs DEF Typed
<1> HIDE DEF at
<1>4. PICK passed \in [Masters -> 0..most] :
          /\ \A m \in Masters : passed[m] <= Len(queue[m]) /\ Serves(m, queue[m], passed[m])
          /\ EngineSends(at)
          /\ localBuffer' = [m \in Masters |->
                 IF PortBusy(m) THEN queue[m] ELSE SubSeq(queue[m], passed[m] + 2, Len(queue[m]))]
          /\ retryPkt' = [m \in Masters |-> IF ~PortBusy(m) /\ passed[m] < Len(queue[m])
                                            THEN queue[m][passed[m] + 1] ELSE retryPkt[m]]
          /\ routingTable' = [m \in Masters |-> routingTable[m] \cup Offered(m, queue[m], passed[m])]
          /\ network' = network \cup
                 UNION {{<<m, n>> : n \in Offered(m, queue[m], passed[m]) \ {retryPkt'[m]}} : m \in Masters}
          /\ exited' = Ends(UNION {Suppressed(m, queue[m], passed[m]) : m \in Masters})
          /\ updateAt' = IF announced' = 0 THEN Never ELSE SimTicks(announced')
          /\ nextAtpTime' = Never
    BY DEF Update, at
<1>5. \A m \in Masters : queue[m] = Queue(m, at)
    OBVIOUS
<1> HIDE DEF queue, most
<1>6. /\ made' \in [Masters -> Nat] /\ ot' \in [Masters -> Nat] /\ dueAt' \in [Masters -> Nat]
      /\ time' \in Nat /\ announced' \in Nat
      /\ announced' # 0 => announced' > at
      /\ announced' = 0 => \A m \in Masters : made'[m] >= Total(m) \/ ot'[m] >= conf.maxOt[m]
    BY <1>3, <1>4, EngineGoesOn
<1>7. \A m \in Masters : made'[m] = made[m] + Sends(m, at) /\ ot'[m] = ot[m] + Sends(m, at)
    BY <1>4 DEF EngineSends
<1> DEFINE offered(m) == Offered(m, Queue(m, at), passed[m])
           suppressed == UNION {Suppressed(m, queue[m], passed[m]) : m \in Masters}
<1>8. exited' \in {"no", "one", "suppressed", "done"}
      /\ (exited' \in {"no", "done"} => suppressed = {} \/ conf.outOfRange)
      /\ (exited' = "done" => NothingLeft)
    BY <1>4 DEF Ends
<1>9. Exact(conf, exited') => Exact(conf, exited) /\ \A m \in Masters : Suppressed(m, Queue(m, at), passed[m]) = {}
    BY <1>2, <1>5, <1>8 DEF Exact
<1> HIDE DEF suppressed
<1>10. ASSUME NEW m \in Masters
       PROVE  /\ Account(conf, m, made'[m], localBuffer'[m], retryPkt'[m],
                         SentBy(network, m) \cup (offered(m) \ {retryPkt'[m]}), routingTable'[m], ot'[m],
                         Exact(conf, exited'))
              /\ offered(m) \subseteq Nat
    <2> DEFINE q == Queue(m, at)
               exact == Exact(conf, exited')
    <2>1. passed[m] \in 0..Len(q) /\ Serves(m, q, passed[m])
        <3>1. passed[m] \in 0..most /\ passed[m] <= Len(q) /\ Serves(m, q, passed[m])
            BY <1>4, <1>5
        <3> QED
            BY <3>1
    <2>2. /\ localBuffer'[m] = IF PortBusy(m) THEN q ELSE SubSeq(q, passed[m] + 2, Len(q))
          /\ retryPkt'[m] = IF ~PortBusy(m) /\ passed[m] < Len(q) THEN q[passed[m] + 1] ELSE retryPkt[m]
          /\ routingTable'[m] = routingTable[m] \cup offered(m)
        BY <1>4, <1>5
    <2>3. exact \in BOOLEAN /\ (exact => Exact(conf, exited) /\ Suppressed(m, q, passed[m]) = {})
        BY <1>9 DEF Exact
    <2> DEFINE o == Offered(m, q, passed[m])
    <2>4. offered(m) = o
        OBVIOUS
    <2> HIDE DEF exact, o
    <2>5. /\ Account(conf, m, made[m] + Sends(m, at), localBuffer'[m], retryPkt'[m],
                     SentBy(network, m) \cup (o \ {retryPkt'[m]}),
                     routingTable[m] \cup o, ot[m] + Sends(m, at), exact)
          /\ o \subseteq Nat
        <3>1. PICK p : p = passed[m]
            OBVIOUS
        <3>2. ServedAccount(m, at, p, exact) /\ Offered(m, Queue(m, at), p) \subseteq Nat
            <4>1. p \in 0..Len(Queue(m, at)) /\ Serves(m, Queue(m, at), p)
                BY <2>1, <3>1
            <4>2. exact \in BOOLEAN /\ (exact => Exact(conf, exited) /\ Suppressed(m, Queue(m, at), p) = {})
                BY <2>3, <3>1
            <4> HIDE DEF q
            <4> QED
                BY <1>3, <4>1, <4>2, ServedOne
        <3>3. BufferAfter(m, q, p) = localBuffer'[m] /\ RetryAfter(m, q, p) = retryPkt'[m]
            BY <2>2, <3>1 DEF BufferAfter, RetryAfter
        <3>4. o = Offered(m, q, p)
            BY <3>1 DEF o
        <3> HIDE DEF q
        <3> QED
            BY <3>2, <3>3, <3>4 DEF ServedAccount, q
    <2> HIDE DEF q
    <2> QED
        BY <1>7, <2>2, <2>4, <2>5 DEF exact
<1>11. network' = network \cup UNION {{<<m, n>> : n \in offered(m) \ {retryPkt'[m]}} : m \in Masters}
    BY <1>4, <1>5
<1>12. network' \in SUBSET (Masters \X Nat)
    <2>1. \A m \in Masters : \A n \in offered(m) : <<m, n>> \in Masters \X Nat
        BY <1>10
    <2>2. network \in SUBSET (Masters \X Nat)
        BY <1>1 DEF Typed
    <2> HIDE DEF offered
    <2> QED
        BY <1>11, <2>1, <2>2
<1>13. ASSUME NEW m \in Masters
       PROVE  SentBy(network', m) = SentBy(network, m) \cup (offered(m) \ {retryPkt'[m]})
    <2>1. \A x : <<m, x>> \in network' <=> <<m, x>> \in network \/ x \in offered(m) \ {retryPkt'[m]}
        BY <1>11, <1>13
    <2> QED
        BY <1>10, <2>1 DEF SentBy
<1> HIDE DEF offered
<1>14. ASSUME NEW m \in Masters
       PROVE  Account(conf, m, made'[m], localBuffer'[m], retryPkt'[m], SentBy(network', m), routingTable'[m], ot'[m],
                      Exact(conf, exited'))
    BY <1>10, <1>13
<1>15. Accounts'
    BY <1>2, <1>14 DEF Accounts
<1>16. /\ localBuffer' \in [Masters -> Seq(Nat)] /\ retryPkt' \in [Masters -> Nat]
       /\ routingTable' \in [Masters -> SUBSET Nat]
    <2>1. ASSUME NEW m \in Masters
          PROVE  localBuffer'[m] \in Seq(Nat) /\ retryPkt'[m] \in Nat /\ routingTable'[m] \in SUBSET Nat
        BY <1>14 DEF Account
    <2>2. /\ DOMAIN localBuffer' = Masters /\ localBuffer' = [m \in Masters |-> localBuffer'[m]]
          /\ retryPkt' = [m \in Masters |-> retryPkt'[m]]
          /\ routingTable' = [m \in Masters |-> routingTable'[m]]
        BY <1>4
    <2> QED
        BY <2>1, <2>2
<1>17. updateAt' = Never \/ (updateAt' \in Nat /\ updateAt' >= tick')
    <2>1. SUFFICES ASSUME announced' # 0
                   PROVE  SimTicks(announced') \in Nat /\ SimTicks(announced') >= tick
        BY <1>2, <1>4
    <2>2. tick \in Nat
        BY <1>1 DEF Typed
    <2> QED
        BY <1>3, <1>6, <2>1, <2>2, NotBefore DEF SimTicks
<1>18. Typed'
    BY <1>1, <1>2, <1>4, <1>6, <1>8, <1>12, <1>16, <1>17 DEF Typed
<1>19. ASSUME exited' = "done" PROVE DoneIsDone'
    <2>1. /\ \A m \in Masters : localBuffer'[m] = <<>> /\ retryPkt'[m] = 0 /\ ot'[m] = 0
          /\ announced' = 0
        BY <1>8, <1>19 DEF NothingLeft
    <2>2. ASSUME NEW m \in Masters
          PROVE  made'[m] = Total(m) /\ SentBy(network', m) = {} /\ routingTable'[m] = {}
        <3>1. Account(conf, m, made'[m], <<>>, 0, SentBy(network', m), routingTable'[m], 0, Exact(conf, exited'))
            BY <1>14, <2>1, <2>2
        <3>2. Total(m) \in Nat /\ conf.maxOt[m] \in Nat \ {0} /\ conf \in Configuration
            BY <1>1, Sane
        <3>3. made'[m] = Total(m)
            <4>1. made'[m] \in 0..Total(m) /\ (made'[m] >= Total(m) \/ 0 >= conf.maxOt[m])
                BY <1>6, <2>1, <3>1 DEF Account, Total
            <4> QED
                BY <3>2, <4>1
        <3> DEFINE s == SentBy(network', m)
        <3>4. OutOf(0, s) = s
            BY DEF OutOf
        <3>5. /\ s \subseteq 1..made'[m] - Len(<<>>) /\ 0 >= Len(<<>>) + Cardinality(s)
              /\ routingTable'[m] \subseteq 1..made'[m] - Len(<<>>)
              /\ \A n \in 1..Total(m) : Cardinality(Alike(conf, m, n, routingTable'[m])) = Cardinality(Alike(conf, m, n, s))
            BY <3>1, <3>4 DEF Account, Total
        <3>6. Len(<<>>) = 0
            OBVIOUS
        <3> HIDE DEF s
        <3>7. s \in SUBSET (1..Total(m)) /\ routingTable'[m] \in SUBSET (1..Total(m))
            BY <3>2, <3>3, <3>5, <3>6
        <3>8. s = {}
            <4>1. IsFiniteSet(s) /\ Cardinality(s) \in Nat
                BY <3>2, <3>7, PartOfInterval
            <4>2. Cardinality(s) = 0
                BY <3>5, <3>6, <4>1
            <4> QED
                BY <4>1, <4>2, FS_EmptySet
        <3>9. routingTable'[m] = {}
            <4>1. SUFFICES ASSUME NEW n \in routingTable'[m] PROVE FALSE
                OBVIOUS
            <4>2. n \in 1..Total(m) /\ n \in Alike(conf, m, n, routingTable'[m])
                BY <3>7, <4>1 DEF Alike
            <4>3. Alike(conf, m, n, s) = {}
                BY <3>8 DEF Alike
            <4>4. Cardinality(Alike(conf, m, n, routingTable'[m])) = 0
                <5>1. Cardinality(Alike(conf, m, n, s)) = 0
                    BY <4>3, FS_EmptySet
                <5> QED
                    BY <3>5, <4>2, <5>1
            <4>5. Alike(conf, m, n, routingTable'[m]) \in SUBSET (1..Total(m))
                BY <3>7 DEF Alike
            <4>6. IsFiniteSet(Alike(conf, m, n, routingTable'[m]))
                BY <3>2, <4>5, PartOfInterval
            <4> QED
                BY <4>2, <4>4, <4>6, FS_EmptySet
        <3> QED
            BY <3>3, <3>8, <3>9 DEF s
    <2>3. network' = {}
        <3>1. SUFFICES ASSUME NEW x \in network' PROVE FALSE
            OBVIOUS
        <3>2. x \in Masters \X Nat
            BY <1>12, <3>1
        <3>3. PICK m \in Masters, n \in Nat : x = <<m, n>>
            BY <3>2
        <3>4. n \in SentBy(network', m)
            BY <3>1, <3>3 DEF SentBy
        <3> QED
            BY <2>2, <3>3, <3>4
    <2> QED
        BY <1>2, <2>1, <2>2, <2>3 DEF DoneIsDone, PortBusy, Total
<1>20. exited' # "done" => DoneIsDone'
    BY DEF DoneIsDone
<1> QED
    BY <1>15, <1>18, <1>19, <1>20 DEF AccountInv

LEMMA ScheduledFor ==
    ASSUME Typed, ScheduleUpdate(tick)
    PROVE  (updateAt' = Never \/ (updateAt' \in Nat /\ updateAt' >= tick)) /\ nextAtpTime' = Never
BY DEF Typed, ScheduleUpdate

LEMMA AnswerInv ==
    ASSUME AccountInv, NEW m \in Masters, NEW n \in 1..Total(m), Answer(m, n)
    PROVE  AccountInv' /\ DoneIsDone'
<1>1. Typed /\ Accounts /\ Running
    BY DEF AccountInv, Answer
<1>2. /\ UNCHANGED <<conf, tick, made, dueAt, announced, localBuffer, retryPkt, drainState, exited>>
      /\ exited = "no" /\ time' = AtpTime /\ <<m, n>> \in network /\ network' = network \ {<<m, n>>}
      /\ ScheduleUpdate(tick)
    BY <1>1 DEF Answer, Running
<1> DEFINE entry == Min({x \in routingTable[m] : conf.packets[m][x] = conf.packets[m][n]})
           exact == Exact(conf, exited)
<1>3. routingTable' = [routingTable EXCEPT ![m] = @ \ {entry}] /\ ot' = [ot EXCEPT ![m] = @ - 1]
    BY DEF Answer, Matches, Packet
<1>4. ASSUME NEW k \in Masters
      PROVE  Account(conf, k, made[k], localBuffer[k], retryPkt[k], SentBy(network', k), routingTable'[k], ot'[k], exact)
    <2>1. Account(conf, k, made[k], localBuffer[k], retryPkt[k], SentBy(network, k), routingTable[k], ot[k], exact)
        BY <1>1 DEF Accounts
    <2>2. CASE k = m
        <3>1. n \in Nat
            BY <1>1, <1>2 DEF Typed
        <3>2. n \in SentBy(network, m) /\ SentBy(network', m) = SentBy(network, m) \ {n}
            BY <1>2, <3>1 DEF SentBy
        <3>3. routingTable'[m] = routingTable[m] \ {entry} /\ ot'[m] = ot[m] - 1
            BY <1>1, <1>3 DEF Typed
        <3>4. conf \in Configuration /\ exact \in BOOLEAN
            BY <1>1, Sane DEF Exact
        <3> HIDE DEF exact
        <3>5. \E e : e = entry
            OBVIOUS
        <3>6. PICK e : e = Min({x \in routingTable[m] : conf.packets[m][x] = conf.packets[m][n]})
            BY <3>5
        <3>7. Account(conf, m, made[m], localBuffer[m], retryPkt[m], SentBy(network, m) \ {n}, routingTable[m] \ {e},
                      ot[m] - 1, exact)
            BY <2>1, <2>2, <3>2, <3>4, <3>6, AnswerFound
        <3> QED
            BY <2>2, <3>2, <3>3, <3>6, <3>7
    <2>3. CASE k # m
        <3>1. SentBy(network', k) = SentBy(network, k)
            BY <1>2, <2>3 DEF SentBy
        <3>2. routingTable'[k] = routingTable[k] /\ ot'[k] = ot[k]
            BY <1>1, <1>3, <2>3 DEF Typed
        <3> QED
            BY <2>1, <3>1, <3>2
    <2> QED
        BY <2>2, <2>3
<1>5. Accounts'
    BY <1>2, <1>4 DEF Accounts
<1>6. Typed'
    <2>1. ot' \in [Masters -> Nat] /\ routingTable' \in [Masters -> SUBSET Nat]
        <3>1. \A k \in Masters : ot'[k] \in Nat
            <4>1. TAKE k \in Masters
            <4>2. conf.maxOt[k] \in Nat /\ ot'[k] \in 0..conf.maxOt[k]
                BY <1>1, <1>4, Sane DEF Account
            <4> QED
                BY <4>2
        <3>2. ot' = [k \in Masters |-> ot'[k]]
            BY <1>1, <1>3 DEF Typed
        <3> HIDE DEF entry
        <3> QED
            BY <1>1, <1>3, <3>1, <3>2 DEF Typed
    <2>2. network' \in SUBSET (Masters \X Nat)
        BY <1>1, <1>2 DEF Typed
    <2>3. time' \in Nat
        BY <1>1, <1>2, ClockIs
    <2>4. (updateAt' = Never \/ (updateAt' \in Nat /\ updateAt' >= tick)) /\ nextAtpTime' = Never
        BY <1>1, <1>2, ScheduledFor
    <2> QED
        BY <1>1, <1>2, <2>1, <2>2, <2>3, <2>4 DEF Typed
<1>7. DoneIsDone'
    BY <1>2 DEF DoneIsDone
<1> QED
    BY <1>5, <1>6, <1>7 DEF AccountInv

LEMMA RetryInv ==
    ASSUME AccountInv, NEW m \in Masters, Retry(m)
    PROVE  AccountInv' /\ DoneIsDone'
<1>1. Typed /\ Accounts /\ Running
    BY DEF AccountInv, Retry
<1>2. /\ UNCHANGED <<conf, tick, engine, time, announced, localBuffer, routingTable, exited>>
      /\ exited = "no" /\ retryPkt[m] # 0 /\ network' = network \cup {<<m, retryPkt[m]>>}
      /\ retryPkt' = [retryPkt EXCEPT ![m] = 0] /\ RetryDone
    BY <1>1 DEF Retry, Running
<1>3. made' = made /\ ot' = ot /\ dueAt' = dueAt
    BY <1>2 DEF engine
<1> DEFINE exact == Exact(conf, exited)
<1>4. ASSUME NEW k \in Masters
      PROVE  Account(conf, k, made[k], localBuffer[k], retryPkt'[k], SentBy(network', k), routingTable[k], ot[k], exact)
    <2>1. Account(conf, k, made[k], localBuffer[k], retryPkt[k], SentBy(network, k), routingTable[k], ot[k], exact)
        BY <1>1 DEF Accounts
    <2>2. CASE k = m
        <3>1. retryPkt[m] \in Nat /\ retryPkt'[m] = 0
            BY <1>1, <1>2 DEF Typed
        <3>2. SentBy(network', m) = SentBy(network, m) \cup {retryPkt[m]}
            BY <1>2, <3>1 DEF SentBy
        <3>3. conf \in Configuration /\ exact \in BOOLEAN
            BY <1>1, Sane DEF Exact
        <3> HIDE DEF exact
        <3>4. Account(conf, m, made[m], localBuffer[m], 0, SentBy(network, m) \cup {retryPkt[m]}, routingTable[m], ot[m],
                      exact)
            BY <1>2, <2>1, <2>2, <3>3, Retried
        <3> QED
            BY <2>2, <3>1, <3>2, <3>4
    <2>3. CASE k # m
        <3>1. SentBy(network', k) = SentBy(network, k) /\ retryPkt'[k] = retryPkt[k]
            BY <1>1, <1>2, <2>3 DEF SentBy, Typed
        <3> QED
            BY <2>1, <3>1
    <2> QED
        BY <2>2, <2>3
<1>5. Accounts'
    BY <1>2, <1>3, <1>4 DEF Accounts
<1>6. Typed'
    <2>1. retryPkt' \in [Masters -> Nat]
        BY <1>1, <1>2 DEF Typed
    <2>2. network' \in SUBSET (Masters \X Nat)
        BY <1>1, <1>2 DEF Typed
    <2>3. /\ updateAt' = Never \/ (updateAt' \in Nat /\ updateAt' >= tick)
          /\ nextAtpTime' = Never /\ drainState' \in {"running", "draining", "drained", "stopped"}
        <3>1. CASE drainState = "draining"
            BY <1>1, <1>2, <3>1 DEF RetryDone, Typed
        <3>2. CASE drainState # "draining"
            BY <1>1, <1>2, <3>2, ScheduledFor DEF RetryDone, Typed
        <3> QED
            BY <3>1, <3>2
    <2> QED
        BY <1>1, <1>2, <1>3, <2>1, <2>2, <2>3 DEF Typed
<1>7. DoneIsDone'
    BY <1>2 DEF DoneIsDone
<1> QED
    BY <1>5, <1>6, <1>7 DEF AccountInv

\* Time, draining and going on leave the packets alone.
LEMMA OthersInv ==
    ASSUME AccountInv, DoneIsDone, PassTime \/ Drain \/ Resume \/ UNCHANGED adapterVars
    PROVE  AccountInv' /\ DoneIsDone'
<1>1. Typed /\ Accounts
    BY DEF AccountInv
<1>2. UNCHANGED <<conf, engine, time, announced, ports, nextAtpTime, exited, network>>
    BY DEF PassTime, Drain, Resume, adapterVars
<1>3. UNCHANGED <<conf, made, ot, dueAt, time, announced, localBuffer, retryPkt, routingTable, nextAtpTime, exited, network>>
    BY <1>2 DEF engine, ports
<1>4. Accounts'
    BY <1>1, <1>3 DEF Accounts
<1>5. /\ tick' \in Nat /\ (updateAt' = Never \/ (updateAt' \in Nat /\ updateAt' >= tick'))
      /\ drainState' \in {"running", "draining", "drained", "stopped"}
    <2>1. CASE PassTime
        BY <1>1, <2>1 DEF PassTime, Typed
    <2>2. CASE Drain
        BY <1>1, <2>2 DEF Drain, Typed
    <2>3. CASE Resume
        BY <1>1, <2>3 DEF Resume, Typed
    <2>4. CASE UNCHANGED adapterVars
        BY <1>1, <2>4 DEF adapterVars, Typed
    <2> QED
        BY <2>1, <2>2, <2>3, <2>4
<1>6. Typed'
    BY <1>1, <1>3, <1>5 DEF Typed
<1>7. DoneIsDone'
    BY <1>3 DEF DoneIsDone, PortBusy, Total
<1> QED
    BY <1>4, <1>6, <1>7 DEF AccountInv

LEMMA NextInv == AccountInv /\ DoneIsDone /\ [AdapterNext]_adapterVars => AccountInv' /\ DoneIsDone'
<1> SUFFICES ASSUME AccountInv, DoneIsDone, [AdapterNext]_adapterVars PROVE AccountInv' /\ DoneIsDone'
    OBVIOUS
<1>1. CASE Update
    BY <1>1, UpdateInv
<1>2. CASE \E m \in Masters : \E n \in 1..Total(m) : Answer(m, n)
    BY <1>2, AnswerInv
<1>3. CASE \E m \in Masters : Retry(m)
    BY <1>3, RetryInv
<1>4. CASE PassTime \/ Drain \/ Resume \/ UNCHANGED adapterVars
    BY <1>4, OthersInv
<1> QED
    BY <1>1, <1>2, <1>3, <1>4 DEF AdapterNext

(***************************************************************************)
(* What the invariant says.                                                *)
(***************************************************************************)

LEMMA InvTypes == AccountInv => AdapterTypeOK
<1> SUFFICES ASSUME AccountInv PROVE AdapterTypeOK
    OBVIOUS
<1>1. Typed /\ Accounts
    BY DEF AccountInv
<1>2. ASSUME NEW m \in Masters
      PROVE  /\ made[m] \in 0..Total(m) /\ ot[m] \in 0..conf.maxOt[m] /\ dueAt[m] \in Nat
             /\ localBuffer[m] \in Seq(1..Total(m)) /\ retryPkt[m] \in 0..Total(m)
             /\ routingTable[m] \subseteq 1..Total(m) /\ SentBy(network, m) \subseteq 1..Total(m)
    <2> DEFINE b == localBuffer[m]
               l == Len(b)
               before == made[m] - l
    <2>1. /\ made[m] \in 0..Total(m) /\ ot[m] \in 0..conf.maxOt[m]
          /\ b \in Seq(Nat) /\ before \in Nat
          /\ \A i \in 1..l : b[i] = before + i
          /\ retryPkt[m] \in 0..before /\ SentBy(network, m) \subseteq 1..before
          /\ routingTable[m] \subseteq 1..before
        BY <1>1 DEF Accounts, Account, Total
    <2>2. dueAt[m] \in Nat /\ Total(m) \in Nat /\ l \in Nat
        BY <1>1, <2>1, Sane, LenProperties DEF Typed
    <2>3. before <= Total(m) /\ before + l <= Total(m)
        BY <2>1, <2>2
    <2>4. DOMAIN b = 1..l /\ b = [i \in 1..l |-> b[i]]
        <3> HIDE DEF b
        <3> QED
            BY <2>1, LenProperties DEF l
    <2> HIDE DEF b, l, before
    <2>5. \A i \in 1..l : b[i] \in 1..Total(m)
        <3> SUFFICES ASSUME NEW i \in 1..l PROVE b[i] \in 1..Total(m)
            OBVIOUS
        <3>1. before \in Nat /\ b[i] = before + i
            BY <2>1
        <3>2. ASSUME NEW x, x = before + i PROVE x \in 1..Total(m)
            BY <2>2, <2>3, <3>1, <3>2
        <3> QED
            BY <3>1, <3>2
    <2>6. b \in Seq(1..Total(m))
        BY <2>2, <2>4, <2>5
    <2> QED
        BY <2>1, <2>2, <2>3, <2>6 DEF b
<1>3. ASSUME NEW x \in network PROVE x[1] \in Masters /\ x[2] \in 1..Total(x[1])
    <2>1. x \in Masters \X Nat
        BY <1>1, <1>3 DEF Typed
    <2>2. PICK m \in Masters, n \in Nat : x = <<m, n>>
        BY <2>1
    <2>3. n \in SentBy(network, m) /\ x[1] = m /\ x[2] = n
        BY <1>3, <2>2 DEF SentBy
    <2> QED
        BY <1>2, <2>3
<1> QED
    BY <1>1, <1>2, <1>3 DEF AdapterTypeOK, Typed

LEMMA InvRouting == AccountInv => RoutingExact
<1> SUFFICES ASSUME AccountInv, NEW m \in Masters
             PROVE  LET out == {x[2] : x \in {y \in network : y[1] = m}} \cup ({retryPkt[m]} \ {0})
                        entries(n) == {x \in routingTable[m] : Packet(m, x) = Packet(m, n)}
                    IN /\ \A n \in 1..Total(m) :
                            Cardinality(entries(n)) = Cardinality({x \in out : Packet(m, x) = Packet(m, n)})
                       /\ ~conf.outOfRange /\ exited \in {"no", "done"} =>
                            ot[m] = Len(localBuffer[m]) + Cardinality(out)
    BY DEF RoutingExact
<1> DEFINE out == {x[2] : x \in {y \in network : y[1] = m}} \cup ({retryPkt[m]} \ {0})
           o == OutOf(retryPkt[m], SentBy(network, m))
<1>1. /\ \A n \in 1..Total(m) : Cardinality(Alike(conf, m, n, routingTable[m])) = Cardinality(Alike(conf, m, n, o))
      /\ Exact(conf, exited) => ot[m] = Len(localBuffer[m]) + Cardinality(o)
    BY DEF AccountInv, Accounts, Account, Total
<1>2. {x[2] : x \in {y \in network : y[1] = m}} = SentBy(network, m)
    <2>1. network \in SUBSET (Masters \X Nat)
        BY DEF AccountInv, Typed
    <2>2. ASSUME NEW x \in network, x[1] = m PROVE x[2] \in SentBy(network, m)
        <3>1. PICK k \in Masters, n \in Nat : x = <<k, n>>
            BY <2>1, <2>2
        <3> QED
            BY <2>2, <3>1 DEF SentBy
    <2>3. ASSUME NEW n \in SentBy(network, m) PROVE n \in {x[2] : x \in {y \in network : y[1] = m}}
        <3>1. <<m, n>> \in network
            BY <2>3 DEF SentBy
        <3>2. <<m, n>>[1] = m /\ <<m, n>>[2] = n
            OBVIOUS
        <3> QED
            BY <3>1, <3>2
    <2> QED
        BY <2>2, <2>3
<1>3. out = o
    BY <1>2 DEF OutOf
<1>4. \A n, S : Alike(conf, m, n, S) = {x \in S : Packet(m, x) = Packet(m, n)}
    BY DEF Alike, Packet
<1> HIDE DEF o
<1> QED
    BY <1>1, <1>3, <1>4 DEF Exact

LEMMA InvOrder == AccountInv => OrderKept
<1> SUFFICES ASSUME AccountInv, NEW m \in Masters
             PROVE  LET queue == IF retryPkt[m] # 0 THEN <<retryPkt[m]>> \o localBuffer[m] ELSE localBuffer[m]
                    IN /\ \A i, j \in DOMAIN queue : i < j => queue[i] < queue[j]
                       /\ \A x \in network : x[1] = m => \A i \in DOMAIN queue : x[2] < queue[i]
    BY DEF OrderKept
<1> DEFINE b == localBuffer[m]
           l == Len(b)
           before == made[m] - l
           retry == retryPkt[m]
           queue == IF retry # 0 THEN <<retry>> \o b ELSE b
           sent == SentBy(network, m)
<1>1. /\ b \in Seq(Nat) /\ before \in Nat
      /\ \A i \in 1..l : b[i] = before + i
      /\ retry \in 0..before /\ sent \subseteq 1..before
      /\ (retry # 0 => \A n \in sent : n < retry)
    BY DEF AccountInv, Accounts, Account
<1>2. l \in Nat
    BY <1>1, LenProperties
<1>3. ASSUME NEW x \in network, x[1] = m PROVE x[2] \in sent
    <2>1. PICK k \in Masters, n \in Nat : x = <<k, n>>
        BY <1>3 DEF AccountInv, Typed
    <2> QED
        BY <1>3, <2>1 DEF SentBy
<1> HIDE DEF l, before, retry, sent
<1>4. /\ \A i, j \in DOMAIN queue : i < j => queue[i] < queue[j]
      /\ \A n \in sent : \A i \in DOMAIN queue : n < queue[i]
    <2>1. CASE retry = 0
        <3>1. queue = b /\ DOMAIN b = 1..l
            BY <1>1, <2>1 DEF l
        <3> HIDE DEF b, queue
        <3> QED
            BY <1>1, <1>2, <3>1
    <2>2. CASE retry # 0
        <3>1. queue = <<retry>> \o b /\ retry \in Nat
            BY <1>1, <2>2
        <3>2. DOMAIN queue = 1..l + 1 /\ queue[1] = retry /\ \A i \in 1..l + 1 : i > 1 => queue[i] = b[i - 1]
            BY <1>1, <1>2, <3>1 DEF l
        <3> HIDE DEF b, queue
        <3>3. \A i \in 1..l + 1 : queue[i] = IF i = 1 THEN retry ELSE before + (i - 1)
            <4>1. SUFFICES ASSUME NEW i \in 1..l + 1, i # 1 PROVE queue[i] = before + (i - 1)
                BY <3>2
            <4>2. i > 1 /\ i - 1 \in 1..l
                BY <1>2, <4>1
            <4> QED
                BY <1>1, <3>2, <4>2
        <3>4. ASSUME NEW i \in DOMAIN queue, NEW j \in DOMAIN queue, i < j PROVE queue[i] < queue[j]
            <4>1. i \in 1..l + 1 /\ j \in 1..l + 1 /\ j # 1
                BY <1>2, <3>2, <3>4
            <4>2. queue[j] = before + (j - 1) /\ queue[i] = IF i = 1 THEN retry ELSE before + (i - 1)
                BY <3>3, <4>1
            <4> QED
                BY <1>1, <1>2, <3>4, <4>1, <4>2
        <3>5. ASSUME NEW n \in sent, NEW i \in DOMAIN queue PROVE n < queue[i]
            <4>1. i \in 1..l + 1 /\ n \in 1..before /\ n < retry
                BY <1>1, <2>2, <3>2, <3>5
            <4>2. queue[i] = IF i = 1 THEN retry ELSE before + (i - 1)
                BY <3>3, <4>1
            <4> QED
                BY <1>1, <1>2, <4>1, <4>2
        <3> QED
            BY <3>4, <3>5
    <2> QED
        BY <2>1, <2>2
<1> HIDE DEF b, queue
<1> QED
    BY <1>3, <1>4 DEF b, queue, retry

LEMMA InitDone == AdapterInit => DoneIsDone
BY DEF AdapterInit, DoneIsDone

\* Each packet is held in the account of its master alone, of the last made those in
\* the buffer and of the others those out, and every update, answer, retry and drain
\* keeps the account.
THEOREM AccountKept == AdapterSpec => [](AccountInv /\ DoneIsDone)
<1>1. AdapterInit => AccountInv /\ DoneIsDone
    BY InitInv, InitDone
<1>2. AccountInv /\ DoneIsDone /\ [AdapterNext]_adapterVars => (AccountInv /\ DoneIsDone)'
    BY NextInv
<1> QED
    BY <1>1, <1>2, PTL DEF AdapterSpec

\* update, recvTimingResp, recvReqRetry and drain keep their state well formed: no
\* update is scheduled for the past, no table entry is for a packet not made, and no
\* profile has more out than its limit.
THEOREM AdapterTypeCorrect == AdapterSpec => []AdapterTypeOK
BY AccountKept, InvTypes, PTL

\* Whatever the ports refuse and the memory reorders, the routing table holds, of each
\* address and command, as many entries as there are requests out, so that every
\* answer finds one, and the requests of a master reach the memory in their order.
THEOREM Ordered == AdapterSpec => []InOrder
<1>1. AccountInv => InOrder
    BY InvRouting, InvOrder DEF InOrder
<1> QED
    BY <1>1, AccountKept, PTL

\* exitWhenDone says "done" only with every packet made, sent and answered.
THEOREM Finished == AdapterSpec => []DoneIsDone
BY AccountKept, PTL
=============================================================================
