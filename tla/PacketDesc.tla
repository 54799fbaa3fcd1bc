----------------------------- MODULE PacketDesc -----------------------------
(***************************************************************************)
(* The packet descriptor (packet_desc.cc): the addresses of the packets a  *)
(* master sends.  Linear or random, wrapped at the end of a range, and in  *)
(* strides if so configured.  A descriptor d is a record: its pattern,     *)
(*   random, base, increment, range, start, size: of the addresses,        *)
(*   striding, strideN, strideInc, strideRange: of each stride,            *)
(* and where it is, the fields of Position.                                *)
(* Range 0 is no range.  Numbers stay far below 2^64, and a difference     *)
(* that the code lets wrap is brought back by the sum it is part of.       *)
(***************************************************************************)
EXTENDS Integers

Pattern ==
    [random : BOOLEAN, base : Nat, increment : Nat, range : Nat, start : Nat,
     size : Nat \ {0}, striding : BOOLEAN, strideN : Nat, strideInc : Nat,
     strideRange : Nat]

\* nextAddress, strides, strideCount, strideStart.
Position == [next : Nat, strides : Nat, count : Nat, from : Nat]

Descriptor(d) ==
    /\ DOMAIN d = {"random", "base", "increment", "range", "start", "size", "striding",
                   "strideN", "strideInc", "strideRange", "next", "strides", "count", "from"}
    /\ [f \in DOMAIN d \ {"next", "strides", "count", "from"} |-> d[f]] \in Pattern
    /\ [f \in {"next", "strides", "count", "from"} |-> d[f]] \in Position

\* The number of the first stride.
FirstStride(d) == IF d.striding THEN 1 ELSE 0

At(d, address, strides) ==
    [d EXCEPT !.next = address, !.strides = strides, !.count = 0, !.from = address]

\* randomAddress.get(): uniform, and both ends are included.
RandomAddresses(d) == d.base .. d.base + d.range

\* The descriptors init() may leave: start, unless it is 0, is the first address.
Initialised(pattern) ==
    LET blank == [f \in DOMAIN pattern \cup {"next", "strides", "count", "from"} |->
                     IF f \in DOMAIN pattern THEN pattern[f] ELSE 0]
        first == IF pattern.random THEN RandomAddresses(pattern)
                 ELSE {IF pattern.start > 0 THEN pattern.start ELSE pattern.base}
    IN {At(blank, a, FirstStride(pattern)) : a \in first}

\* (mutant) the number of the stride is not set back
RewoundStride(d) == At(d, d.base, d.strides)

\* reset(): from the base, whatever init() started from, also when random.
Rewound(d) == At(d, d.base, FirstStride(d))

\* addressReconfigure(): no stride has begun, so the next one is the first.
Moved(d, base, range) ==
    At([d EXCEPT !.base = base, !.range = range], base, 0)

\* (mutant) the address that ends the range is still used
BeyondLate(d, address) == d.range > 0 /\ address > d.base + d.range

Beyond(d, address) == d.range > 0 /\ address >= d.base + d.range

InStride(d) ==
    d.striding /\ \/ d.count < d.strideN
                  \/ d.next + d.strideInc < d.from + d.strideRange

\* The next address within a stride, or the ones a new stride, or the next
\* packet, may start from.
Following(d) ==
    IF InStride(d)
    THEN {[d EXCEPT !.count = @ + 1, !.next = d.from + (d.count + 1) * d.strideInc]}
    ELSE LET starts == IF d.random THEN RandomAddresses(d)
                       ELSE {IF d.striding THEN d.base + d.strides * d.increment
                                           ELSE d.next + d.increment}
         IN IF d.striding THEN {At(d, a, d.strides + 1) : a \in starts}
                          ELSE {[d EXCEPT !.next = a] : a \in starts}

\* getAddress() answers d.next and leaves one of these: past the range, wrapped
\* to the base.
Advanced(d) ==
    {IF Beyond(d, x.next) THEN Rewound(x) ELSE x : x \in Following(d)}

\* The range autoRange() computes for so many packets, of a size that is a power
\* of two.
RangeNeeded(d, toSend) ==
    IF d.random THEN toSend * d.size
    ELSE IF ~d.striding THEN toSend * d.increment
    ELSE LET packets == IF d.strideRange > 0 THEN d.strideRange \div d.strideInc ELSE d.strideN
             space == IF d.strideRange > 0 THEN d.strideRange ELSE d.strideInc * (d.strideN - 1)
             left == toSend % packets
             gap == IF d.increment > space THEN d.increment - space ELSE 0
         IN (toSend \div packets - 1) * (space + gap) + space
            + IF left > 0 THEN left * d.strideInc + gap ELSE 0

\* autoRange(): a range that was configured is never extended.
AutoRange(d, toSend) ==
    IF toSend > 0 /\ (d.range = 0 \/ d.range > RangeNeeded(d, toSend))
    THEN RangeNeeded(d, toSend) ELSE d.range
=============================================================================
