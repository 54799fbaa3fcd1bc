----------------------------- MODULE MCStreams -----------------------------
(* Two callers of one root: linear, random and striding profiles. *)
EXTENDS Streams

Linear == [random |-> FALSE, base |-> 5, increment |-> 2, range |-> 0, start |-> 0, size |-> 2,
           striding |-> FALSE, strideN |-> 0, strideInc |-> 0, strideRange |-> 0]

Strided == [Linear EXCEPT !.striding = TRUE, !.increment = 6, !.strideInc = 1, !.size = 1,
                          !.strideRange = 2]

Of2(type, toSend, pattern) == [type |-> type, toSend |-> toSend, pattern |-> pattern]

\* Two profiles of one type, which fill the buffer: one wraps, in a range that was
\* configured too small; and one that wraps within a packet.
Lines == [stream |-> <<Of2("READ", 3, Linear), Of2("WRITE", 2, [Linear EXCEPT !.range = 3]),
                       Of2("READ", 3, [Linear EXCEPT !.range = 4])>>, master |-> "m", room |-> 10]

\* A random profile, and one that starts inside its range, larger than it needs.
Chance == [stream |-> <<Of2("READ", 2, [Linear EXCEPT !.random = TRUE, !.size = 1]),
                        Of2("READ", 2, [Linear EXCEPT !.start = 6, !.range = 5])>>,
           master |-> "m", room |-> 6]

\* Strides of two packets by their range, and by their number, 2: three packets.
Strides == [stream |-> <<Of2("READ", 3, Strided),
                         Of2("WRITE", 4, [Strided EXCEPT !.strideRange = 0, !.strideN = 2])>>,
            master |-> "m", room |-> 12]

\* A buffer that is too small, and a profile without an end.
Tight == [Lines EXCEPT !.room = 9]
Endless == [stream |-> <<Of2("READ", 0, Linear), Of2("WRITE", 1, Linear)>>, master |-> "m",
            room |-> 10]

All == {Lines, Chance, Strides, Tight, Endless}
=============================================================================
