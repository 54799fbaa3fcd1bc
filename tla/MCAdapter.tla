----------------------------- MODULE MCAdapter -----------------------------
(* Two masters on two ports, with bursts, refusals, drains and bad addresses. *)
EXTENDS Adapter

Read(a) == [addr |-> a, cmd |-> "READ_RESP"]
Write(a) == [addr |-> a, cmd |-> "WRITE_RESP"]

\* m sends bursts to one address, reads and writes; n has one outstanding request.
\* Two ticks are one unit of time.
Bursts == [packets |-> [m \in Masters |-> IF m = "m" THEN <<Read(1), Write(1), Read(1)>>
                                                     ELSE <<Read(1), Read(2), Read(1)>>],
           burst |-> [m \in Masters |-> 2], period |-> [m \in Masters |-> 1],
           maxOt |-> [m \in Masters |-> IF m = "m" THEN 3 ELSE 1],
           memory |-> {1, 2}, outOfRange |-> FALSE, oneEnds |-> FALSE, drains |-> FALSE,
           num |-> 1, den |-> 2]

OneEnds == [Bursts EXCEPT !.oneEnds = TRUE]
Drained == [Bursts EXCEPT !.drains = TRUE, !.den = 1]

\* The second packet of n is not in memory.
Bad == [Bursts EXCEPT !.memory = {1}]
Allowed == [Bad EXCEPT !.outOfRange = TRUE]

All == {Bursts, OneEnds, Drained, Bad, Allowed}
=============================================================================
