----------------------------- MODULE MCRouting -----------------------------
(* Two masters and two slaves, in a loop and under an adapter. *)
EXTENDS Routing

Base == [order |-> <<"m", "n", "s", "r">>,
         toSend |-> [m \in Masters |-> IF m = "m" THEN 2 ELSE 1],
         maxOt |-> [x \in Masters \cup Slaves |-> 1],
         posted |-> {}, to |-> [m \in Masters |-> {"s"}],
         latency |-> [s \in Slaves |-> 1], loop |-> TRUE, external |-> {}]

\* Two masters and one slot; the slave is asked last, or first.
Contended == [Base EXCEPT !.maxOt["m"] = 2]
SlaveFirst == [Base EXCEPT !.maxOt["m"] = 2, !.order = <<"s", "m", "n", "r">>, !.latency["s"] = 0]

\* A master of posted requests, which two slaves share.
Shared == [Base EXCEPT !.posted = {"m"}, !.to["m"] = {"s", "r"}, !.latency["r"] = 2]

\* Under an adapter, which has requests of its own for the same slave.
Adapted == [Base EXCEPT !.loop = FALSE, !.external = {"s"}, !.toSend["m"] = 1]

All == {Contended, SlaveFirst, Shared, Adapted}
=============================================================================
