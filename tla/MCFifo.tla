------------------------------- MODULE MCFifo -------------------------------
(* Small FIFOs for TLC.  The precision of 10 makes the periods 1 and 2 exact   *)
(* and rounds the thirds of period 3, as the precision of the code does.       *)
EXTENDS Fifo

FifoOf(kind, rate, period, max, start, tracked, home) ==
    [kind |-> kind, rate |-> rate, period |-> period, max |-> max, start |-> start,
     tracked |-> tracked, home |-> home]

\* Of each kind: a whole and a fractional rate, a full and an empty start, a
\* limit or none.
Free == {FifoOf("READ",  2, 3, 3, 3, FALSE, {}),
         FifoOf("READ",  2, 2, 4, 0, FALSE, {}),
         FifoOf("READ",  1, 2, 0, 0, FALSE, {}),
         FifoOf("WRITE", 1, 3, 3, 3, TRUE, {}),
         FifoOf("WRITE", 2, 2, 4, 0, TRUE, {}),
         FifoOf("WRITE", 0, 1, 3, 3, TRUE, {}),
         FifoOf("WRITE", 1, 1, 0, 0, TRUE, {})}

\* Linked to a partner by the event that it has filled up, or emptied.
Tied == {FifoOf("READ",  1, 1, 2, 2, FALSE, {"FIFO_FULL"}),
         FifoOf("WRITE", 1, 2, 2, 0, FALSE, {"FIFO_EMPTY"})}

All == Free \cup Tied
=============================================================================
