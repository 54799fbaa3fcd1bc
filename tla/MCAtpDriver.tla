---------------------------- MODULE MCAtpDriver ----------------------------
\* Two processes on two processors, or on one, that open up to two streams
\* and make up to three play requests; identifiers wrap once.
EXTENDS AtpDriver

MCCallers == {"p1", "p2"}
MCStreams == {"s1", "s2"}
MCIds     == 0 .. 2
OneWay    == {"READ", "WRITE"}
BothWays  == {"RDWR"}

TwoCpus       == {"cpu1", "cpu2"}
OneEach       == [c \in MCCallers |-> IF c = "p1" THEN "cpu1" ELSE "cpu2"]
OneCpu        == {"cpu1"}
Shared        == [c \in MCCallers |-> "cpu1"]
=============================================================================
