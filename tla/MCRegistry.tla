----------------------------- MODULE MCRegistry -----------------------------
(* Streams of four profiles, in one file or two, cloned, played and reset. *)
EXTENDS Registry

After(S) == {[on |-> b, type |-> "TERMINATION"] : b \in S}
Own(p) == {[on |-> p, type |-> "ACTIVATION"]}

Waits(a, b, c, d) == [p \in Bases |-> CASE p = "a" -> a [] p = "b" -> b [] p = "c" -> c
                                       [] p = "d" -> d]
None == [p \in Bases |-> {}]

\* b and c follow the root a, and d both of them.
Diamond == [files |-> <<Bases>>, waits |-> Waits(Own("a"), After({"a"}), After({"a"}), After({"b", "c"})),
            checks |-> None, resets |-> TRUE]

\* c checks a and b.
Checking == [Diamond EXCEPT !.waits = Waits(Own("a"), After({"a"}), {}, After({"c"})),
                            !.checks["c"] = {"a", "b"}]

\* The first file names profiles of the second, which it follows.
Forwards == [Diamond EXCEPT !.files = <<{"d", "c"}, {"a", "b"}>>, !.resets = FALSE]

\* d follows two roots.
TwoRoots == [Diamond EXCEPT !.waits["b"] = Own("b")]

All == {Diamond, Checking, Forwards, TwoRoots}

\* The second file describes followers of the first one's profiles.
Followers == {[Diamond EXCEPT !.files = <<{"a"}, {"b", "c", "d"}>>]}

\* The theorems are about the configurations of the first run; in the second's the
\* cache is not settled.
ASSUME TheoremsApply ==
    /\ \A c \in All : Whole(c) /\ Settled(c)
    /\ \A c \in Followers : Whole(c) /\ ~Settled(c)
=============================================================================
