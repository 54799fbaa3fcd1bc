------------------------------ MODULE MCEngine ------------------------------
(* Small sets of profiles for TLC: Ids is 1..4, in the order of configuration. *)
EXTENDS Engine

Terminated(p) == Event("TERMINATION", p)

Base == [role |-> "master", owner |-> "m", waits |-> {}, watches |-> {},
         toSend |-> 1, toStop |-> 0, maxOt |-> 1, posted |-> FALSE, delay |-> 0]

Conf(files, profile, roots, autoReset) ==
    [files |-> files, profile |-> profile, roots |-> roots, autoReset |-> autoReset]

After(waits) == [Base EXCEPT !.waits = {Terminated(p) : p \in waits}]

\* 2 and 3 follow 1, and 4 follows both; the files come in another order.
Diamond == Conf(<<<<4, 2>>, <<3, 1>>>>,
    <<[Base EXCEPT !.toSend = 2], After({1}), After({1}), After({2, 3})>>, {}, FALSE)

\* A stream that the adapter activates and resets: a delay, a master that the
\* checker 4 watches and a master of posted requests.
Played == Conf(<<<<1, 2, 3, 4>>>>,
    <<[Base EXCEPT !.role = "delay", !.waits = {Event("ACTIVATION", 1)}],
      [After({1}) EXCEPT !.toSend = 2],
      [After({2}) EXCEPT !.posted = TRUE, !.owner = "n"],
      [After({2}) EXCEPT !.role = "checker", !.watches = {2}, !.owner = "n"]>>,
    {1}, TRUE)

\* 2 stops whenever 1 is locked.
Linked == Conf(<<<<1, 2>>>>,
    <<[Base EXCEPT !.toSend = 3],
      [Base EXCEPT !.waits = {Event("PROFILE_LOCKED", 1)}, !.toSend = 3, !.maxOt = 2],
      Base, Base>>, {}, FALSE)

\* A master with a frame time, and one that starts after a delay; the checker 4
\* is listed among those polled, since it awaits an activation.
Timed == Conf(<<<<4, 1, 2, 3>>>>,
    <<[Base EXCEPT !.toSend = 0, !.toStop = 2, !.maxOt = 1],
      [Base EXCEPT !.role = "delay", !.delay = 2],
      After({2}),
      [Base EXCEPT !.role = "checker", !.watches = {1},
                   !.waits = {Event("ACTIVATION", 1), Terminated(1)}]>>, {}, FALSE)

\* A master that a stream activates, resets and so polls again, and a delay after it.
Alone == Conf(<<<<1, 2>>>>,
    <<[Base EXCEPT !.waits = {Event("ACTIVATION", 1)}],
      [After({1}) EXCEPT !.role = "delay", !.delay = 1], Base, Base>>, {1}, TRUE)

All == {Diamond, Played, Linked, Timed, Alone}

\* The waiter is configured, and so polled, before its partner.
Backwards == Conf(<<<<1, 2>>>>,
    <<[Base EXCEPT !.waits = {Event("PROFILE_LOCKED", 2)}, !.toSend = 2],
      [Base EXCEPT !.toSend = 2, !.posted = TRUE], Base, Base>>, {}, FALSE)

Late == {Backwards}

\* The configurations that TLC runs are those the theorems are about; Backwards
\* is the one that the order of partners excludes.
ASSUME TheoremsApply ==
    /\ OneFile /\ Rooted /\ Acyclic
    /\ StopsWithOne /\ StartsAlone /\ AfterSenders
    /\ Configs # Late => PartnerAhead
=============================================================================
