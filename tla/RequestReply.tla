---------------------------- MODULE RequestReply ----------------------------
(***************************************************************************)
(* What a manager with internal slaves promises its masters, without       *)
(* tables, buffers, retries, ticks or time: a request is issued, taken by  *)
(* one slave, which holds at most Limit[s] of them, and answered once.     *)
(***************************************************************************)
EXTENDS Naturals, FiniteSets

CONSTANTS Uids, Slaves

VARIABLES
    limit,  \* how many requests each slave holds
    issued, \* the requests that have been issued
    held,   \* the requests that each slave has taken and not answered
    answered

vars == <<limit, issued, held, answered>>

Waiting == issued \ (answered \cup UNION {held[s] : s \in Slaves})

Init ==
    /\ issued = {} /\ answered = {}
    /\ held = [s \in Slaves |-> {}]

Issue(u) ==
    /\ u \notin issued
    /\ issued' = issued \cup {u}
    /\ UNCHANGED <<limit, held, answered>>

\* A slave takes a request that waits, or one as it is issued.
Take(u, s) ==
    /\ u \in Waiting \/ u \notin issued
    /\ Cardinality(held[s]) < limit[s]
    /\ issued' = issued \cup {u}
    /\ held' = [held EXCEPT ![s] = @ \cup {u}]
    /\ UNCHANGED <<limit, answered>>

Reply(u, s) ==
    /\ u \in held[s]
    /\ held' = [held EXCEPT ![s] = @ \ {u}]
    /\ answered' = answered \cup {u}
    /\ UNCHANGED <<limit, issued>>

Next == \E u \in Uids : Issue(u) \/ \E s \in Slaves : Take(u, s) \/ Reply(u, s)

Spec == Init /\ [][Next]_vars
=============================================================================
