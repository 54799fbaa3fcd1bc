----------------------------- MODULE Precedence -----------------------------
(***************************************************************************)
(* What waiting for the TERMINATION of other profiles promises, without    *)
(* events, subscriptions, polls or an active list: a profile begins, and   *)
(* finishes, only after every profile it waits for has finished.  Several  *)
(* profiles may run at once, a checker may finish without ever sending,    *)
(* and a stream that is reset starts again.                                *)
(***************************************************************************)
CONSTANT Ids

VARIABLES
    after,   \* for each profile, the profiles it waits for
    working, \* the profiles that have begun and not finished
    done     \* the profiles that have finished

vars == <<after, working, done>>

Init ==
    /\ after \in [Ids -> SUBSET Ids]
    /\ working = {}
    /\ done = {}

Ready(p) == p \notin done /\ after[p] \subseteq done

Begin(p) ==
    /\ Ready(p)
    /\ p \notin working
    /\ working' = working \cup {p}
    /\ UNCHANGED <<after, done>>

Finish(p) ==
    /\ Ready(p)
    /\ done' = done \cup {p}
    /\ working' = working \ {p}
    /\ UNCHANGED after

Restart(p) ==
    /\ done' = done \ {p}
    /\ working' = working \ {p}
    /\ UNCHANGED after

Next == \E p \in Ids : Begin(p) \/ Finish(p) \/ Restart(p)

Spec == Init /\ [][Next]_vars
=============================================================================
