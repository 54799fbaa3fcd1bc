--------------------------- MODULE CreditLimiter ---------------------------
(***************************************************************************)
(* What an ATP FIFO promises to the profile that asks it for permission to *)
(* send, whichever way its data flows: a credit, in bytes, that grants     *)
(* spend and that grows back with time, and that together with the bytes   *)
(* in flight never exceeds the configured level.                           *)
(*                                                                         *)
(* A READ FIFO's credit is the space that is neither filled nor reserved,  *)
(* a WRITE FIFO's the data that is not yet committed.  A limit of 0 means  *)
(* no limit at all.                                                        *)
(***************************************************************************)
EXTENDS Integers

VARIABLES limit, credit, flying

clVars == <<limit, credit, flying>>

Full == IF limit = 0 THEN {0} ELSE {0, limit}

CLInit == limit \in Nat /\ credit \in Full /\ flying = 0

\* The credit grows to what f bytes in flight leave of the limit, or to less, and
\* is then spent.
Credited(f, spent) ==
    /\ limit = 0 => credit' = 0
    /\ limit # 0 => /\ credit' >= 0
                    /\ credit' + spent >= credit
                    /\ credit' + spent + f <= limit
    /\ UNCHANGED limit

Grant ==
    /\ flying' > flying
    /\ Credited(flying, flying' - flying)

\* Time passes; answers, if any, take bytes out of flight and give no credit.
Pass ==
    /\ flying' \in 0 .. flying
    /\ Credited(flying', 0)

Restart == credit' \in Full /\ flying' = 0 /\ UNCHANGED limit

CLNext == Grant \/ Pass \/ Restart

CLSpec == CLInit /\ [][CLNext]_clVars
=============================================================================
