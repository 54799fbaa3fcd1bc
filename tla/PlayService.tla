---------------------------- MODULE PlayService ----------------------------
(***************************************************************************)
(* What the programmers model promises of playing streams (see "Configu-   *)
(* ration and activation of a stream" in PROGRAMMABILITY.md): the requests *)
(* on a stream are played one at a time in the order they came, and every  *)
(* request whose traffic is complete is presented to software, one at a    *)
(* time, in the order of completion, until software acknowledges it.       *)
(***************************************************************************)
EXTENDS Sequences

CONSTANTS Streams,    \* the streams that can be played
          Ids         \* the request identifiers software may use

VARIABLES line,       \* per stream its requests, the one being played first
          complete    \* the complete requests, the one presented first

vars == <<line, complete>>

Init == /\ line = [s \in Streams |-> << >>]
        /\ complete = << >>

Request(s, id) == /\ line' = [line EXCEPT ![s] = Append(@, id)]
                  /\ UNCHANGED complete

Complete(s) == /\ line[s] # << >>
               /\ complete' = Append(complete, Head(line[s]))
               /\ line' = [line EXCEPT ![s] = Tail(@)]

Acknowledge == /\ complete # << >>
               /\ complete' = Tail(complete)
               /\ UNCHANGED line

Next == \/ \E s \in Streams : Complete(s) \/ \E id \in Ids : Request(s, id)
        \/ Acknowledge

Spec == Init /\ [][Next]_vars
=============================================================================
