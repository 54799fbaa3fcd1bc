-------------------------- MODULE FutureEventList --------------------------
(***************************************************************************)
(* What an event scheduler promises to the profile manager, without any    *)
(* calendar: a set of pending events, each of which leaves the set exactly *)
(* once and never before the clock has reached its time.  The clock never  *)
(* goes back and moves in one of two ways: in a loop, a Turn leaves it or  *)
(* takes it to the time of an event that the same turn delivers; under an  *)
(* external simulator, a Poll takes it anywhere ahead.  Kronos (the        *)
(* calendar queue of kronos.cc) is shown to implement this specification.  *)
(*                                                                         *)
(* Deliberately absent, because Kronos does not promise it: that events    *)
(* are delivered in time order, or that a due event is delivered at once.  *)
(***************************************************************************)
EXTENDS Naturals

VARIABLES
    looped,     \* the event loop moves the clock, and not an external simulator
    clock, pending, done

felVars == <<looped, clock, pending, done>>

FELInit == looped \in BOOLEAN /\ clock = 0 /\ pending = {} /\ done = {}

Add(e) ==
    /\ e \notin pending \cup done
    /\ pending' = pending \cup {e}
    /\ UNCHANGED <<looped, clock, done>>

\* The events of S leave the list, none before the (new) clock has reached it.
Deliver(S) ==
    /\ \A e \in S : e.time <= clock'
    /\ clock' >= clock
    /\ pending' = pending \ S
    /\ done' = done \cup S
    /\ UNCHANGED looped

Turn == looped /\ \E S \in SUBSET pending :
            /\ clock' \in {clock} \cup {e.time : e \in S}
            /\ Deliver(S)

Poll == ~looped /\ \E S \in SUBSET pending :
            /\ clock' \in Nat
            /\ Deliver(S)

FELNext == \/ \E e \in pending' : Add(e)
           \/ Turn
           \/ Poll

FELSpec == FELInit /\ [][FELNext]_felVars
=============================================================================
