------------------------------ MODULE EventBus ------------------------------
(***************************************************************************)
(* How the profiles of one traffic profile manager hear of each other: the *)
(* events a profile awaits (EventManager), the subscriptions and the       *)
(* active list the manager keeps (TrafficProfileManager::subscribe and     *)
(* event), and the delivery of an event to its listeners.                  *)
(*                                                                         *)
(* Everything happens in one thread, by calls that nest: a listener may    *)
(* emit an event of its own before the next listener hears the first.      *)
(* todo is that nesting, the work still to be done, innermost call first.  *)
(***************************************************************************)
EXTENDS Integers, Sequences, FiniteSets

CONSTANTS
    Ids,        \* profile identifiers, in the order the set of listeners has
    Masters     \* master names

Types == {"ACTIVATION", "TERMINATION", "PROFILE_LOCKED", "PROFILE_UNLOCKED"}

Events == [type : Types, id : Ids]

ASSUME IdsAssumption == Ids \subseteq Nat /\ IsFiniteSet(Ids)

VARIABLES
    owner,              \* the master each profile belongs to
    time,               \* TrafficProfileManager::time
    waited,             \* EventManager::waited, of each profile
    emitted,            \* EventManager::sent: the last event of each category
    waitEventMap,       \* who is subscribed to what
    activeList,         \* the profiles a send polls, in order
    nonTerminated,      \* nonTerminatedProfiles, of each master
    todo                \* the calls in progress

busVars == <<waited, emitted, waitEventMap, activeList, nonTerminated>>

Category(type) ==
    IF type \in {"ACTIVATION", "TERMINATION"} THEN "PROFILE" ELSE "SEND_STATUS"

Categories == {"PROFILE", "SEND_STATUS"}

NoneSent == [type |-> "NONE", time |-> 0]

Subscriptions == [type : Types, id : Ids, profile : Ids]

Event(type, p) == [type |-> type, id |-> p]

Subscription(w, p) == [type |-> w.type, id |-> w.id, profile |-> p]

\* The calls that may be in progress here; the engine adds its own.
Emit(type, p) == [op |-> "emit", type |-> type, profile |-> p]
Notify(ev, to) == [op |-> "notify", event |-> ev, to |-> to]

Running(op) == todo # <<>> /\ Head(todo).op = op

\* The call in progress ends, after the calls it leaves to be made.
Then(calls) == todo' = calls \o Tail(todo)

-----------------------------------------------------------------------------
(* EventManager *)

\* getWaitedCount(c) > 0
Waiting(waits, c) == \E w \in waits : Category(w.type) = c

\* EventManager::waitEvent, of a set of events.
Listed(waits, p) ==
    [i \in 1..Cardinality({w \in waits : w.type = "ACTIVATION"}) |-> p]
Subscribed(waits, p) ==
    waitEventMap \cup {Subscription(w, p) : w \in waits}

\* Nothing was sent of the category, or another type, and earlier unless the
\* category allows events at the same time.
MayEmit(type, p) ==
    LET last == emitted[p][Category(type)] IN
    \/ last.type = "NONE"
    \/ /\ last.type # type
       /\ Category(type) = "PROFILE" \/ last.time < time

\* Events of one profile are released together once it has terminated.
StillWaited(p, ev) ==
    IF ev.type = "TERMINATION" THEN {w \in waited[p] : w.id # ev.id}
                               ELSE waited[p] \ {ev}

-----------------------------------------------------------------------------
(* TrafficProfileManager *)

Concerns(s, ev) ==
    /\ s.id = ev.id
    /\ ev.type = "TERMINATION" \/ s.type = ev.type

Listeners(ev) == {s.profile : s \in {x \in waitEventMap : Concerns(x, ev)}}

\* (mutant) any event of a profile deletes all subscriptions to that profile
KeptNoStatus(ev) == {s \in waitEventMap : ~(s.id = ev.id)}

KeptSubscriptions(ev) == {s \in waitEventMap : ~Concerns(s, ev)}

\* (mutant) a termination is not counted
TerminateUncounted(p) == nonTerminated

Terminate(p) == [nonTerminated EXCEPT ![owner[p]] = @ - 1]

\* emitEvent and, when the event passes its filter, TrafficProfileManager::event.
\* The time of an event of a category that allows concurrency is never read.
EmitEvent ==
    /\ Running("emit")
    /\ LET p == Head(todo).profile
           ev == Event(Head(todo).type, p)
           c == Category(ev.type)
       IN IF MayEmit(ev.type, p)
          THEN /\ emitted' = [emitted EXCEPT ![p][c] =
                      [type |-> ev.type, time |-> IF c = "PROFILE" THEN 0 ELSE time]]
               /\ activeList' = IF ev.type = "ACTIVATION" THEN Append(activeList, p)
                                                           ELSE activeList
               /\ nonTerminated' = IF ev.type = "TERMINATION" THEN Terminate(p)
                                                              ELSE nonTerminated
               /\ waitEventMap' = KeptSubscriptions(ev)
               /\ Then(<<Notify(ev, Listeners(ev))>>)
          ELSE /\ Then(<<>>)
               /\ UNCHANGED <<emitted, activeList, nonTerminated, waitEventMap>>
    /\ UNCHANGED <<owner, time, waited>>

\* Listeners of one event hear it in the order of their identifiers; the events
\* of a terminated profile are in the order of a hash, which is any.
Hears(p) ==
    /\ Running("notify")
    /\ p \in Head(todo).to
    /\ Head(todo).event.type # "TERMINATION" => \A q \in Head(todo).to : p <= q

StillToHear(p) == Notify(Head(todo).event, Head(todo).to \ {p})

AllHeard ==
    /\ Running("notify")
    /\ Head(todo).to = {}
    /\ Then(<<>>)
    /\ UNCHANGED <<owner, time, waited, emitted, waitEventMap, activeList, nonTerminated>>
=============================================================================
