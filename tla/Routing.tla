------------------------------ MODULE Routing ------------------------------
(***************************************************************************)
(* Masters and slaves of one traffic profile manager: requests and answers *)
(* routed inside the manager (route, receive, handle, the tables of waited *)
(* packets and the buffer), slaves that refuse a request and see it again, *)
(* and the two that drive it: loop(), which jumps to the next Kronos event *)
(* and ticks, or an adapter that sends at times of its own and may bring   *)
(* requests of masters the manager does not know.                          *)
(*                                                                         *)
(* FIFOs are abstracted to what they decide, as in module Engine.  Kronos  *)
(* is abstracted to what module Kronos shows of it: nothing is handed out  *)
(* early, next() may overlook events that are due, and a tick of the loop  *)
(* hands out the event next() named, late if it had been overlooked; one   *)
(* that was scheduled in the past may wait for the tick after.             *)
(***************************************************************************)
EXTENDS Integers, Sequences, FiniteSetsExt, SequencesExt

CONSTANTS
    Configs,    \* the configurations, see Configuration
    Masters, Slaves,
    MaxTime,    \* bound: a FIFO refuses, and an adapter calls, up to MaxTime
    MaxUid      \* bound: requests in a behaviour

Uids == 1..MaxUid
External == "external"  \* the owner of a request that the adapter brought
Invalid == "invalid"    \* InvalidId: the answer of a posted request

\* order: the active list; toSend and maxOt of each master, and to which slaves
\* its addresses, or its name, lead; maxOt and latency of each slave.
Configuration ==
    [order : Seq(Masters \cup Slaves), toSend : [Masters -> Nat],
     maxOt : [Masters \cup Slaves -> Nat \ {0}], posted : SUBSET Masters,
     to : [Masters -> SUBSET Slaves], latency : [Slaves -> Nat],
     loop : BOOLEAN, external : SUBSET Slaves]

\* Profiles are either masters or slaves; those that are used are walked.
ASSUME NamesAssumption ==
    /\ Masters \cap Slaves = {}
    /\ External \notin Masters /\ Invalid \notin Masters
ASSUME BoundAssumption == MaxTime \in Nat /\ MaxUid \in Nat
ASSUME ConfigsAssumption ==
    \A c \in Configs :
        /\ c \in Configuration
        /\ c.external \subseteq ToSet(c.order)
        /\ \A m \in Masters :
              /\ c.to[m] \subseteq ToSet(c.order)
              /\ c.toSend[m] > 0 => c.to[m] # {} /\ m \in ToSet(c.order)

VARIABLES
    conf,           \* the configuration, which never changes
    time,           \* TrafficProfileManager::time
    events,         \* the events in Kronos
    behind,         \* those scheduled in the past since its last get()
    buffer,         \* buffer: requests of internal masters that were refused
    waitedRequest,  \* waitedRequestUidMap: the slave each refused one is for
    waitedResponse, \* waitedResponseUidMap: the master each answer is for
    responses,      \* TrafficProfileSlave::responses
    sent, ot,       \* TrafficProfileMaster
    nextTimes,      \* the times a send collects
    at,             \* where the walk of the active list is, 0 out of a send
    handling,       \* the Kronos events that this send has still to handle
    running,        \* loop() has not returned
    uid,            \* the last request
    origin,         \* environment: who issued each request
    answered        \* history: the requests whose answer was handed over

tables == <<buffer, waitedRequest, waitedResponse>>
walk == <<at, handling, running>>
vars == <<conf, time, events, behind, tables, responses, sent, ot, nextTimes, walk, uid,
          origin, answered>>

Entries(of) == DOMAIN of

With(of, u, v) == [x \in Entries(of) \cup {u} |-> IF x = u THEN v ELSE of[x]]
Without(of, u) == [x \in Entries(of) \ {u} |-> of[x]]

Retry(u, t) == [kind |-> "PACKET_REQUEST_RETRY", id |-> u, time |-> t]
Tick(t) == [kind |-> "TICK", id |-> 0, time |-> t]

Init ==
    /\ conf \in Configs
    /\ time = 0 /\ events = {} /\ behind = {} /\ nextTimes = {}
    /\ buffer = {} /\ waitedRequest = <<>> /\ waitedResponse = <<>>
    /\ responses = [s \in Slaves |-> <<>>]
    /\ sent = [m \in Masters |-> 0] /\ ot = [m \in Masters |-> 0]
    /\ at = IF conf.loop THEN 1 ELSE 0
    /\ handling = {} /\ running = conf.loop
    /\ uid = 0 /\ origin = <<>> /\ answered = {}

-----------------------------------------------------------------------------
(* A request reaches a slave: TrafficProfileSlave::receive *)

\* (mutant) the slave takes one request more than its limit
HasSlotLate(s) == Len(responses[s]) <= conf.maxOt[s]

\* TrafficProfileSlave::active: the FIFO's outstanding requests are the responses.
HasSlot(s) == Len(responses[s]) < conf.maxOt[s]

\* receive() notes a time to come back to unless it is past.
Noted(next) == nextTimes \cup (IF next >= time THEN {next} ELSE {})

\* (mutant) the entry that leads a refused request to its slave stays
SettledNot(u) == waitedRequest

Settled(u) == Without(waitedRequest, u)

\* Taken: an answer is prepared, and the refused request, if it was one, is
\* forgotten.
Takes(u, s) ==
    /\ HasSlot(s)
    /\ LET later == Append(responses[s], [uid |-> u, time |-> time + conf.latency[s]])
       IN /\ responses' = [responses EXCEPT ![s] = later]
          /\ nextTimes' = Noted(later[1].time)
    /\ waitedRequest' = Settled(u)
    /\ buffer' = buffer \ {u}
    /\ UNCHANGED behind

\* What the slave's FIFO may answer with a refusal: the time when its rate allows
\* more, or 0 while answers are on their way.  No slot: 0.
FifoNext(s) ==
    IF ~HasSlot(s) THEN {0}
    ELSE (IF time < MaxTime THEN {time + 1} ELSE {})
         \cup (IF responses[s] # <<>> THEN {0} ELSE {})

\* (mutant) a slave without a slot reports no time to come back
RetryTimeNone(s, next) == next

\* A refusal with no time of its own means after the slave's next answer.
RetryTime(s, next) ==
    IF next = 0 /\ responses[s] # <<>> THEN responses[s][1].time ELSE next

Retries(u, t) == events \cup {Retry(u, t)}

\* A slave that is polled late names a time that is past: that of its next answer.
LateRetries(u, t) == behind \cup (IF t < time THEN {Retry(u, t)} ELSE {})

\* Refused: the entry leads the next attempt to the slave; the request of an
\* internal master is buffered and retried, that of another is the adapter's.
Refuses(u, s, internal) ==
    \E next \in FifoNext(s) :
        LET t == RetryTime(s, next) IN
        /\ nextTimes' = Noted(t)
        /\ waitedRequest' = With(waitedRequest, u, s)
        /\ IF internal
           THEN buffer' = buffer \cup {u} /\ events' = Retries(u, t)
           ELSE UNCHANGED <<buffer, events>>
        /\ behind' = IF internal THEN LateRetries(u, t) ELSE behind
        /\ UNCHANGED responses

-----------------------------------------------------------------------------
(* A send: Kronos events first, then the active list *)

\* handle() and route(): a retried request goes to the slave that refused it.
Handle(e) ==
    /\ at > 0 /\ e \in handling
    /\ handling' = handling \ {e}
    /\ IF e.kind = "TICK" THEN UNCHANGED <<events, behind, tables, responses, nextTimes>>
       ELSE /\ \/ Takes(e.id, waitedRequest[e.id]) /\ UNCHANGED events
               \/ Refuses(e.id, waitedRequest[e.id], TRUE)
            /\ UNCHANGED waitedResponse
    /\ UNCHANGED <<conf, time, sent, ot, at, running, uid, origin, answered>>

Polls(kind) == at > 0 /\ handling = {} /\ at <= Len(conf.order) /\ conf.order[at] \in kind
Polled == conf.order[at]

Ended(m) == sent[m] = conf.toSend[m]
CanSend(m) == ~Ended(m) /\ ot[m] < conf.maxOt[m]

\* (mutant) the answer of a posted request is awaited as any other
AwaitedSelf(m) == m

\* wait() and discard(): whom the answer will be for.
Awaited(m) == IF m \in conf.posted THEN Invalid ELSE m

\* The master is granted a packet, which is routed to one of its slaves.
MasterSends ==
    /\ Polls(Masters) /\ CanSend(Polled) /\ uid < MaxUid
    /\ LET m == Polled
           u == uid + 1
       IN /\ uid' = u
          /\ origin' = With(origin, u, m)
          /\ sent' = [sent EXCEPT ![m] = @ + 1]
          /\ ot' = IF m \in conf.posted THEN ot ELSE [ot EXCEPT ![m] = @ + 1]
          /\ waitedResponse' = With(waitedResponse, u, Awaited(m))
          /\ \E s \in conf.to[m] :
                \/ Takes(u, s) /\ UNCHANGED events
                \/ Refuses(u, s, TRUE)
    /\ UNCHANGED <<conf, time, walk, answered>>

\* The FIFO refuses, or the master is locked or has ended.
MasterWaits ==
    /\ Polls(Masters)
    /\ \/ ~CanSend(Polled) /\ UNCHANGED nextTimes
       \/ CanSend(Polled) /\ time < MaxTime /\ nextTimes' = nextTimes \cup {time + 1}
       \/ CanSend(Polled) /\ ot[Polled] > 0 /\ UNCHANGED nextTimes
    /\ at' = at + 1
    /\ UNCHANGED <<conf, time, events, behind, tables, responses, sent, ot, handling, running,
                   uid, origin, answered>>

FirstDue(s) == responses[s] # <<>> /\ responses[s][1].time <= time

OwnerOf(u) == IF u \in Entries(waitedResponse) THEN waitedResponse[u] ELSE External

\* A master that received notes the present time, unless that was its last.
ReceiveNext(m) == IF Ended(m) /\ ot[m] = 1 THEN 0 ELSE time

\* A slave gives out an answer and notes the time of the next: to the master it
\* is for, to nobody (its entry stays), or to the adapter.
SlaveSends ==
    /\ Polls(Slaves) /\ FirstDue(Polled)
    /\ LET s == Polled
           u == responses[s][1].uid
           rest == Tail(responses[s])
           later == IF rest # <<>> /\ rest[1].time > time THEN {rest[1].time} ELSE {}
           m == OwnerOf(u)
       IN /\ responses' = [responses EXCEPT ![s] = rest]
          /\ answered' = answered \cup {u}
          /\ IF m \in Masters
             THEN /\ ot' = [ot EXCEPT ![m] = @ - 1]
                  /\ waitedResponse' = Without(waitedResponse, u)
                  /\ nextTimes' = later \cup Noted(ReceiveNext(m))
             ELSE /\ nextTimes' = nextTimes \cup later
                  /\ UNCHANGED <<ot, waitedResponse>>
    /\ UNCHANGED <<conf, time, events, behind, buffer, waitedRequest, sent, walk, uid, origin>>

SlaveWaits ==
    /\ Polls(Slaves) /\ ~FirstDue(Polled)
    /\ nextTimes' = nextTimes \cup
           (IF responses[Polled] # <<>> THEN {responses[Polled][1].time} ELSE {})
    /\ at' = at + 1
    /\ UNCHANGED <<conf, time, events, behind, tables, responses, sent, ot, handling, running,
                   uid, origin, answered>>

-----------------------------------------------------------------------------
(* Who sends *)

\* tick(): one TICK, at the earliest time collected.
TickOf(times) == IF times = {} THEN {} ELSE {Tick(Min(times))}

\* setTime(): a time in the past leaves the clock where it is.
SetTime(t) == IF t >= time THEN t ELSE time

\* The walk ends: the loop goes on while Kronos holds events, to the time next()
\* names, or at the present one when that is past.
LoopTick ==
    /\ running /\ handling = {} /\ at > Len(conf.order)
    /\ LET pending == events \cup TickOf(nextTimes) IN
       IF pending = {}
       THEN running' = FALSE /\ at' = 0 /\ UNCHANGED <<time, events, behind, nextTimes, handling>>
       ELSE \E e \in pending :
            \E due \in SUBSET {x \in pending : x.time <= SetTime(e.time)} :
                /\ e \in due \/ e \in behind
                /\ time' = SetTime(e.time)
                /\ handling' = due /\ events' = pending \ due
                /\ behind' = {} /\ nextTimes' = {} /\ at' = 1
                /\ UNCHANGED running
    /\ UNCHANGED <<conf, tables, responses, sent, ot, uid, origin, answered>>

\* An adapter gets its packets back, and calls again when it likes.
AdapterReturns ==
    /\ ~running /\ handling = {} /\ at > Len(conf.order)
    /\ at' = 0
    /\ UNCHANGED <<conf, time, events, behind, tables, responses, sent, ot, nextTimes, handling,
                   running, uid, origin, answered>>

AdapterSend ==
    /\ ~conf.loop /\ at = 0
    /\ \E t \in time..MaxTime :
       \E due \in SUBSET {e \in events : e.time <= t} :
          time' = t /\ handling' = due /\ events' = events \ due
    /\ behind' = {} /\ nextTimes' = {} /\ at' = 1
    /\ UNCHANGED <<conf, tables, responses, sent, ot, running, uid, origin, answered>>

\* A request of a master the manager does not know; when it was refused the
\* adapter brings it again.
AdapterRequest ==
    /\ ~conf.loop /\ at = 0
    /\ \E u \in {x \in Entries(waitedRequest) : origin[x] = External}
               \cup (IF uid < MaxUid THEN {uid + 1} ELSE {}) :
          /\ uid' = Max({uid, u})
          /\ origin' = With(origin, u, External)
          /\ \E s \in IF u <= uid THEN {waitedRequest[u]} ELSE conf.external :
                \/ Takes(u, s) /\ UNCHANGED events
                \/ Refuses(u, s, FALSE)
    /\ UNCHANGED <<conf, time, waitedResponse, sent, ot, walk, answered>>

Send ==
    \/ \E e \in handling : Handle(e)
    \/ MasterSends \/ MasterWaits \/ SlaveSends \/ SlaveWaits \/ LoopTick

Next == Send \/ AdapterReturns \/ AdapterSend \/ AdapterRequest

\* The loop is the only thread: it goes on while it has something to do.
Spec == Init /\ [][Next]_vars /\ WF_vars(Send)

-----------------------------------------------------------------------------
AllEvents == [kind : {"PACKET_REQUEST_RETRY", "TICK"}, id : Nat, time : Nat]
Owners == Masters \cup {External}

(* The values of the variables. *)
TypeOK ==
    /\ conf \in Configs /\ time \in Nat /\ uid \in 0..MaxUid
    /\ (events \cup handling \cup behind) \subseteq AllEvents
    /\ {buffer, answered, DOMAIN waitedRequest, DOMAIN waitedResponse} \subseteq SUBSET Uids
    /\ \A u \in DOMAIN waitedRequest : waitedRequest[u] \in Slaves
    /\ \A u \in DOMAIN waitedResponse : waitedResponse[u] \in Masters \cup {Invalid}
    /\ DOMAIN origin = 1..uid /\ \A u \in 1..uid : origin[u] \in Owners
    /\ responses \in [Slaves -> Seq([uid : Uids, time : Nat])]
    /\ sent \in [Masters -> Nat] /\ ot \in [Masters -> Nat]
    /\ nextTimes \subseteq Nat /\ at \in Nat /\ running \in BOOLEAN

RetriesOf(u) == {e \in events \cup handling : e.kind = "PACKET_REQUEST_RETRY" /\ e.id = u}
Holding(u) == {s \in Slaves : \E i \in DOMAIN responses[s] : responses[s][i].uid = u}

Refused(u) ==
    /\ u \in DOMAIN waitedRequest /\ u \notin answered /\ Holding(u) = {}
    /\ IF origin[u] = External THEN u \notin buffer /\ RetriesOf(u) = {}
                               ELSE u \in buffer /\ Cardinality(RetriesOf(u)) = 1

Taken(u) ==
    /\ u \notin DOMAIN waitedRequest \cup buffer \cup answered /\ RetriesOf(u) = {}
    /\ \E s \in Slaves : Holding(u) = {s} /\
          Cardinality({i \in DOMAIN responses[s] : responses[s][i].uid = u}) = 1

Answered(u) ==
    /\ u \in answered /\ u \notin DOMAIN waitedRequest \cup buffer
    /\ RetriesOf(u) = {} /\ Holding(u) = {}

(* A request is at one place, in one state: refused, with one way back to    *)
(* its slave (the buffer and one event of Kronos, or the adapter that brought *)
(* it), or in one slave, or answered.  None is lost between the tables, the  *)
(* buffer, Kronos and the slaves, and none is served twice.                  *)
OnePlace ==
    /\ \A u \in 1..uid : Refused(u) \/ Taken(u) \/ Answered(u)
    /\ buffer \cup DOMAIN waitedRequest \subseteq 1..uid

(* The table of awaited answers and the count of each master agree with the  *)
(* requests in the manager: an answer finds the master that asked, once, and *)
(* an entry that is never removed is that of a posted request.               *)
AnswersOwned ==
    /\ \A m \in Masters \ conf.posted :
          ot[m] = Cardinality({u \in 1..uid \ answered : origin[u] = m})
    /\ \A u \in 1..uid :
          LET m == origin[u] IN
          IF m \in conf.posted THEN u \in DOMAIN waitedResponse /\ waitedResponse[u] = Invalid
          ELSE IF m \in Masters /\ u \notin answered
               THEN u \in DOMAIN waitedResponse /\ waitedResponse[u] = m
               ELSE u \notin DOMAIN waitedResponse

(* loop() returns only when every master has sent all of its packets and     *)
(* every request has been answered: no refused request and no answer waits   *)
(* for a tick that was not scheduled.                                        *)
LoopLeavesNothing ==
    conf.loop /\ ~running =>
        /\ \A m \in Masters : Ended(m) /\ ot[m] = 0
        /\ \A u \in 1..uid : u \in answered

(* No request is lost or doubled, wherever it is: in the tables, the buffer, *)
(* Kronos, the slaves, or given up by a loop that returns.                   *)
NoneAstray == OnePlace /\ AnswersOwned /\ LoopLeavesNothing

(* loop() returns: retries that are refused again do not keep it going.      *)
LoopEnds == <>~running

RR == INSTANCE RequestReply WITH
        limit <- [s \in Slaves |-> conf.maxOt[s]],
        issued <- 1..uid,
        held <- [s \in Slaves |-> {responses[s][i].uid : i \in DOMAIN responses[s]}]

(* Routing, refusals and retries implement request and reply: a slave never  *)
(* holds more than its limit, takes only a request nobody holds, and what it *)
(* took is answered once.                                                    *)
ImplementsRequestReply == RR!Spec
=============================================================================
