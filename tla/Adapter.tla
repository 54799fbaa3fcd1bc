------------------------------- MODULE Adapter -------------------------------
(***************************************************************************)
(* The gem5 adapter at work (ProfileGen): the update event that asks the   *)
(* manager for packets and serves one port per master, the requests a port *)
(* refused and offers again, the table that leads an answer to the request *)
(* it is for, draining, and the end of the simulation.                     *)
(*                                                                         *)
(* Each master has one profile, abstracted to what modules Engine and Fifo *)
(* say of it: a burst of packets each period, as far as its outstanding    *)
(* transactions allow.  The memory refuses, delays and reorders at will.   *)
(***************************************************************************)
EXTENDS Integers, FiniteSetsExt, SequencesExt

CONSTANTS
    Configs,    \* the configurations, see Configuration
    Masters,    \* the masters, each with a port of its own
    MaxTick     \* bound: the memory delays up to MaxTick

Commands == {"READ_RESP", "WRITE_RESP"}

\* packets: what each master sends, by the answer it is to get; what is not in
\* memory is suppressed, which ends the simulation unless outOfRange.  A tick is
\* num / den units of time of the manager.
Configuration ==
    [packets : [Masters -> Seq([addr : Nat, cmd : Commands])],
     burst : [Masters -> Nat \ {0}], period : [Masters -> Nat \ {0}],
     maxOt : [Masters -> Nat \ {0}], memory : SUBSET Nat, outOfRange : BOOLEAN,
     oneEnds : BOOLEAN, drains : BOOLEAN, num : Nat \ {0}, den : Nat \ {0}]

ASSUME ConfigsAssumption == Configs \subseteq Configuration

VARIABLES
    conf,           \* the configuration, which never changes
    tick,           \* gem5's clock
    made, ot, dueAt,    \* each profile: its packets, those outstanding, when it sends
    time,           \* the manager's clock
    announced,      \* what the manager's last send answered, 0 for nothing
    localBuffer,    \* the packets of each master that wait for its port
    retryPkt,       \* the packet each port has to offer again, or 0
    routingTable,   \* of each master, the requests it has an entry for
    updateAt,       \* the tick updateEvent is scheduled for, or Never
    nextAtpTime,    \* Never is MaxTick
    drainState,     \* "stopped" once everything is drained
    exited,         \* why the simulation ended, or "no"
    network         \* environment: the requests the memory has accepted

engine == <<made, ot, dueAt>>
ports == <<localBuffer, retryPkt, routingTable>>
adapterVars == <<conf, tick, engine, time, announced, ports, updateAt, nextAtpTime, drainState,
          exited, network>>

Never == -1

\* The n-th packet of a master, its uid, is n.
Packet(m, n) == conf.packets[m][n]
Total(m) == Len(conf.packets[m])

Larger(a, b) == IF a > b THEN a ELSE b
Smaller(a, b) == IF a < b THEN a ELSE b

AdapterInit ==
    /\ conf \in Configs
    /\ tick = 0 /\ time = 0 /\ announced = 0
    /\ made = [m \in Masters |-> 0]
    /\ ot = [m \in Masters |-> 0]
    /\ dueAt = [m \in Masters |-> 0]
    /\ localBuffer = [m \in Masters |-> <<>>]
    /\ retryPkt = [m \in Masters |-> 0]
    /\ routingTable = [m \in Masters |-> {}]
    /\ updateAt = 0 /\ nextAtpTime = Never
    /\ drainState = "running" /\ exited = "no"
    /\ network = {}

-----------------------------------------------------------------------------
(* Time *)

\* getAtpTime, getSimTicks: never before the manager's own.
AtpTime == Larger((tick * conf.num) \div conf.den, time)
SimTicks(atpTime) == (atpTime * conf.den) \div conf.num

\* (mutant) an update that is not scheduled at all stays so
EarlierScheduled(when) == updateAt > when

\* scheduleUpdate does nothing if the update comes as early anyway.
Earlier(when) == updateAt = Never \/ updateAt > when

ScheduleUpdate(when) ==
    IF Earlier(when) THEN updateAt' = when /\ nextAtpTime' = Never
                     ELSE UNCHANGED <<updateAt, nextAtpTime>>

Running == exited = "no" /\ drainState # "stopped"

\* Once the memory has had its time, the clock moves for an update only.
PassTime ==
    /\ Running
    /\ updateAt # tick
    /\ tick < MaxTick \/ updateAt > tick
    /\ tick' = tick + 1
    /\ UNCHANGED <<conf, engine, time, announced, ports, updateAt, nextAtpTime, drainState,
                   exited, network>>

-----------------------------------------------------------------------------
(* update *)

\* (mutant) the first packet beyond the limit is still granted
SendsPast(m, at) ==
    IF dueAt[m] > at THEN 0
    ELSE Smaller(conf.burst[m], Smaller(Total(m) - made[m], conf.maxOt[m] + 1 - ot[m]))

\* The packets that the profile of m sends at a time.
Sends(m, at) ==
    IF dueAt[m] > at THEN 0
    ELSE Smaller(conf.burst[m], Smaller(Total(m) - made[m], conf.maxOt[m] - ot[m]))

\* TrafficProfileManager::send.
EngineSends(at) ==
    /\ time' = at
    /\ made' = [m \in Masters |-> made[m] + Sends(m, at)]
    /\ ot' = [m \in Masters |-> ot[m] + Sends(m, at)]
    /\ dueAt' = [m \in Masters |-> IF Sends(m, at) > 0 THEN at + conf.period[m] ELSE dueAt[m]]
    /\ LET next == {dueAt'[m] : m \in {x \in Masters : made'[x] < Total(x)
                                                       /\ ot'[x] < conf.maxOt[x]}}
       IN announced' = IF next = {} THEN 0 ELSE Min(next)

\* Its profile has ended with answers to come, or may send no more.
EngineLocked ==
    \E m \in Masters : ot'[m] > 0 /\ (made'[m] = Total(m) \/ ot'[m] = conf.maxOt[m])

Queue(m, at) == localBuffer[m] \o [i \in 1..Sends(m, at) |-> made[m] + i]

InMemory(m, n) == Packet(m, n).addr \in conf.memory

PortBusy(m) == retryPkt[m] # 0

\* Each port takes packets, in turn, until it refuses one; passed says how many.
\* What is not in memory is dropped and no port sees it.
Serves(m, queue, passed) ==
    IF PortBusy(m) THEN passed = 0
    ELSE passed < Len(queue) => InMemory(m, queue[passed + 1])

\* The requests this port is offered; each is put in the table before that.
Offered(m, queue, passed) ==
    IF PortBusy(m) THEN {}
    ELSE {n \in ToSet(SubSeq(queue, 1, Smaller(passed + 1, Len(queue)))) : InMemory(m, n)}

Suppressed(m, queue, passed) ==
    {n \in ToSet(SubSeq(queue, 1, passed)) : ~InMemory(m, n)}

\* (mutant) answers are not waited for
NothingLeftToSend == \A m \in Masters : localBuffer'[m] = <<>> /\ retryPkt'[m] = 0

\* No packets are left, here or in the manager, and no answer is waited for.
NothingLeft ==
    /\ \A m \in Masters : localBuffer'[m] = <<>> /\ retryPkt'[m] = 0
    /\ announced' = 0 /\ ~EngineLocked
    /\ \A m \in Masters : ot'[m] = 0

\* exitWhenDone is set.
Ends(suppressed) ==
    IF conf.oneEnds /\ (\E m \in Masters : made'[m] = Total(m) /\ ot'[m] = 0) THEN "one"
    ELSE IF suppressed # {} /\ ~conf.outOfRange THEN "suppressed"
    ELSE IF NothingLeft THEN "done"
    ELSE "no"

Update ==
    /\ Running /\ updateAt = tick
    /\ LET at == IF nextAtpTime = Never THEN AtpTime ELSE nextAtpTime
           queue == [m \in Masters |-> Queue(m, at)]
       IN \E passed \in [Masters -> 0..Max({Len(queue[m]) : m \in Masters})] :
          LET refused(m) == ~PortBusy(m) /\ passed[m] < Len(queue[m])
              offered(m) == Offered(m, queue[m], passed[m])
          IN
          /\ \A m \in Masters : passed[m] <= Len(queue[m]) /\ Serves(m, queue[m], passed[m])
          /\ EngineSends(at)
          /\ localBuffer' = [m \in Masters |->
                 IF PortBusy(m) THEN queue[m] ELSE SubSeq(queue[m], passed[m] + 2, Len(queue[m]))]
          /\ retryPkt' = [m \in Masters |-> IF refused(m) THEN queue[m][passed[m] + 1] ELSE retryPkt[m]]
          /\ routingTable' = [m \in Masters |-> routingTable[m] \cup offered(m)]
          /\ network' = network \cup
                 UNION {{<<m, n>> : n \in offered(m) \ {retryPkt'[m]}} : m \in Masters}
          /\ exited' = Ends(UNION {Suppressed(m, queue[m], passed[m]) : m \in Masters})
          /\ updateAt' = IF announced' = 0 THEN Never ELSE SimTicks(announced')
          /\ nextAtpTime' = Never
    /\ UNCHANGED <<conf, tick, drainState>>

-----------------------------------------------------------------------------
(* The memory *)

\* (mutant) an answer is for the oldest request of the master at the address
MatchesAny(m, n, answer) == Packet(m, n).addr = Packet(m, answer).addr

Matches(m, n, answer) == Packet(m, n) = Packet(m, answer)

\* recvTimingResp: the answer is for the first entry with its address and command,
\* whichever request the memory has answered.  A master's entries come in the order
\* of its packets.
Answer(m, n) ==
    /\ Running /\ <<m, n>> \in network
    /\ network' = network \ {<<m, n>>}
    /\ routingTable' =
           [routingTable EXCEPT ![m] = @ \ {Min({x \in @ : Matches(m, x, n)})}]
    /\ time' = AtpTime
    /\ ot' = [ot EXCEPT ![m] = @ - 1]
    /\ ScheduleUpdate(tick)
    /\ UNCHANGED <<conf, tick, made, dueAt, announced, localBuffer, retryPkt, drainState, exited>>

\* The first port to get rid of its packet ends the drain.
RetryDone ==
    IF drainState = "draining"
    THEN drainState' = "drained" /\ UNCHANGED <<updateAt, nextAtpTime>>
    ELSE ScheduleUpdate(tick) /\ UNCHANGED drainState

\* recvReqRetry, of a port that now takes its packet.
Retry(m) ==
    /\ Running /\ retryPkt[m] # 0
    /\ network' = network \cup {<<m, retryPkt[m]>>}
    /\ retryPkt' = [retryPkt EXCEPT ![m] = 0]
    /\ RetryDone
    /\ UNCHANGED <<conf, tick, engine, time, announced, localBuffer, routingTable, exited>>

\* drain(): with no update scheduled it does not look at the ports.  gem5 stops
\* once everything has drained, the memory too, and asks again until then.
Drain ==
    /\ conf.drains /\ Running /\ drainState # "draining"
    /\ LET busy == updateAt # Never /\ \E m \in Masters : PortBusy(m) IN
       /\ drainState' = IF busy THEN "draining" ELSE IF network = {} THEN "stopped" ELSE "drained"
       /\ updateAt' = IF busy THEN updateAt ELSE Never
    /\ UNCHANGED <<conf, tick, engine, time, announced, ports, nextAtpTime, exited, network>>

\* There is no drainResume: gem5 runs again, and no update is scheduled.
Resume ==
    /\ drainState = "stopped"
    /\ drainState' = "running"
    /\ UNCHANGED <<conf, tick, engine, time, announced, ports, updateAt, nextAtpTime, exited,
                   network>>

AdapterNext ==
    \/ PassTime
    \/ Update
    \/ \E m \in Masters : \E n \in 1..Total(m) : Answer(m, n)
    \/ \E m \in Masters : Retry(m)
    \/ Drain
    \/ Resume

\* gem5 runs its events in the order of their ticks; the memory answers what it
\* has accepted, and offers a port that it refused its chance again.
Fairness ==
    /\ WF_adapterVars(PassTime) /\ WF_adapterVars(Update)
    /\ \A m \in Masters :
        /\ WF_adapterVars(Retry(m))
        /\ WF_adapterVars(\E n \in 1..Total(m) : Answer(m, n))

AdapterSpec == AdapterInit /\ [][AdapterNext]_adapterVars /\ Fairness

-----------------------------------------------------------------------------
AdapterTypeOK ==
    /\ conf \in Configs
    /\ tick \in Nat /\ time \in Nat /\ announced \in Nat
    /\ \A m \in Masters :
        /\ made[m] \in 0..Total(m) /\ ot[m] \in 0..conf.maxOt[m] /\ dueAt[m] \in Nat
        /\ localBuffer[m] \in Seq(1..Total(m)) /\ retryPkt[m] \in 0..Total(m)
        /\ routingTable[m] \subseteq 1..Total(m)
        /\ \A x \in network : x[1] \in Masters /\ x[2] \in 1..Total(x[1])
    /\ updateAt = Never \/ updateAt >= tick
    /\ nextAtpTime \in Nat \cup {Never}
    /\ drainState \in {"running", "draining", "drained", "stopped"}
    /\ exited \in {"no", "one", "suppressed", "done"}

\* The requests of a master that are out, by address and command, are what the
\* routing table has entries for: every answer finds one and no entry is left
\* behind; the rest of what the manager counts as outstanding waits for the port.
RoutingExact ==
    \A m \in Masters :
        LET out == {x[2] : x \in {y \in network : y[1] = m}} \cup ({retryPkt[m]} \ {0})
            entries(n) == {x \in routingTable[m] : Packet(m, x) = Packet(m, n)}
        IN /\ \A n \in 1..Total(m) :
                Cardinality(entries(n)) = Cardinality({x \in out : Packet(m, x) = Packet(m, n)})
           /\ ~conf.outOfRange /\ exited \in {"no", "done"} =>
                ot[m] = Len(localBuffer[m]) + Cardinality(out)

\* The requests of a master reach the memory in the order it made them: refused,
\* buffered, retried, and at whatever times the port is free.
OrderKept ==
    \A m \in Masters :
        LET queue == IF retryPkt[m] # 0 THEN <<retryPkt[m]>> \o localBuffer[m] ELSE localBuffer[m]
        IN /\ \A i, j \in DOMAIN queue : i < j => queue[i] < queue[j]
           /\ \A x \in network : x[1] = m => \A i \in DOMAIN queue : x[2] < queue[i]

\* Between the manager and the memory nothing is lost, doubled, mixed up or
\* overtaken, whatever the port refuses and in whatever order it answers.
InOrder == RoutingExact /\ OrderKept

\* The simulation ends for want of work only when every packet has been made, has
\* reached the memory and been answered.
DoneIsDone ==
    exited = "done" =>
        /\ network = {}
        /\ \A m \in Masters :
            /\ made[m] = Total(m) /\ localBuffer[m] = <<>> /\ ~PortBusy(m)
            /\ routingTable[m] = {}

\* It does end, unless it was drained on the way, or a suppressed request is never
\* answered: no packet waits for an update that nobody schedules.
AllPlayed ==
    <>(exited # "no" \/ conf.drains \/ conf.outOfRange)
=============================================================================
