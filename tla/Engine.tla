------------------------------- MODULE Engine -------------------------------
(***************************************************************************)
(* The traffic profiles of one manager at work: master, delay and checker  *)
(* profiles, the poll that asks each active profile for its packets        *)
(* (TrafficProfileManager::send), the answers of the memory                *)
(* (TrafficProfileManager::receive), and the streams that the gem5 adapter *)
(* activates, watches and resets (ProfileGen).                             *)
(*                                                                         *)
(* A profile's FIFO is abstracted to what it decides (module Fifo has the  *)
(* rest): it grants a packet, or it refuses and names a time to ask again, *)
(* or none while the profile has requests outstanding.  Packets have no    *)
(* content: every request goes to the memory, and is answered once.        *)
(***************************************************************************)
EXTENDS EventBus, FiniteSetsExt, SequencesExt

CONSTANTS
    Configs,    \* the configurations, see Configuration
    MaxTime,    \* bound: a FIFO refuses, and the memory answers, up to MaxTime
    MaxPlays,   \* bound: activations of a stream that is reset when it ends
    MaxSent     \* bound: packets granted to a profile that has no total

Roles == {"master", "delay", "checker"}

\* waits: the events awaited from the start and again after a reset, which for
\* a checker include the TERMINATION of what it watches.  toSend = 0 and
\* toStop = 0 stand for no total and no frame time, maxOt = 0 for no limit.
Profile ==
    [role : Roles, owner : Masters, waits : SUBSET Events, watches : SUBSET Ids,
     toSend : Nat, toStop : Nat, maxOt : Nat, posted : BOOLEAN, delay : Nat]

\* files: the profiles in the order of the files that describe them; roots: the
\* profiles that the adapter activates as streams.
Configuration ==
    [files : Seq(Seq(Ids)), profile : [Ids -> Profile], roots : SUBSET Ids,
     autoReset : BOOLEAN]

\* A wait is configured once: a count of the events of a category is positive
\* when one of them is awaited.  A profile is described once (the manager refuses
\* another of its name); one that no file describes is none.
ASSUME ConfigsAssumption ==
    \A c \in Configs :
       /\ c \in Configuration
       /\ \A f, g \in DOMAIN c.files : \A i \in DOMAIN c.files[f], j \in DOMAIN c.files[g] :
             c.files[f][i] = c.files[g][j] => f = g /\ i = j
       /\ \A p \in Ids : (\A f \in DOMAIN c.files : p \notin ToSet(c.files[f]))
                         => c.profile[p].waits = {}
       /\ c.roots \subseteq {r \in Ids : Event("ACTIVATION", r) \in c.profile[r].waits}
       /\ \A p \in Ids : /\ c.profile[p].role # "checker" => c.profile[p].watches = {}
                         /\ \A q \in c.profile[p].watches :
                               Event("TERMINATION", q) \in c.profile[p].waits

ASSUME TimeAssumption == MaxTime \in Nat

VARIABLES
    conf,               \* the configuration, which never changes
    started, startTime, terminated, ot,     \* TrafficProfileDescriptor
    sent, halted,                           \* TrafficProfileMaster
    waitedResponse,     \* waitedResponseUidMap: entries of each profile
    discards,           \* its entries for answers to be discarded
    streamCache,        \* streamCache and streamLeavesCache
    nextTimes,          \* the times a send collects
    locked,             \* a profile was locked during the last send
    due,                \* ProfileGen: when the next update is scheduled
    activeStreams, plays

profileVars == <<started, startTime, terminated, ot, sent, halted>>
memory == <<waitedResponse, discards>>
streams == <<streamCache, activeStreams, plays>>
poll == <<nextTimes, locked, due>>
vars == <<owner, time, waited, emitted, waitEventMap, activeList, nonTerminated,
          todo, conf, profileVars, memory, streams, poll>>

Never == -1

Of(p) == conf.profile[p]

Quiet == todo = <<>>

\* Running calls on one profile, or on a set of them.
On(op, p) == [op |-> op, profile |-> p]
Check(kind, to) == [op |-> "check", kind |-> kind, to |-> to]
Walk(i) == [op |-> "walk", at |-> i]
Ask(left) == [op |-> "streams", left |-> left]
Cache == [op |-> "cache"]

Each(op, nodes) == [i \in DOMAIN nodes |-> On(op, nodes[i])]
Ordered(S) ==
    CHOOSE q \in [1..Cardinality(S) -> S] : \A i, j \in DOMAIN q : i < j => q[i] < q[j]

-----------------------------------------------------------------------------
(* Configuration *)

Loading(files) ==
    FlattenSeq([f \in DOMAIN files |-> Append(Each("configure", files[f]), Cache)])

Init ==
    /\ conf \in Configs
    /\ owner = [p \in Ids |-> conf.profile[p].owner]
    /\ todo = Loading(conf.files)
    /\ time = 0 /\ due = 0
    /\ waited = [p \in Ids |-> {}]
    /\ emitted = [p \in Ids |-> [c \in Categories |-> NoneSent]]
    /\ waitEventMap = {} /\ activeList = <<>>
    /\ nonTerminated = [m \in Masters |-> 0]
    /\ started = [p \in Ids |-> FALSE]
    /\ terminated = [p \in Ids |-> FALSE]
    /\ halted = [p \in Ids |-> FALSE]
    /\ startTime = [p \in Ids |-> 0]
    /\ ot = [p \in Ids |-> 0]
    /\ sent = [p \in Ids |-> 0]
    /\ waitedResponse = [p \in Ids |-> 0]
    /\ discards = [p \in Ids |-> 0]
    /\ streamCache = [p \in Ids |-> [nodes |-> <<>>, leaves |-> {}]]
    /\ nextTimes = {} /\ locked = FALSE
    /\ activeStreams = {} /\ plays = 0

\* The base class awaits the configured events; a master or a delay with no
\* PROFILE event to wait for announces its activation, and a master has started.
Configure ==
    /\ Running("configure")
    /\ LET p == Head(todo).profile
           c == Of(p)
           free == c.role # "checker" /\ ~Waiting(c.waits, "PROFILE")
       IN /\ waited' = [waited EXCEPT ![p] = c.waits]
          /\ waitEventMap' = Subscribed(c.waits, p)
          /\ activeList' = activeList \o Listed(c.waits, p)
          /\ nonTerminated' = [nonTerminated EXCEPT ![c.owner] = @ + 1]
          /\ started' = [started EXCEPT ![p] = free /\ c.role = "master"]
          /\ Then(IF free THEN <<Emit("ACTIVATION", p)>> ELSE <<>>)
    /\ UNCHANGED <<owner, conf, time, emitted, startTime, terminated, ot, sent, halted,
                   memory, streams, poll>>

\* getStream: the profiles reached from the root by TERMINATION subscriptions,
\* breadth first.
Followers(n) ==
    {s.profile : s \in {x \in waitEventMap : x.id = n /\ x.type = "TERMINATION"}}

Stream(root) ==
    LET reached[k \in 0..Cardinality(Ids)] ==
            IF k = 0 THEN <<root>>
            ELSE LET nodes == reached[k - 1]
                 IN IF k > Len(nodes) THEN nodes
                    ELSE nodes \o Ordered(Followers(nodes[k]) \ ToSet(nodes))
        nodes == reached[Cardinality(Ids)]
    IN [nodes |-> nodes, leaves |-> {n \in ToSet(nodes) : Followers(n) = {}}]

\* streamCacheUpdate: a stream that is in the cache is not built again.
StreamCacheUpdate ==
    /\ Running("cache")
    /\ streamCache' = [r \in Ids |->
           IF r \in ToSet(activeList) /\ streamCache[r].nodes = <<>>
           THEN Stream(r) ELSE streamCache[r]]
    /\ Then(<<>>)
    /\ UNCHANGED <<owner, conf, time, busVars, profileVars, memory, activeStreams, plays, poll>>

-----------------------------------------------------------------------------
(* Events: receiveEvent of each role *)

Opposite(ev) ==
    [ev EXCEPT !.type = IF @ = "PROFILE_LOCKED" THEN "PROFILE_UNLOCKED" ELSE "PROFILE_LOCKED"]

\* A LOCKED or UNLOCKED that was awaited: its opposite is awaited next.
Flips(p, ev) == ev \in waited[p] /\ Category(ev.type) = "SEND_STATUS"

AwaitedBy(p, ev) ==
    StillWaited(p, ev) \cup IF Flips(p, ev) THEN {Opposite(ev)} ELSE {}

\* (mutant) a master halted by a partner stays so when the partner terminates
HaltedForGood(p, ev) == IF Flips(p, ev) THEN ~halted[p] ELSE halted[p]

\* Each flip toggles the flag; with no status left to wait for, it is cleared.
HaltedBy(p, ev) ==
    /\ Waiting(AwaitedBy(p, ev), "SEND_STATUS")
    /\ IF Flips(p, ev) THEN ~halted[p] ELSE halted[p]

\* (mutant) only the wait is ended, and the profile not activated
NeverStarts(p, waits) == FALSE

Starts(p, waits) == ~started[p] /\ ~Waiting(waits, "PROFILE")

MasterHears(p) ==
    /\ Hears(p) /\ Of(p).role = "master"
    /\ LET ev == Head(todo).event
           waits == AwaitedBy(p, ev)
           new == waits \ waited[p]
           starts == Starts(p, waits)
       IN /\ waited' = [waited EXCEPT ![p] = waits]
          /\ waitEventMap' = Subscribed(new, p)
          /\ halted' = [halted EXCEPT ![p] = HaltedBy(p, ev)]
          /\ started' = [started EXCEPT ![p] = @ \/ starts]
          /\ startTime' = [startTime EXCEPT ![p] = IF starts THEN time ELSE @]
          /\ Then((IF starts THEN <<Emit("ACTIVATION", p)>> ELSE <<>>) \o <<StillToHear(p)>>)
    /\ UNCHANGED <<owner, conf, time, emitted, activeList, nonTerminated,
                   terminated, ot, sent, memory, streams, poll>>

\* A delay announces its activation and starts at its next send; a checker only
\* records what it no longer waits for.
OtherHears(p) ==
    /\ Hears(p) /\ Of(p).role # "master"
    /\ LET waits == StillWaited(p, Head(todo).event)
           announces == Of(p).role = "delay" /\ ~Waiting(waits, "PROFILE")
       IN /\ waited' = [waited EXCEPT ![p] = waits]
          /\ Then((IF announces THEN <<Emit("ACTIVATION", p)>> ELSE <<>>)
                  \o <<StillToHear(p)>>)
    /\ UNCHANGED <<owner, conf, time, emitted, waitEventMap, activeList, nonTerminated,
                   profileVars, memory, streams, poll>>

-----------------------------------------------------------------------------
(* The walk of the active list: TrafficProfileManager::send *)

Polled == activeList[Head(todo).at]
Polls(role) ==
    Running("walk") /\ Head(todo).at <= Len(activeList) /\ Of(Polled).role = role
Onward == Walk(Head(todo).at + 1)

EndOfData(p) == Of(p).toSend > 0 /\ sent[p] = Of(p).toSend
EndOfTime(p) == started[p] /\ Of(p).toStop > 0 /\ time >= startTime[p] + Of(p).toStop
Ended(p) == EndOfData(p) \/ EndOfTime(p)

\* TrafficProfileMaster::active, for the outstanding transactions given.
Terminates(p, outstanding) == Ended(p) /\ ~terminated[p] /\ outstanding = 0

\* (mutant) a master sends although the profiles it waits for are at work
LockedByOwnOnly(p) ==
    /\ ~terminated[p] /\ ~Terminates(p, ot[p])
    /\ \/ halted[p] \/ Ended(p)
       \/ Of(p).maxOt > 0 /\ ot[p] >= Of(p).maxOt

Locked(p) ==
    /\ ~terminated[p] /\ ~Terminates(p, ot[p])
    /\ \/ Waiting(waited[p], "PROFILE") \/ halted[p] \/ Ended(p)
       \/ Of(p).maxOt > 0 /\ ot[p] >= Of(p).maxOt

Active(p) == ~Locked(p) /\ ~Ended(p)

\* What active() changes when the profile turns out to be active.
Activated(p) ==
    /\ started' = [started EXCEPT ![p] = TRUE]
    /\ startTime' = [startTime EXCEPT ![p] = IF started[p] THEN @ ELSE time]
FirstActivation(p) == IF started[p] THEN <<>> ELSE <<Emit("ACTIVATION", p)>>

\* checkedByMap, in the order of configuration.
CheckersOf(p) == {c \in Ids : p \in Of(c).watches}
Checks(kind, p) ==
    IF CheckersOf(p) = {} THEN <<>> ELSE <<Check(kind, CheckersOf(p))>>

\* A packet is granted, and its profile asked again.
MasterSends ==
    /\ Polls("master") /\ Active(Polled)
    /\ Of(Polled).toSend = 0 => sent[Polled] < MaxSent
    /\ LET p == Polled IN
       /\ Activated(p)
       /\ sent' = [sent EXCEPT ![p] = @ + 1]
       /\ IF Of(p).posted
          THEN /\ discards' = [discards EXCEPT ![p] = @ + 1]
               /\ UNCHANGED <<ot, waitedResponse>>
          ELSE /\ ot' = [ot EXCEPT ![p] = @ + 1]
               /\ waitedResponse' = [waitedResponse EXCEPT ![p] = @ + 1]
               /\ UNCHANGED discards
       /\ Then(FirstActivation(p) \o <<Emit("PROFILE_UNLOCKED", p)>>
               \o Checks("send", p) \o <<Head(todo)>>)
    /\ UNCHANGED <<owner, conf, time, busVars, terminated, halted, streams, poll>>

\* The FIFO refuses: ask again at a later time, or after an answer.
MasterRefused ==
    /\ Polls("master") /\ Active(Polled)
    /\ LET p == Polled IN
       /\ Activated(p)
       /\ \/ time < MaxTime /\ nextTimes' = nextTimes \cup {time + 1}
          \/ ot[p] > 0 /\ UNCHANGED nextTimes
       /\ Then(FirstActivation(p) \o <<Emit("PROFILE_LOCKED", p), Onward>>)
    /\ UNCHANGED <<owner, conf, time, busVars, terminated, halted, ot, sent, memory,
                   streams, locked, due>>

\* Locked, or terminated: active() fires the TERMINATION.
MasterIdle ==
    /\ Polls("master") /\ ~Active(Polled)
    /\ LET p == Polled
           ends == Terminates(p, ot[p])
       IN /\ terminated' = [terminated EXCEPT ![p] = @ \/ ends]
          /\ halted' = [halted EXCEPT ![p] = @ /\ ~ends]
          /\ locked' = (locked \/ Locked(p))
          /\ Then((IF ends THEN <<Emit("TERMINATION", p)>>
                   ELSE IF terminated[p] THEN <<>> ELSE <<Emit("PROFILE_LOCKED", p)>>)
                  \o <<Onward>>)
    /\ UNCHANGED <<owner, conf, time, busVars, started, startTime, ot, sent, memory, streams,
                   nextTimes, due>>

\* A delay counts from its last send before it was started, and expires even
\* while it is locked.
DelaySend ==
    /\ Polls("delay")
    /\ LET p == Polled
           from == IF started[p] THEN startTime[p] ELSE time
           waits == Waiting(waited[p], "PROFILE")
           begun == started[p] \/ ~waits
           expired == begun /\ time >= from + Of(p).delay
           ends == expired /\ ~terminated[p]
       IN /\ startTime' = [startTime EXCEPT ![p] = from]
          /\ started' = [started EXCEPT ![p] = begun]
          /\ terminated' = [terminated EXCEPT ![p] = @ \/ ends]
          /\ locked' = (locked \/ waits)
          /\ nextTimes' = nextTimes \cup
                 IF ~waits /\ ~expired THEN {from + Of(p).delay} ELSE {}
          /\ Then((IF begun /\ ~started[p] THEN <<Emit("ACTIVATION", p)>> ELSE <<>>)
                  \o (IF ends THEN <<Emit("TERMINATION", p)>> ELSE <<>>) \o <<Onward>>)
    /\ UNCHANGED <<owner, conf, time, busVars, ot, sent, halted, memory, streams, due>>

\* Checkers are in the list only if they wait for an activation; they send nothing.
CheckerSkipped ==
    /\ Polls("checker")
    /\ Then(<<Onward>>)
    /\ UNCHANGED <<owner, conf, time, busVars, profileVars, memory, streams, poll>>

\* updateCheckers: a checker records the packet and looks whether it is done.
CheckerRecords(c) ==
    /\ Running("check")
    /\ c \in Head(todo).to /\ \A d \in Head(todo).to : c <= d
    /\ LET active == waited[c] # {}
           ends == ~active /\ ~terminated[c]
           rest == Head(todo).to \ {c}
       IN /\ ot' = [ot EXCEPT ![c] = IF Head(todo).kind = "receive" THEN @ - 1
                                     ELSE IF active THEN @ + 1 ELSE @]
          /\ terminated' = [terminated EXCEPT ![c] = @ \/ ends]
          /\ Then((IF ends THEN <<Emit("TERMINATION", c)>> ELSE <<>>)
                  \o (IF rest = {} THEN <<>> ELSE <<Check(Head(todo).kind, rest)>>))
    /\ UNCHANGED <<owner, conf, time, busVars, started, startTime, sent, halted, memory,
                   streams, poll>>

\* The adapter schedules its next update for the earliest time collected.
EndWalk ==
    /\ Running("walk") /\ Head(todo).at > Len(activeList)
    /\ due' = IF nextTimes = {} THEN Never ELSE Min(nextTimes)
    /\ Then(<<Ask(activeStreams)>>)
    /\ UNCHANGED <<owner, conf, time, busVars, profileVars, memory, streams,
                   nextTimes, locked>>

-----------------------------------------------------------------------------
(* Streams *)

\* (mutant) only the root of the stream is asked
RootTerminated(r) == terminated[r]

StreamTerminated(r) == \A n \in streamCache[r].leaves : terminated[n]

\* After an update: an active stream whose leaves have terminated is done, and
\* reset if it was activated with auto_reset.
AskStream(r) ==
    /\ Running("streams")
    /\ r \in Head(todo).left /\ \A s \in Head(todo).left : r <= s
    /\ activeStreams' = IF StreamTerminated(r) THEN activeStreams \ {r} ELSE activeStreams
    /\ Then((IF StreamTerminated(r) /\ conf.autoReset
             THEN Each("reset", streamCache[r].nodes) ELSE <<>>)
            \o <<Ask(Head(todo).left \ {r})>>)
    /\ UNCHANGED <<owner, conf, time, busVars, profileVars, memory, streamCache, plays, poll>>

AllAsked ==
    /\ Running("streams") /\ Head(todo).left = {}
    /\ Then(<<>>)
    /\ UNCHANGED <<owner, conf, time, busVars, profileVars, memory, streams, poll>>

RetainedWaits(p) == Of(p).waits

\* reset of a profile; a master resets its checkers, and starts again without
\* renewing its start time.
Reset ==
    /\ Running("reset")
    /\ LET p == Head(todo).profile
           waits == RetainedWaits(p)
           role == Of(p).role
           free == role # "checker" /\ ~Waiting(waits, "PROFILE")
       IN /\ waited' = [waited EXCEPT ![p] = waits]
          /\ waitEventMap' = Subscribed(waits, p)
          /\ activeList' = activeList \o Listed(waits, p)
          /\ emitted' = [emitted EXCEPT ![p] = [c \in Categories |-> NoneSent]]
          /\ ot' = [ot EXCEPT ![p] = 0]
          /\ terminated' = [terminated EXCEPT ![p] = FALSE]
          /\ nonTerminated' = IF terminated[p]
                              THEN [nonTerminated EXCEPT ![owner[p]] = @ + 1]
                              ELSE nonTerminated
          /\ sent' = [sent EXCEPT ![p] = 0]
          /\ halted' = [halted EXCEPT ![p] = FALSE]
          /\ started' = [started EXCEPT ![p] = role = "master" /\ free]
          /\ startTime' = [startTime EXCEPT ![p] = IF role = "delay" THEN 0 ELSE @]
          /\ Then(Each("reset", Ordered(CheckersOf(p)))
                  \o (IF free THEN <<Emit("ACTIVATION", p)>> ELSE <<>>))
    /\ UNCHANGED <<owner, conf, time, memory, streams, poll>>

-----------------------------------------------------------------------------
(* The adapter and the memory, when no call is in progress *)

Poll ==
    /\ Quiet /\ due # Never
    /\ time' = due
    /\ due' = Never
    /\ nextTimes' = {} /\ locked' = FALSE
    /\ todo' = <<Walk(1)>>
    /\ UNCHANGED <<owner, conf, busVars, profileVars, memory, streams>>

\* Before the update that is scheduled; their bound is MaxTime without one.
Instants == time..(IF due = Never THEN Max({time, MaxTime}) ELSE due)

\* The answer of p's memory request; the adapter updates at once.
Answer(p) ==
    /\ Quiet /\ waitedResponse[p] > 0
    /\ \E t \in Instants : time' = t /\ due' = t
    /\ waitedResponse' = [waitedResponse EXCEPT ![p] = @ - 1]
    /\ ot' = [ot EXCEPT ![p] = @ - 1]
    /\ todo' = <<On("answered", p)>>
    /\ UNCHANGED <<owner, conf, busVars, started, startTime, terminated, sent, halted,
                   discards, streams, nextTimes, locked>>

\* Then active() looks whether that was the last one, before the checkers do.
Answered ==
    /\ Running("answered")
    /\ LET p == Head(todo).profile
           ends == Terminates(p, ot[p])
       IN /\ terminated' = [terminated EXCEPT ![p] = @ \/ ends]
          /\ halted' = [halted EXCEPT ![p] = @ /\ ~ends]
          /\ Then((IF ends THEN <<Emit("TERMINATION", p)>> ELSE <<>>)
                  \o Checks("receive", p))
    /\ UNCHANGED <<owner, conf, time, busVars, started, startTime, ot, sent, memory,
                   streams, poll>>

\* The answer of a posted request only moves the time; its entry stays.
Discard(p) ==
    /\ Quiet /\ discards[p] > 0
    /\ \E t \in Instants : time < t /\ time' = t
    /\ UNCHANGED <<owner, conf, busVars, todo, profileVars, memory, streams, poll>>

\* ProfileGen::activateStream calls the root's activate() at an instant the
\* manager's time does not yet know of, and updates.
ActivateStream(r) ==
    /\ Quiet
    /\ r \in conf.roots \ activeStreams
    /\ plays < IF conf.autoReset THEN MaxPlays ELSE 1
    /\ plays' = plays + 1
    /\ activeStreams' = activeStreams \cup {r}
    /\ started' = [started EXCEPT ![r] = TRUE]
    /\ startTime' = [startTime EXCEPT ![r] = IF Of(r).role = "delay" THEN @ ELSE time]
    /\ todo' = <<Emit("ACTIVATION", r)>>
    /\ \E t \in Instants : due' = t
    /\ UNCHANGED <<owner, conf, time, busVars, terminated, ot, sent, halted, memory,
                   streamCache, nextTimes, locked>>

-----------------------------------------------------------------------------
Emission == EmitEvent /\ UNCHANGED <<conf, profileVars, memory, streams, poll>>
Delivered == AllHeard /\ UNCHANGED <<conf, profileVars, memory, streams, poll>>

Step ==
    \/ Configure \/ StreamCacheUpdate \/ Emission \/ Delivered
    \/ \E p \in Ids : MasterHears(p) \/ OtherHears(p) \/ CheckerRecords(p) \/ AskStream(p)
    \/ MasterSends \/ MasterRefused \/ MasterIdle \/ DelaySend \/ CheckerSkipped
    \/ EndWalk \/ AllAsked \/ Reset \/ Answered

Next ==
    \/ Step \/ Poll
    \/ \E p \in Ids : Answer(p) \/ Discard(p) \/ ActivateStream(p)

\* The simulator runs its events, and the memory answers every request.
Fairness ==
    /\ WF_vars(Step)
    /\ WF_vars(Poll)
    /\ \A p \in Ids : WF_vars(Answer(p))

Spec == Init /\ [][Next]_vars /\ Fairness

-----------------------------------------------------------------------------
(* What streams and waits must be like.  Without the first or the second the *)
(* manager lets a profile begin before one it waits for has terminated; with *)
(* a circle it takes a stream for terminated that has just begun.            *)

\* Streams are reset only if all profiles are in one file: the profiles of a
\* later file are not in the streams that were cached before it.
OneFile == \A c \in Configs : c.autoReset => Len(c.files) <= 1

\* A profile that is activated as a stream awaits no other's termination.
Rooted ==
    \A c \in Configs : \A r \in c.roots, q \in Ids :
        Event("TERMINATION", q) \notin c.profile[r].waits

\* No profiles wait for each other in a circle: each is ranked before those it
\* waits for.
Acyclic ==
    \A c \in Configs : \E behind \in [Ids -> 0..Cardinality(Ids)] : \A p, q \in Ids :
        Event("TERMINATION", q) \in c.profile[p].waits => behind[p] < behind[q]

\* Only masters that are not reset start and stop with another, and with one.
StopsWithOne ==
    \A c \in Configs : \A p \in Ids : \A w \in c.profile[p].waits :
        Category(w.type) = "SEND_STATUS" =>
            /\ w.type = "PROFILE_LOCKED" /\ c.profile[p].role = "master" /\ ~c.autoReset
            /\ \A v \in c.profile[p].waits : Category(v.type) = "SEND_STATUS" => v = w

\* That other is a master that waits for nothing, and is described, hence polled,
\* before: what it announces is heard before the poll has passed the one it stops.
Precedes(c, p, q) ==
    \E f, g \in DOMAIN c.files : \E i \in DOMAIN c.files[f], j \in DOMAIN c.files[g] :
        c.files[f][i] = p /\ c.files[g][j] = q /\ (f < g \/ (f = g /\ i < j))
PartnerAhead ==
    \A c \in Configs : \A p, q \in Ids : Event("PROFILE_LOCKED", q) \in c.profile[p].waits =>
        c.profile[q].role = "master" /\ c.profile[q].waits = {} /\ Precedes(c, q, p)

\* A master or a delay that awaits an activation awaits its own, and no termination.
StartsAlone ==
    \A c \in Configs : \A p \in Ids : \A w \in c.profile[p].waits :
        c.profile[p].role # "checker" /\ w.type = "ACTIVATION" =>
            w.id = p /\ \A v \in c.profile[p].waits : v.type # "TERMINATION"

\* Masters and delays follow masters and delays that are described.
AfterSenders ==
    \A c \in Configs : \A p, q \in Ids :
        c.profile[p].role # "checker" /\ Event("TERMINATION", q) \in c.profile[p].waits =>
            c.profile[q].role # "checker" /\ \E f \in DOMAIN c.files : q \in ToSet(c.files[f])

-----------------------------------------------------------------------------
Calls ==
    [op : {"emit"}, type : Types, profile : Ids]
    \cup [op : {"notify"}, event : Events, to : SUBSET Ids]
    \cup [op : {"configure", "reset", "answered"}, profile : Ids]
    \cup [op : {"check"}, kind : {"send", "receive"}, to : SUBSET Ids]
    \cup [op : {"walk"}, at : Nat \ {0}]
    \cup [op : {"streams"}, left : SUBSET Ids]
    \cup {Cache}

(* The values of the variables. *)
TypeOK ==
    /\ conf \in Configs /\ owner \in [Ids -> Masters]
    /\ time \in Nat /\ due \in Nat \cup {Never} /\ plays \in Nat
    /\ nextTimes \subseteq Nat /\ locked \in BOOLEAN
    /\ waited \in [Ids -> SUBSET Events]
    /\ waitEventMap \subseteq Subscriptions
    /\ activeList \in Seq(Ids) /\ todo \in Seq(Calls)
    /\ emitted \in [Ids -> [Categories -> [type : Types \cup {"NONE"}, time : Nat]]]
    /\ nonTerminated \in [Masters -> Int]
    /\ {started, terminated, halted} \subseteq [Ids -> BOOLEAN]
    /\ {startTime, sent, waitedResponse, discards} \subseteq [Ids -> Nat]
    /\ ot \in [Ids -> Int] /\ \A p \in Ids : Of(p).role = "master" => ot[p] \in Nat
    /\ streamCache \in [Ids -> [nodes : Seq(Ids), leaves : SUBSET Ids]]
    /\ activeStreams \subseteq Ids

InProgress == {todo[i] : i \in DOMAIN todo}

Configured(p) == On("configure", p) \notin InProgress /\ \E f \in DOMAIN conf.files : p \in ToSet(conf.files[f])

\* An event is on its way to a profile: its subscription is there, or its
\* delivery has begun and not reached it.
OnItsWay(w, p) ==
    \/ Subscription(w, p) \in waitEventMap
    \/ \E c \in InProgress : /\ c.op = "notify" /\ p \in c.to
                             /\ c.event = w \/ c.event = Event("TERMINATION", w.id)

(* EventManager and TrafficProfileManager keep two accounts of who waits for *)
(* what, each changed in the middle of the other's deliveries: an event that *)
(* a profile awaits is always subscribed to, or being delivered, else the    *)
(* profile would wait for ever.                                              *)
NoLostWait == \A p \in Ids : \A w \in waited[p] : OnItsWay(w, p)

(* A master's count of profiles that are not terminated, which tells whether *)
(* the master is (isTerminated), is the number of its profiles that have not *)
(* announced their termination, whatever streams were reset.                 *)
TerminationCount ==
    \A m \in Masters :
        nonTerminated[m] = Cardinality({p \in Ids :
            /\ Configured(p) /\ Of(p).owner = m
            /\ ~terminated[p] \/ Emit("TERMINATION", p) \in InProgress})

(* The outstanding transactions of a profile are the answers the memory owes *)
(* it, also after its stream was reset: no answer of an earlier play meets a *)
(* profile that has none outstanding.  Its checkers count the same, once     *)
(* they have recorded the packet.                                            *)
OutstandingOwed ==
    \A p \in Ids :
        /\ Of(p).role = "master" => ot[p] = waitedResponse[p]
        /\ Quiet /\ Of(p).role = "checker" /\ Cardinality(Of(p).watches) = 1 =>
              LET m == CHOOSE q \in Of(p).watches : TRUE
              IN Of(m).role = "master" /\ ~Of(m).posted => ot[p] = ot[m]

(* A stream is declared terminated by its leaves alone, as they were when it *)
(* was cached: by then each of its profiles has terminated, and the memory   *)
(* owes its masters nothing.                                                 *)
StreamComplete ==
    \A r \in Ids : Quiet /\ streamCache[r].nodes # <<>> /\ StreamTerminated(r) =>
        \A p \in ToSet(streamCache[r].nodes) :
            terminated[p] /\ (Of(p).role = "master" => ot[p] = 0)

(* What ends and what is outstanding is counted alike by all who count it:   *)
(* the masters, the profiles, their checkers, the memory and the streams,    *)
(* over any order of answers, terminations and resets.                       *)
CountsAgree == TerminationCount /\ OutstandingOwed /\ StreamComplete

(* A master that starts and stops with a partner's status is halted exactly  *)
(* while the last status the partner announced is that it is locked, for as  *)
(* long as neither has terminated.                                           *)
HaltFollowsPartner ==
    \A p, q \in Ids :
        /\ Quiet /\ Event("PROFILE_LOCKED", q) \in Of(p).waits
        /\ Configured(p) /\ ~terminated[p] /\ ~terminated[q]
        => halted[p] = (emitted[q]["SEND_STATUS"].type = "PROFILE_LOCKED")

(* The adapter stops the simulation when no profile was locked, no time was  *)
(* given to ask again and no answer is awaited: all masters and delays have  *)
(* then terminated, or were reset after they had and have not begun again.   *)
ExitMeansDone ==
    Quiet /\ due = Never /\ ~locked /\ (\A p \in Ids : waitedResponse[p] + discards[p] = 0)
    => \A p \in Ids : Configured(p) /\ Of(p).role # "checker" =>
          terminated[p] \/ (conf.autoReset /\ ~started[p])

(* Nobody waits for an update that is not scheduled: when none is, and the   *)
(* memory owes no answer, each listed profile that sends has terminated or   *)
(* waits for the activation or termination of another.                       *)
NoStall ==
    Quiet /\ due = Never /\ (\A p \in Ids : waitedResponse[p] = 0) =>
        \A p \in ToSet(activeList) :
            Of(p).role = "checker" \/ terminated[p] \/ Waiting(waited[p], "PROFILE")

(* Nothing is left behind: no profile is halted by a partner that runs, none *)
(* waits for an update that is not scheduled, and the simulation ends only   *)
(* when all is done.                                                         *)
NothingLeftBehind == HaltFollowsPartner /\ NoStall /\ ExitMeansDone

P == INSTANCE Precedence WITH
        after <- [p \in Ids |-> {q \in Ids : Event("TERMINATION", q) \in Of(p).waits}],
        working <- {p \in Ids : Of(p).role # "checker" /\ sent[p] > 0 /\ ~terminated[p]},
        done <- {p \in Ids : terminated[p]}

(* The chain of subscriptions, deliveries, polls and resets implements       *)
(* waiting for termination: no profile sends, or terminates, before every    *)
(* profile it waits for has terminated.                                      *)
ImplementsPrecedence == P!Spec

(* A stream that was activated is eventually found terminated.               *)
StreamEnds == \A r \in Ids : r \in activeStreams ~> r \notin activeStreams
=============================================================================
