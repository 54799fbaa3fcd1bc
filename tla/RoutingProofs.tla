--------------------------- MODULE RoutingProofs ---------------------------
(***************************************************************************)
(* Theorems about routing for all masters, slaves and configurations, any  *)
(* number of requests and any time.                                        *)
(***************************************************************************)
EXTENDS Routing, FiniteSetTheorems, SequenceTheorems, WellFoundedInduction, TLAPS

(***************************************************************************)
(* The inductive invariant.                                                *)
(***************************************************************************)

Held(s) == {responses[s][i].uid : i \in DOMAIN responses[s]}
Retrying == {e \in events \cup handling : e.kind = "PACKET_REQUEST_RETRY"}
Walked == ToSet(conf.order)

\* Where a request may be: refused, in one slave, or answered.
Places ==
    /\ DOMAIN waitedRequest \subseteq 1..uid /\ answered \subseteq 1..uid
    /\ answered \cap DOMAIN waitedRequest = {}
    /\ buffer = {u \in DOMAIN waitedRequest : origin[u] # External}
    /\ \A s \in Slaves : Held(s) \subseteq 1..uid \ (answered \cup DOMAIN waitedRequest)
    /\ \A s, r \in Slaves : \A i \in DOMAIN responses[s], j \in DOMAIN responses[r] :
          responses[s][i].uid = responses[r][j].uid => s = r /\ i = j
    /\ \A u \in 1..uid : u \in answered \cup DOMAIN waitedRequest \/ \E s \in Slaves : u \in Held(s)

\* Every buffered request has one event to retry it.
OneRetry ==
    /\ {e.id : e \in Retrying} = buffer
    /\ \A e, f \in Retrying : e.id = f.id => e = f
    /\ \A e \in events \cap handling : e.kind # "PACKET_REQUEST_RETRY"

Counts ==
    /\ AnswersOwned
    /\ \A m \in Masters : sent[m] <= conf.toSend[m]
    /\ \A m \in conf.posted : ot[m] = 0
    /\ DOMAIN waitedResponse \subseteq 1..uid
    /\ conf.loop => \A u \in 1..uid : origin[u] # External

\* Only slaves that are walked hold requests, or are to hold them.
OnTheWalk ==
    /\ \A s \in Slaves : responses[s] # <<>> => s \in Walked
    /\ \A u \in DOMAIN waitedRequest : waitedRequest[u] \in Walked
    /\ running => conf.loop /\ at > 0
    /\ conf.loop /\ at > 0 => running
    /\ at = 0 => handling = {}

Ahead(x) == \E j \in at..Len(conf.order) : conf.order[j] = x

\* In a walk of the loop: what has been passed and is not done has noted a time.
Noticed ==
    running =>
        /\ \A s \in Slaves : responses[s] # <<>> => nextTimes # {} \/ Ahead(s)
        /\ \A m \in Masters : Ended(m) \/ ot[m] > 0 \/ nextTimes # {} \/ Ahead(m)

IInv ==
    /\ TypeOK /\ Places /\ OneRetry /\ Counts /\ OnTheWalk /\ Noticed /\ LoopLeavesNothing

(***************************************************************************)
(* The configuration, and the smallest of some times.                      *)
(***************************************************************************)

LEMMA ConfType ==
    ASSUME conf \in Configs
    PROVE  /\ conf.order \in Seq(Masters \cup Slaves)
           /\ conf.toSend \in [Masters -> Nat]
           /\ conf.maxOt \in [Masters \cup Slaves -> Nat \ {0}]
           /\ conf.posted \subseteq Masters /\ conf.external \subseteq Slaves
           /\ conf.to \in [Masters -> SUBSET Slaves]
           /\ conf.latency \in [Slaves -> Nat]
           /\ conf.loop \in BOOLEAN
           /\ \A m \in Masters : conf.to[m] \subseteq Walked
           /\ conf.external \subseteq Walked
           /\ \A m \in Masters : conf.toSend[m] > 0 => m \in Walked
<1>1. conf \in Configuration
    BY ConfigsAssumption
<1>2. /\ conf.external \subseteq ToSet(conf.order)
      /\ \A m \in Masters : /\ conf.to[m] \subseteq ToSet(conf.order)
                            /\ conf.toSend[m] > 0 => m \in ToSet(conf.order)
    BY ConfigsAssumption
<1> QED
    BY <1>1, <1>2 DEF Configuration, Walked

LEMMA MinSpec ==
    ASSUME NEW T \in SUBSET Nat, T # {}
    PROVE  Min(T) \in T /\ \A y \in T : Min(T) <= y
<1>1. PICK x \in T : \A y \in T : ~(<<y, x>> \in OpToRel(<, Nat))
    BY NatLessThanWellFounded, WFMin
<1>2. \A y \in T : ~(y < x)
    BY <1>1 DEF OpToRel
<1>3. \A y \in T : x <= y
    BY <1>2
<1> QED
    BY <1>3 DEF Min

(***************************************************************************)
(* The answers of a slave: a sequence that grows at its end.               *)
(***************************************************************************)
Answers == [uid : Uids, time : Nat]

LEMMA FirstOf ==
    ASSUME NEW q \in Seq(Answers)
    PROVE  /\ Len(q) \in Nat /\ DOMAIN q = 1 .. Len(q)
           /\ \A i \in DOMAIN q : q[i] \in Answers
           /\ q # <<>> <=> Len(q) > 0
           /\ q # <<>> => 1 \in DOMAIN q /\ q[1] \in Answers
<1>1. Len(q) \in Nat /\ DOMAIN q = 1 .. Len(q) /\ \A i \in DOMAIN q : q[i] \in Answers
    BY LenProperties, ElementOfSeq
<1>2. q # <<>> <=> Len(q) > 0
    BY <1>1, EmptySeq
<1> QED
    BY <1>1, <1>2

LEMMA Appended ==
    ASSUME NEW q \in Seq(Answers), NEW e \in Answers
    PROVE  /\ Append(q, e) \in Seq(Answers)
           /\ Len(Append(q, e)) = Len(q) + 1
           /\ DOMAIN Append(q, e) = 1 .. Len(q) + 1
           /\ Append(q, e) # <<>>
           /\ Append(q, e)[Len(q) + 1] = e
           /\ \A i \in DOMAIN q : Append(q, e)[i] = q[i]
           /\ Append(q, e)[1] = IF q = <<>> THEN e ELSE q[1]
<1>1. Len(q) \in Nat /\ DOMAIN q = 1 .. Len(q) /\ (q # <<>> => 1 \in DOMAIN q) /\ (q # <<>> <=> Len(q) > 0)
    BY FirstOf
<1>2. /\ Append(q, e) \in Seq(Answers) /\ Len(Append(q, e)) = Len(q) + 1
      /\ Append(q, e)[Len(q) + 1] = e
      /\ \A i \in 1 .. Len(q) : Append(q, e)[i] = q[i]
    BY <1>1
<1>3. DOMAIN Append(q, e) = 1 .. Len(q) + 1
    BY <1>2, FirstOf
<1> QED
    BY <1>1, <1>2, <1>3, FirstOf

LEMMA Removed ==
    ASSUME NEW q \in Seq(Answers), q # <<>>
    PROVE  /\ Tail(q) \in Seq(Answers)
           /\ Len(q) \in Nat /\ Len(Tail(q)) = Len(q) - 1
           /\ DOMAIN Tail(q) = 1 .. Len(q) - 1
           /\ \A i \in DOMAIN Tail(q) : Tail(q)[i] = q[i + 1]
<1>1. /\ Tail(q) \in Seq(Answers) /\ Len(Tail(q)) = Len(q) - 1
      /\ \A i \in 1 .. Len(Tail(q)) : Tail(q)[i] = q[i + 1]
    BY HeadTailProperties
<1> QED
    BY <1>1, FirstOf

(***************************************************************************)
(* Types.                                                                  *)
(***************************************************************************)

\* A request that a slave takes, or refuses, leaves the tables in shape.
LEMMA AttemptType ==
    ASSUME TypeOK, NEW u \in Uids, NEW s \in Slaves, NEW internal \in BOOLEAN,
           (Takes(u, s) /\ UNCHANGED events) \/ Refuses(u, s, internal)
    PROVE  /\ events' \subseteq events \cup {e \in AllEvents : e.kind = "PACKET_REQUEST_RETRY"}
           /\ behind' \subseteq AllEvents
           /\ buffer' \in SUBSET Uids /\ nextTimes' \subseteq Nat
           /\ DOMAIN waitedRequest' \in SUBSET Uids
           /\ \A x \in DOMAIN waitedRequest' : waitedRequest'[x] \in Slaves
           /\ responses' \in [Slaves -> Seq([uid : Uids, time : Nat])]
<1>1. u \in Nat /\ Uids \subseteq Nat
    BY BoundAssumption DEF Uids
<1>2. CASE Takes(u, s) /\ UNCHANGED events
    <2> DEFINE new == [uid |-> u, time |-> time + conf.latency[s]]
    <2>1. new \in Answers /\ responses[s] \in Seq(Answers)
        <3>1. conf.latency[s] \in Nat /\ time \in Nat
            BY ConfType DEF TypeOK
        <3>2. time + conf.latency[s] \in Nat
            BY <3>1
        <3>3. new \in Answers
            BY <3>2 DEF Answers
        <3> QED
            BY <3>3 DEF TypeOK, Answers
    <2>2. /\ Append(responses[s], new) \in Seq(Answers)
          /\ Append(responses[s], new)[1] \in Answers
        BY <2>1, Appended, FirstOf
    <2>3. responses' \in [Slaves -> Seq(Answers)] /\ nextTimes' \subseteq Nat
        BY <1>2, <2>2 DEF Takes, TypeOK, Noted, Answers
    <2> QED
        BY <1>2, <2>3 DEF Takes, TypeOK, Settled, Without, Entries, Answers
<1>3. CASE Refuses(u, s, internal)
    <2>1. PICK next \in FifoNext(s) :
            LET t == RetryTime(s, next) IN
            /\ nextTimes' = Noted(t)
            /\ waitedRequest' = With(waitedRequest, u, s)
            /\ IF internal
               THEN buffer' = buffer \cup {u} /\ events' = Retries(u, t)
               ELSE UNCHANGED <<buffer, events>>
            /\ behind' = IF internal THEN LateRetries(u, t) ELSE behind
            /\ UNCHANGED responses
        BY <1>3 DEF Refuses
    <2>2. next \in Nat
        BY BoundAssumption DEF FifoNext, TypeOK
    <2>3. RetryTime(s, next) \in Nat
        <3>1. responses[s] \in Seq(Answers)
            BY DEF TypeOK, Answers
        <3>2. responses[s] # <<>> => responses[s][1].time \in Nat
            BY <3>1, FirstOf DEF Answers
        <3> QED
            BY <2>2, <3>2 DEF RetryTime
    <2>4. Retry(u, RetryTime(s, next)) \in {e \in AllEvents : e.kind = "PACKET_REQUEST_RETRY"}
        BY <2>3, <1>1 DEF Retry, AllEvents
    <2>5. events' \subseteq events \cup {e \in AllEvents : e.kind = "PACKET_REQUEST_RETRY"}
        BY <2>1, <2>4 DEF Retries
    <2>6. behind' \subseteq AllEvents
        BY <2>1, <2>4 DEF LateRetries, TypeOK
    <2> QED
        BY <2>1, <2>3, <2>5, <2>6 DEF TypeOK, Noted, With, Entries
<1> QED
    BY <1>2, <1>3

LEMMA MaxOfTwo ==
    ASSUME NEW a \in Int, NEW b \in Int
    PROVE  Max({a, b}) = IF a >= b THEN a ELSE b
    BY DEF Max

\* The requests of a master that are not answered.
Owed(m) == {u \in 1..uid \ answered : origin[u] = m}

LEMMA OwedFinite ==
    ASSUME TypeOK, NEW m
    PROVE  IsFiniteSet(Owed(m))
<1>1. IsFiniteSet(1 .. uid) /\ Owed(m) \in SUBSET (1 .. uid)
    BY FS_Interval DEF TypeOK, Owed
<1> QED
    BY <1>1, FS_Subset

\* An answer held for a master is one of those it counts.
LEMMA OwedAnswer ==
    ASSUME TypeOK, Places, Counts, NEW s \in Slaves, responses[s] # <<>>,
           OwnerOf(responses[s][1].uid) \in Masters
    PROVE  LET u == responses[s][1].uid
               m == OwnerOf(u)
           IN /\ u \in Owed(m) /\ m \notin conf.posted /\ origin[u] = m
              /\ ot[m] = Cardinality(Owed(m)) /\ ot[m] > 0
<1> DEFINE u == responses[s][1].uid
           m == OwnerOf(u)
<1>1. u \in 1 .. uid \ answered
    BY FirstOf DEF TypeOK, Answers, Places, Held
<1>2. u \in DOMAIN waitedResponse /\ waitedResponse[u] = m
    BY NamesAssumption DEF OwnerOf, Entries
<1>3. origin[u] = m /\ m \notin conf.posted
    BY <1>1, <1>2, NamesAssumption DEF Counts, AnswersOwned
<1>4. ot[m] = Cardinality(Owed(m)) /\ u \in Owed(m)
    BY <1>1, <1>3 DEF Counts, AnswersOwned, Owed
<1>5. Cardinality(Owed(m)) \in Nat /\ Cardinality(Owed(m)) # 0
    BY <1>4, OwedFinite, FS_CardinalityType, FS_EmptySet
<1> QED
    BY <1>1, <1>3, <1>4, <1>5

LEMMA InitType ==
    ASSUME Init PROVE TypeOK
<1>1. /\ conf \in Configs /\ time \in Nat /\ uid \in 0 .. MaxUid
      /\ (events \cup handling \cup behind) \subseteq AllEvents
      /\ {buffer, answered, DOMAIN waitedRequest, DOMAIN waitedResponse} \subseteq SUBSET Uids
    BY BoundAssumption DEF Init
<1>2. /\ \A u \in DOMAIN waitedRequest : waitedRequest[u] \in Slaves
      /\ \A u \in DOMAIN waitedResponse : waitedResponse[u] \in Masters \cup {Invalid}
      /\ DOMAIN origin = 1..uid /\ \A u \in 1..uid : origin[u] \in Owners
    BY DEF Init
<1>3. /\ responses \in [Slaves -> Seq([uid : Uids, time : Nat])]
      /\ sent \in [Masters -> Nat] /\ ot \in [Masters -> Nat]
      /\ nextTimes \subseteq Nat /\ at \in Nat /\ running \in BOOLEAN
    BY ConfType DEF Init
<1> QED
    BY <1>1, <1>2, <1>3 DEF TypeOK

\* A retried request has an entry, which OneRetry and Places say.
LEMMA TypeNext ==
    ASSUME TypeOK, Places, OneRetry, Counts, [Next]_vars
    PROVE  TypeOK'
<1>1. ASSUME NEW e \in handling, Handle(e)
      PROVE  TypeOK'
    <2>1. CASE e.kind = "TICK"
        BY <1>1, <2>1 DEF Handle, tables, TypeOK
    <2>2. CASE e.kind # "TICK"
        <3>1. e \in Retrying
            BY <2>2 DEF TypeOK, AllEvents, Retrying
        <3>2. e.id \in DOMAIN waitedRequest
            BY <3>1 DEF OneRetry, Places
        <3>3. e.id \in Uids /\ waitedRequest[e.id] \in Slaves
            BY <3>2 DEF TypeOK
        <3>4. \/ Takes(e.id, waitedRequest[e.id]) /\ UNCHANGED events
              \/ Refuses(e.id, waitedRequest[e.id], TRUE)
            BY <1>1, <2>2 DEF Handle
        <3>5. /\ events' \subseteq events \cup {x \in AllEvents : x.kind = "PACKET_REQUEST_RETRY"}
              /\ behind' \subseteq AllEvents
              /\ buffer' \in SUBSET Uids /\ nextTimes' \subseteq Nat
              /\ DOMAIN waitedRequest' \in SUBSET Uids
              /\ \A x \in DOMAIN waitedRequest' : waitedRequest'[x] \in Slaves
              /\ responses' \in [Slaves -> Seq([uid : Uids, time : Nat])]
            BY <3>3, <3>4, AttemptType
        <3>6. /\ handling' \subseteq handling /\ UNCHANGED waitedResponse
              /\ UNCHANGED <<conf, time, sent, ot, at, running, uid, origin, answered>>
            BY <1>1, <2>2 DEF Handle
        <3> QED
            BY <3>5, <3>6 DEF TypeOK
    <2> QED
        BY <2>1, <2>2
<1>2. CASE MasterSends
    <2> DEFINE m == Polled
               u == uid + 1
    <2>1. m \in Masters /\ u \in Uids /\ u \in Nat
        BY <1>2, BoundAssumption DEF MasterSends, Polls, Polled, Uids, TypeOK
    <2>2. PICK s \in conf.to[m] : \/ Takes(u, s) /\ UNCHANGED events
                                 \/ Refuses(u, s, TRUE)
        BY <1>2 DEF MasterSends
    <2>3. s \in Slaves
        BY <2>1, ConfType DEF TypeOK
    <2> HIDE DEF m, u
    <2>4. /\ events' \subseteq events \cup {x \in AllEvents : x.kind = "PACKET_REQUEST_RETRY"}
          /\ behind' \subseteq AllEvents
          /\ buffer' \in SUBSET Uids /\ nextTimes' \subseteq Nat
          /\ DOMAIN waitedRequest' \in SUBSET Uids
          /\ \A x \in DOMAIN waitedRequest' : waitedRequest'[x] \in Slaves
          /\ responses' \in [Slaves -> Seq([uid : Uids, time : Nat])]
        BY <2>1, <2>2, <2>3, AttemptType
    <2>5. /\ uid' = u /\ origin' = With(origin, u, m)
          /\ sent' = [sent EXCEPT ![m] = @ + 1]
          /\ ot' = IF m \in conf.posted THEN ot ELSE [ot EXCEPT ![m] = @ + 1]
          /\ waitedResponse' = With(waitedResponse, u, Awaited(m))
          /\ UNCHANGED <<conf, time, at, handling, running, answered>>
        BY <1>2 DEF MasterSends, walk, m, u
    <2>6. uid' \in 0 .. MaxUid /\ 1 .. uid' = 1 .. uid \cup {u}
        BY <2>1, <2>5 DEF Uids, TypeOK, u
    <2>7. DOMAIN origin' = 1 .. uid' /\ \A x \in 1 .. uid' : origin'[x] \in Owners
        BY <2>1, <2>5, <2>6 DEF With, Entries, Owners, TypeOK
    <2>8. /\ DOMAIN waitedResponse' \in SUBSET Uids
          /\ \A x \in DOMAIN waitedResponse' : waitedResponse'[x] \in Masters \cup {Invalid}
        BY <2>1, <2>5 DEF With, Entries, Awaited, TypeOK
    <2>9. sent' \in [Masters -> Nat] /\ ot' \in [Masters -> Nat]
        BY <2>1, <2>5 DEF TypeOK
    <2> QED
        BY <2>4, <2>5, <2>6, <2>7, <2>8, <2>9 DEF TypeOK
<1>3. CASE MasterWaits
    <2>1. nextTimes' \subseteq Nat /\ at' \in Nat
        <3>1. time \in Nat /\ at \in Nat /\ nextTimes \subseteq Nat
            BY DEF TypeOK
        <3>2. nextTimes' \in {nextTimes, nextTimes \cup {time + 1}} /\ at' = at + 1
            BY <1>3 DEF MasterWaits
        <3> QED
            BY <3>1, <3>2
    <2>2. UNCHANGED <<conf, time, events, behind, tables, responses, sent, ot, handling, running,
                      uid, origin, answered>>
        BY <1>3 DEF MasterWaits
    <2> QED
        BY <2>1, <2>2 DEF tables, TypeOK
<1>4. CASE SlaveSends
    <2> DEFINE s == Polled
    <2>1. s \in Slaves /\ responses[s] # <<>>
        BY <1>4 DEF SlaveSends, Polls, Polled, FirstDue
    <2>2. responses[s] \in Seq(Answers)
        BY <2>1 DEF TypeOK, Answers
    <2>3. responses[s][1] \in Answers /\ Tail(responses[s]) \in Seq(Answers)
        BY <2>1, <2>2, FirstOf, Removed
    <2> DEFINE u == responses[s][1].uid
               rest == Tail(responses[s])
               later == IF rest # <<>> /\ rest[1].time > time THEN {rest[1].time} ELSE {}
               m == OwnerOf(u)
    <2>4. later \subseteq Nat
        BY <2>3, FirstOf DEF Answers
    <2> HIDE DEF s
    <2>5. /\ responses' = [responses EXCEPT ![s] = rest]
          /\ answered' = answered \cup {u}
          /\ IF m \in Masters
             THEN /\ ot' = [ot EXCEPT ![m] = @ - 1]
                  /\ waitedResponse' = Without(waitedResponse, u)
                  /\ nextTimes' = later \cup Noted(ReceiveNext(m))
             ELSE /\ nextTimes' = nextTimes \cup later
                  /\ UNCHANGED <<ot, waitedResponse>>
          /\ UNCHANGED <<conf, time, events, behind, buffer, waitedRequest, sent, walk, uid, origin>>
        BY <1>4 DEF SlaveSends, s
    <2>6. responses' \in [Slaves -> Seq([uid : Uids, time : Nat])] /\ answered' \in SUBSET Uids
        BY <2>1, <2>3, <2>5 DEF TypeOK, Answers
    <2> HIDE DEF u, rest, later
    <2>7. /\ DOMAIN waitedResponse' \in SUBSET Uids
          /\ \A x \in DOMAIN waitedResponse' : waitedResponse'[x] \in Masters \cup {Invalid}
        BY <2>5 DEF Without, Entries, TypeOK
    <2>8. nextTimes' \subseteq Nat
        <3>1. Noted(ReceiveNext(m)) \subseteq Nat
            BY DEF Noted, ReceiveNext, TypeOK
        <3> QED
            BY <2>4, <2>5, <3>1 DEF TypeOK
    <2>9. ot' \in [Masters -> Nat]
        <3>1. m \in Masters => ot[m] > 0
            BY <2>1, OwedAnswer DEF u, s
        <3>2. ot \in [Masters -> Nat]
            BY DEF TypeOK
        <3>3. m \in Masters => ot[m] - 1 \in Nat
            BY <3>1, <3>2
        <3>4. ot' = (IF m \in Masters THEN [ot EXCEPT ![m] = @ - 1] ELSE ot)
            BY <2>5
        <3> HIDE DEF m
        <3> QED
            BY <3>2, <3>3, <3>4
    <2> QED
        BY <2>5, <2>6, <2>7, <2>8, <2>9 DEF walk, TypeOK
<1>5. CASE SlaveWaits
    <2>1. Polled \in Slaves
        BY <1>5 DEF SlaveWaits, Polls, Polled
    <2>2. responses[Polled] # <<>> => responses[Polled][1].time \in Nat
        BY <2>1, FirstOf DEF TypeOK, Answers
    <2>3. nextTimes' \subseteq Nat /\ at' \in Nat
        <3>1. at \in Nat /\ nextTimes \subseteq Nat
            BY DEF TypeOK
        <3>2. /\ nextTimes' = nextTimes \cup
                     (IF responses[Polled] # <<>> THEN {responses[Polled][1].time} ELSE {})
              /\ at' = at + 1
            BY <1>5 DEF SlaveWaits
        <3>3. at' \in Nat
            BY <3>1, <3>2
        <3>4. (IF responses[Polled] # <<>> THEN {responses[Polled][1].time} ELSE {}) \subseteq Nat
            BY <2>2
        <3> QED
            BY <3>1, <3>2, <3>3, <3>4
    <2>4. UNCHANGED <<conf, time, events, behind, tables, responses, sent, ot, handling, running,
                      uid, origin, answered>>
        BY <1>5 DEF SlaveWaits
    <2> QED
        BY <2>3, <2>4 DEF tables, TypeOK
<1>6. CASE LoopTick
    <2> DEFINE pending == events \cup TickOf(nextTimes)
    <2>1. pending \subseteq AllEvents
        <3>1. nextTimes # {} => Min(nextTimes) \in Nat
            BY MinSpec DEF TypeOK
        <3> QED
            BY <3>1 DEF TickOf, Tick, AllEvents, TypeOK
    <2>2. /\ time' \in Nat /\ (events' \cup handling' \cup behind') \subseteq AllEvents
          /\ nextTimes' \subseteq Nat /\ at' \in Nat /\ running' \in BOOLEAN
        <3>1. CASE pending = {}
            <4>1. running' = FALSE /\ at' = 0 /\ UNCHANGED <<time, events, behind, nextTimes, handling>>
                BY <1>6, <3>1 DEF LoopTick
            <4> QED
                BY <4>1 DEF TypeOK
        <3>2. CASE pending # {}
            <4>1. PICK e \in pending, due \in SUBSET pending :
                    /\ time' = SetTime(e.time)
                    /\ handling' = due /\ events' = pending \ due
                    /\ behind' = {} /\ nextTimes' = {} /\ at' = 1
                    /\ UNCHANGED running
                BY <1>6, <3>2 DEF LoopTick
            <4>2. SetTime(e.time) \in Nat
                BY <2>1 DEF AllEvents, SetTime, TypeOK
            <4> HIDE DEF pending
            <4> QED
                BY <2>1, <4>1, <4>2 DEF TypeOK
        <3> QED
            BY <3>1, <3>2
    <2>3. UNCHANGED <<conf, tables, responses, sent, ot, uid, origin, answered>>
        BY <1>6 DEF LoopTick
    <2> QED
        BY <2>2, <2>3 DEF tables, TypeOK
<1>7. CASE AdapterReturns
    BY <1>7 DEF AdapterReturns, tables, TypeOK
<1>8. CASE AdapterSend
    <2>1. PICK t \in time..MaxTime, due \in SUBSET events :
            time' = t /\ handling' = due /\ events' = events \ due
        BY <1>8 DEF AdapterSend
    <2>2. time' \in Nat /\ (events' \cup handling') \subseteq AllEvents
        BY <2>1, BoundAssumption DEF TypeOK
    <2>3. /\ behind' = {} /\ nextTimes' = {} /\ at' = 1
          /\ UNCHANGED <<conf, tables, responses, sent, ot, running, uid, origin, answered>>
        BY <1>8 DEF AdapterSend
    <2> QED
        BY <2>2, <2>3 DEF tables, TypeOK
<1>9. CASE AdapterRequest
    <2>1. PICK u \in {x \in Entries(waitedRequest) : origin[x] = External}
                     \cup (IF uid < MaxUid THEN {uid + 1} ELSE {}) :
            /\ uid' = Max({uid, u})
            /\ origin' = With(origin, u, External)
            /\ \E s \in IF u <= uid THEN {waitedRequest[u]} ELSE conf.external :
                  \/ Takes(u, s) /\ UNCHANGED events
                  \/ Refuses(u, s, FALSE)
        BY <1>9 DEF AdapterRequest
    <2>2. u \in Uids /\ u \in 1 .. uid + 1
        BY <2>1, BoundAssumption DEF Entries, Uids, TypeOK, Places
    <2>3. PICK s \in IF u <= uid THEN {waitedRequest[u]} ELSE conf.external :
            \/ Takes(u, s) /\ UNCHANGED events
            \/ Refuses(u, s, FALSE)
        BY <2>1
    <2>4. s \in Slaves
        BY <2>1, <2>2, ConfType DEF Entries, TypeOK
    <2>5. /\ events' \subseteq events \cup {x \in AllEvents : x.kind = "PACKET_REQUEST_RETRY"}
          /\ behind' \subseteq AllEvents
          /\ buffer' \in SUBSET Uids /\ nextTimes' \subseteq Nat
          /\ DOMAIN waitedRequest' \in SUBSET Uids
          /\ \A x \in DOMAIN waitedRequest' : waitedRequest'[x] \in Slaves
          /\ responses' \in [Slaves -> Seq([uid : Uids, time : Nat])]
        BY <2>2, <2>3, <2>4, AttemptType
    <2>6. uid' \in 0 .. MaxUid /\ 1 .. uid' = 1 .. uid \cup {u}
        <3>1. uid \in 0 .. MaxUid /\ u \in 1 .. MaxUid /\ u <= uid + 1 /\ MaxUid \in Nat
            BY <2>2, BoundAssumption DEF Uids, TypeOK
        <3>2. uid' = IF uid >= u THEN uid ELSE u
            BY <2>1, <3>1, MaxOfTwo
        <3> QED
            BY <3>1, <3>2
    <2>7. DOMAIN origin' = 1 .. uid' /\ \A x \in 1 .. uid' : origin'[x] \in Owners
        BY <2>1, <2>6 DEF With, Entries, Owners, TypeOK
    <2>8. UNCHANGED <<conf, time, waitedResponse, sent, ot, walk, answered>>
        BY <1>9 DEF AdapterRequest
    <2> QED
        BY <2>5, <2>6, <2>7, <2>8 DEF walk, TypeOK
<1>10. CASE UNCHANGED vars
    BY <1>10 DEF vars, tables, walk, TypeOK
<1> QED
    BY <1>1, <1>2, <1>3, <1>4, <1>5, <1>6, <1>7, <1>8, <1>9, <1>10 DEF Next, Send

(***************************************************************************)
(* Attempts: a request meets a slave, for the first time or again.         *)
(***************************************************************************)

\* What the three steps that make an attempt have in common: a retry that is
\* being handled is consumed, and a master that sent is the one being walked.
Attempt(u, s, internal) ==
    /\ u \in Uids /\ s \in Slaves /\ internal \in BOOLEAN /\ s \in Walked
    /\ \/ u \in DOMAIN waitedRequest /\ uid' = uid
       \/ u = uid + 1 /\ uid' = u
    /\ \A x \in 1..uid : origin'[x] = origin[x]
    /\ internal <=> origin'[u] # External
    /\ (Takes(u, s) /\ UNCHANGED events) \/ Refuses(u, s, internal)
    /\ handling' = handling \ {e \in Retrying : e.id = u}
    /\ UNCHANGED <<conf, time, at, running, answered>>

LEMMA HeldAfter ==
    ASSUME TypeOK, NEW u \in Uids, NEW s \in Slaves, Takes(u, s)
    PROVE  /\ Len(responses[s]) \in Nat /\ DOMAIN responses[s] = 1 .. Len(responses[s])
           /\ \A r \in Slaves \ {s} : responses'[r] = responses[r] /\ Held(r)' = Held(r)
           /\ Held(s)' = Held(s) \cup {u}
           /\ DOMAIN responses'[s] = 1 .. Len(responses[s]) + 1
           /\ responses'[s][Len(responses[s]) + 1].uid = u
           /\ \A i \in DOMAIN responses[s] : responses'[s][i] = responses[s][i]
           /\ nextTimes \subseteq nextTimes'
           /\ responses[s] = <<>> => nextTimes' # {}
           /\ Len(responses[s]) < conf.maxOt[s]
<1> DEFINE new == [uid |-> u, time |-> time + conf.latency[s]]
           n == Len(responses[s])
<1>1. new \in Answers /\ responses[s] \in Seq(Answers)
    <2>1. conf.latency[s] \in Nat /\ time \in Nat
        BY ConfType DEF TypeOK
    <2>2. time + conf.latency[s] \in Nat
        BY <2>1
    <2>3. new \in Answers
        BY <2>2 DEF Answers
    <2> QED
        BY <2>3 DEF TypeOK, Answers
<1>2. /\ responses' = [responses EXCEPT ![s] = Append(responses[s], new)]
      /\ nextTimes' = Noted(Append(responses[s], new)[1].time)
      /\ n < conf.maxOt[s]
    BY DEF Takes, HasSlot
<1>3. responses'[s] = Append(responses[s], new)
    BY <1>2 DEF TypeOK
<1>4. n \in Nat /\ DOMAIN responses[s] = 1 .. n
    BY <1>1, FirstOf
<1>5. /\ DOMAIN responses'[s] = 1 .. n + 1
      /\ responses'[s][n + 1] = new
      /\ \A i \in DOMAIN responses[s] : responses'[s][i] = responses[s][i]
    BY <1>1, <1>3, Appended
<1>6. \A r \in Slaves \ {s} : responses'[r] = responses[r] /\ Held(r)' = Held(r)
    BY <1>2 DEF TypeOK, Held
<1>7. new.uid = u
    OBVIOUS
<1> HIDE DEF new, n
<1>8. Held(s)' = Held(s) \cup {u}
    <2>1. 1 .. n + 1 = (1 .. n) \cup {n + 1}
        BY <1>4
    <2> QED
        BY <1>4, <1>5, <1>7, <2>1 DEF Held
<1>9. nextTimes \subseteq nextTimes'
    BY <1>2 DEF Noted
<1>10. responses[s] = <<>> => nextTimes' # {}
    <2>1. responses[s] = <<>> => Append(responses[s], new)[1] = new
        BY <1>1, Appended
    <2>2. new.time >= time
        BY ConfType DEF TypeOK, new
    <2> QED
        BY <1>2, <2>1, <2>2 DEF Noted
<1> QED
    BY <1>2, <1>4, <1>5, <1>6, <1>7, <1>8, <1>9, <1>10 DEF n

LEMMA RefusedAfter ==
    ASSUME TypeOK, NEW u \in Uids, NEW s \in Slaves, NEW internal, Refuses(u, s, internal)
    PROVE  /\ UNCHANGED responses
           /\ DOMAIN waitedRequest' = DOMAIN waitedRequest \cup {u}
           /\ waitedRequest'[u] = s
           /\ \A x \in DOMAIN waitedRequest \ {u} : waitedRequest'[x] = waitedRequest[x]
           /\ nextTimes \subseteq nextTimes'
           /\ IF internal
              THEN buffer' = buffer \cup {u} /\ \E t : events' = events \cup {Retry(u, t)}
              ELSE UNCHANGED <<buffer, events>>
    BY DEF Refuses, With, Entries, Noted, Retries

LEMMA AttemptPlaces ==
    ASSUME TypeOK, Places, NEW u, NEW s, NEW internal, Attempt(u, s, internal)
    PROVE  Places'
<1>1. /\ u \in Uids /\ s \in Slaves /\ answered' = answered
      /\ uid \in Nat /\ uid' \in Nat
      /\ \A x \in 1 .. uid : origin'[x] = origin[x]
      /\ internal <=> origin'[u] # External
    BY BoundAssumption DEF Attempt, TypeOK, Uids
<1>2. 1 .. uid' = 1 .. uid \cup {u}
    BY <1>1 DEF Attempt, Places
<1>3. u \notin answered /\ \A r \in Slaves : u \notin Held(r)
    BY <1>1 DEF Attempt, Places
<1>4. (u \in 1 .. uid /\ u \in DOMAIN waitedRequest) \/ u \notin 1 .. uid
    BY <1>1 DEF Attempt, Places
<1>5. CASE Takes(u, s)
    <2>1. DOMAIN waitedRequest' = DOMAIN waitedRequest \ {u} /\ buffer' = buffer \ {u}
        BY <1>5 DEF Takes, Settled, Without, Entries
    <2>2. /\ \A r \in Slaves \ {s} : responses'[r] = responses[r] /\ Held(r)' = Held(r)
          /\ Held(s)' = Held(s) \cup {u}
          /\ Len(responses[s]) \in Nat /\ DOMAIN responses[s] = 1 .. Len(responses[s])
          /\ DOMAIN responses'[s] = 1 .. Len(responses[s]) + 1
          /\ responses'[s][Len(responses[s]) + 1].uid = u
          /\ \A i \in DOMAIN responses[s] : responses'[s][i] = responses[s][i]
        BY <1>1, <1>5, HeldAfter
    <2>3. /\ DOMAIN waitedRequest' \subseteq 1 .. uid' /\ answered' \subseteq 1 .. uid'
          /\ answered' \cap DOMAIN waitedRequest' = {}
          /\ buffer' = {x \in DOMAIN waitedRequest' : origin'[x] # External}
        BY <1>1, <1>2, <2>1 DEF Places
    <2>4. \A r \in Slaves : Held(r)' \subseteq 1 .. uid' \ (answered' \cup DOMAIN waitedRequest')
        <3>1. TAKE r \in Slaves
        <3>2. Held(r) \subseteq 1 .. uid \ (answered \cup DOMAIN waitedRequest)
            BY DEF Places
        <3>3. Held(r)' \subseteq Held(r) \cup {u}
            BY <2>2
        <3> QED
            BY <1>1, <1>2, <1>3, <2>1, <3>2, <3>3
    <2>5. \A q, r \in Slaves : \A i \in DOMAIN responses'[q], j \in DOMAIN responses'[r] :
             responses'[q][i].uid = responses'[r][j].uid => q = r /\ i = j
        <3>1. \A q \in Slaves : \A i \in DOMAIN responses'[q] :
                \/ /\ i \in DOMAIN responses[q] /\ responses'[q][i] = responses[q][i]
                   /\ responses'[q][i].uid # u
                \/ q = s /\ i = Len(responses[s]) + 1 /\ responses'[q][i].uid = u
            <4>1. TAKE q \in Slaves
            <4>2. TAKE i \in DOMAIN responses'[q]
            <4>3. CASE q # s
                BY <1>3, <2>2, <4>3 DEF Held
            <4>4. CASE q = s
                <5>1. i \in DOMAIN responses[s] \/ i = Len(responses[s]) + 1
                    BY <2>2, <4>4
                <5> QED
                    BY <1>3, <2>2, <4>4, <5>1 DEF Held
            <4> QED
                BY <4>3, <4>4
        <3>2. \A q, r \in Slaves : \A i \in DOMAIN responses[q], j \in DOMAIN responses[r] :
                 responses[q][i].uid = responses[r][j].uid => q = r /\ i = j
            BY DEF Places
        <3> QED
            BY <3>1, <3>2
    <2>6. \A x \in 1 .. uid' : \/ x \in answered' \cup DOMAIN waitedRequest'
                              \/ \E r \in Slaves : x \in Held(r)'
        <3>1. TAKE x \in 1 .. uid'
        <3>2. CASE x = u
            BY <1>1, <2>2, <3>2
        <3>3. CASE x # u
            <4>1. x \in answered \cup DOMAIN waitedRequest \/ \E r \in Slaves : x \in Held(r)
                BY <1>2, <3>3 DEF Places
            <4> QED
                BY <1>1, <2>1, <2>2, <3>3, <4>1
        <3> QED
            BY <3>2, <3>3
    <2> QED
        BY <2>3, <2>4, <2>5, <2>6 DEF Places
<1>6. CASE Refuses(u, s, internal)
    <2>1. /\ responses' = responses
          /\ DOMAIN waitedRequest' = DOMAIN waitedRequest \cup {u}
          /\ internal => buffer' = buffer \cup {u}
          /\ ~internal => buffer' = buffer
        BY <1>1, <1>6, RefusedAfter
    <2>2. /\ DOMAIN waitedRequest' \subseteq 1 .. uid' /\ answered' \subseteq 1 .. uid'
          /\ answered' \cap DOMAIN waitedRequest' = {}
        BY <1>1, <1>2, <1>3, <2>1 DEF Places
    <2>3. buffer' = {x \in DOMAIN waitedRequest' : origin'[x] # External}
        <3>1. buffer = {x \in DOMAIN waitedRequest : origin[x] # External}
            BY DEF Places
        <3>2. \A x \in DOMAIN waitedRequest : x \in 1 .. uid /\ origin'[x] = origin[x]
            BY <1>1 DEF Places
        <3> QED
            BY <1>1, <2>1, <3>1, <3>2
    <2>4. \A r \in Slaves : Held(r)' = Held(r)
        BY <2>1 DEF Held
    <2>5. \A r \in Slaves : Held(r)' \subseteq 1 .. uid' \ (answered' \cup DOMAIN waitedRequest')
        BY <1>1, <1>2, <1>3, <2>1, <2>4 DEF Places
    <2>6. \A q, r \in Slaves : \A i \in DOMAIN responses'[q], j \in DOMAIN responses'[r] :
             responses'[q][i].uid = responses'[r][j].uid => q = r /\ i = j
        BY <2>1 DEF Places
    <2>7. \A x \in 1 .. uid' : \/ x \in answered' \cup DOMAIN waitedRequest'
                              \/ \E r \in Slaves : x \in Held(r)'
        BY <1>1, <1>2, <2>1, <2>4 DEF Places
    <2> QED
        BY <2>2, <2>3, <2>5, <2>6, <2>7 DEF Places
<1> QED
    BY <1>5, <1>6 DEF Attempt

LEMMA AttemptRetry ==
    ASSUME TypeOK, Places, OneRetry, NEW u, NEW s, NEW internal, Attempt(u, s, internal),
           \A e \in events : e.kind = "PACKET_REQUEST_RETRY" => e.id # u
    PROVE  OneRetry'
<1> DEFINE kept == {e \in Retrying : e.id # u}
<1>1. u \in Uids /\ s \in Slaves /\ handling' = handling \ {e \in Retrying : e.id = u}
    BY DEF Attempt
<1>2. \A e \in events \cap handling : e.kind # "PACKET_REQUEST_RETRY"
    BY DEF OneRetry
<1>3. {e.id : e \in kept} = buffer \ {u}
    BY DEF OneRetry
<1>4. \A e, f \in kept : e.id = f.id => e = f
    BY DEF OneRetry
<1>5. CASE UNCHANGED events /\ buffer' = buffer \ {u}
    <2>1. Retrying' = kept
        BY <1>1, <1>5 DEF Retrying
    <2>2. \A e \in events' \cap handling' : e.kind # "PACKET_REQUEST_RETRY"
        BY <1>1, <1>2, <1>5
    <2> HIDE DEF kept
    <2> QED
        BY <1>3, <1>4, <1>5, <2>1, <2>2 DEF OneRetry
<1>6. CASE \E t : events' = events \cup {Retry(u, t)} /\ buffer' = buffer \cup {u}
    <2>1. PICK t : events' = events \cup {Retry(u, t)} /\ buffer' = buffer \cup {u}
        BY <1>6
    <2>2. Retry(u, t).kind = "PACKET_REQUEST_RETRY" /\ Retry(u, t).id = u
        BY DEF Retry
    <2> DEFINE new == Retry(u, t)
    <2> HIDE DEF new
    <2>3. Retrying' = kept \cup {new}
        BY <1>1, <2>1, <2>2 DEF Retrying, new
    <2>4. \A e \in events' \cap handling' : e.kind # "PACKET_REQUEST_RETRY"
        <3>1. TAKE e \in events' \cap handling'
        <3>2. CASE e \in events
            BY <1>1, <1>2, <3>2
        <3>3. CASE e = new
            BY <1>1, <2>2, <3>3 DEF Retrying, new
        <3> QED
            BY <2>1, <3>2, <3>3 DEF new
    <2>5. new.id = u
        BY <2>2 DEF new
    <2>6. {e.id : e \in Retrying'} = buffer \cup {u}
        BY <1>3, <2>3, <2>5
    <2>7. \A e, f \in Retrying' : e.id = f.id => e = f
        BY <1>4, <2>3, <2>5
    <2> QED
        BY <2>1, <2>4, <2>6, <2>7 DEF OneRetry
<1>7. u \in buffer => internal
    BY DEF Attempt, Places
<1>8. CASE Takes(u, s) /\ UNCHANGED events
    BY <1>5, <1>8 DEF Takes
<1>9. CASE Refuses(u, s, internal)
    <2>1. CASE internal
        <3>1. buffer' = buffer \cup {u} /\ \E t : events' = events \cup {Retry(u, t)}
            BY <1>1, <1>9, <2>1, RefusedAfter, Zenon
        <3> QED
            BY <1>6, <3>1
    <2>2. CASE ~internal
        <3>1. UNCHANGED <<buffer, events>>
            BY <1>9, <2>2 DEF Refuses
        <3>2. buffer' = buffer \ {u}
            BY <1>7, <2>2, <3>1
        <3> QED
            BY <1>5, <3>1, <3>2
    <2> QED
        BY <2>1, <2>2
<1> QED
    BY <1>8, <1>9 DEF Attempt

LEMMA AttemptWalk ==
    ASSUME TypeOK, OnTheWalk, NEW u, NEW s, NEW internal, Attempt(u, s, internal)
    PROVE  OnTheWalk'
<1>1. /\ u \in Uids /\ s \in Slaves /\ s \in Walked
      /\ handling' \subseteq handling /\ UNCHANGED <<conf, at, running>> /\ Walked' = Walked
    BY DEF Attempt, Walked
<1>2. CASE Takes(u, s)
    <2>1. \A r \in Slaves \ {s} : responses'[r] = responses[r]
        BY <1>1, <1>2, HeldAfter
    <2>2. /\ DOMAIN waitedRequest' \subseteq DOMAIN waitedRequest
          /\ \A x \in DOMAIN waitedRequest' : waitedRequest'[x] = waitedRequest[x]
        BY <1>2 DEF Takes, Settled, Without, Entries
    <2> QED
        BY <1>1, <2>1, <2>2 DEF OnTheWalk
<1>3. CASE Refuses(u, s, internal)
    <2>1. /\ UNCHANGED responses
          /\ DOMAIN waitedRequest' = DOMAIN waitedRequest \cup {u}
          /\ waitedRequest'[u] = s
          /\ \A x \in DOMAIN waitedRequest \ {u} : waitedRequest'[x] = waitedRequest[x]
        BY <1>1, <1>3, RefusedAfter
    <2> QED
        BY <1>1, <2>1 DEF OnTheWalk
<1> QED
    BY <1>2, <1>3 DEF Attempt

LEMMA AttemptNoticed ==
    ASSUME TypeOK, Noticed, NEW u, NEW s, NEW internal, Attempt(u, s, internal),
           \A m \in Masters : Ahead(m) \/ (sent'[m] = sent[m] /\ ot'[m] = ot[m])
    PROVE  Noticed'
<1>1. /\ u \in Uids /\ s \in Slaves
      /\ UNCHANGED <<conf, at, running>>
    BY DEF Attempt
<1>2. \A x : Ahead(x)' = Ahead(x)
    BY <1>1 DEF Ahead
<1>3. nextTimes \subseteq nextTimes'
    BY <1>1, HeldAfter, RefusedAfter DEF Attempt
<1>4. \A r \in Slaves : responses'[r] # <<>> => responses[r] # <<>> \/ nextTimes' # {}
    <2>1. CASE Takes(u, s)
        BY <1>1, <2>1, HeldAfter
    <2>2. CASE Refuses(u, s, internal)
        BY <1>1, <2>2, RefusedAfter
    <2> QED
        BY <2>1, <2>2 DEF Attempt
<1>5. \A m \in Masters : Ahead(m) \/ ((Ended(m)' <=> Ended(m)) /\ ot'[m] = ot[m])
    BY <1>1 DEF Ended
<1> QED
    BY <1>1, <1>2, <1>3, <1>4, <1>5 DEF Noticed

(***************************************************************************)
(* Every step preserves the invariant.                                     *)
(***************************************************************************)

Kept == Places /\ OneRetry /\ Counts /\ OnTheWalk /\ Noticed /\ LoopLeavesNothing

\* While a walk goes on the loop does not return.
LEMMA GoesOn ==
    ASSUME OnTheWalk, at > 0 \/ ~conf.loop, UNCHANGED <<conf, running>>
    PROVE  LoopLeavesNothing'
    BY DEF OnTheWalk, LoopLeavesNothing

\* Steps that leave the requests, the tables and the slaves alone.
LEMMA SameRequests ==
    ASSUME UNCHANGED <<conf, tables, responses, sent, ot, uid, origin, answered>>,
           Places, Counts
    PROVE  Places' /\ Counts'
<1>1. Places'
    BY DEF Places, Held, tables
<1>2. AnswersOwned'
    BY DEF Counts, AnswersOwned, tables
<1>3. Counts'
    BY <1>2 DEF Counts, tables
<1> QED
    BY <1>1, <1>3

LEMMA HandleAttempts ==
    ASSUME TypeOK, Kept, NEW e \in handling, Handle(e), e.kind # "TICK"
    PROVE  /\ \E s \in Slaves : Attempt(e.id, s, TRUE)
           /\ \A x \in events : x.kind = "PACKET_REQUEST_RETRY" => x.id # e.id
<1> DEFINE u == e.id
<1>1. /\ handling' = handling \ {e}
      /\ UNCHANGED <<conf, time, at, running, uid, origin, answered>>
    BY DEF Handle
<1>2. e \in Retrying
    BY DEF TypeOK, AllEvents, Retrying
<1>3. u \in DOMAIN waitedRequest /\ u \in buffer /\ origin[u] # External
    BY <1>2 DEF Kept, OneRetry, Places
<1>4. u \in Uids /\ waitedRequest[u] \in Slaves \cap Walked /\ u \in 1 .. uid
    BY <1>3 DEF TypeOK, Kept, OnTheWalk, Places
<1>5. {x \in Retrying : x.id = u} = {e}
    BY <1>2 DEF Kept, OneRetry
<1>6. \A x \in events : x.kind = "PACKET_REQUEST_RETRY" => x.id # u
    BY <1>2 DEF Kept, OneRetry, Retrying
<1>7. PICK s \in Slaves \cap Walked : s = waitedRequest[u]
    BY <1>4
<1>8. (Takes(u, s) /\ UNCHANGED events) \/ Refuses(u, s, TRUE)
    BY <1>7 DEF Handle
<1> HIDE DEF u
<1>9. Attempt(u, s, TRUE)
    BY <1>1, <1>3, <1>4, <1>5, <1>7, <1>8 DEF Attempt
<1> QED
    BY <1>6, <1>7, <1>9 DEF u

LEMMA KeptByHandle ==
    ASSUME TypeOK, Kept, NEW e \in handling, Handle(e)
    PROVE  Kept'
<1>1. /\ at > 0 /\ handling' = handling \ {e}
      /\ UNCHANGED <<conf, time, waitedResponse, sent, ot, at, running, uid, origin, answered>>
    BY DEF Handle, tables
<1>2. LoopLeavesNothing'
    BY <1>1, GoesOn DEF Kept
<1>3. Counts'
    <2>1. AnswersOwned'
        BY <1>1 DEF Kept, Counts, AnswersOwned
    <2> QED
        BY <1>1, <2>1 DEF Kept, Counts
<1>4. CASE e.kind = "TICK"
    <2>1. UNCHANGED <<events, tables, responses, nextTimes>>
        BY <1>4 DEF Handle
    <2>2. Places'
        BY <1>1, <2>1, SameRequests DEF Kept
    <2>3. OneRetry'
        <3>1. Retrying' = Retrying
            BY <1>1, <1>4, <2>1 DEF Retrying
        <3> QED
            BY <1>1, <2>1, <3>1 DEF Kept, OneRetry, tables
    <2>4. OnTheWalk' /\ Noticed'
        BY <1>1, <2>1 DEF Kept, OnTheWalk, Noticed, Walked, Ended, Ahead, tables
    <2> QED
        BY <1>2, <1>3, <2>2, <2>3, <2>4 DEF Kept
<1>5. CASE e.kind # "TICK"
    <2>1. PICK s \in Slaves :
            /\ Attempt(e.id, s, TRUE)
            /\ \A x \in events : x.kind = "PACKET_REQUEST_RETRY" => x.id # e.id
        BY <1>5, HandleAttempts
    <2>2. Places' /\ OneRetry' /\ OnTheWalk' /\ Noticed'
        BY <1>1, <2>1, AttemptPlaces, AttemptRetry, AttemptWalk, AttemptNoticed DEF Kept
    <2> QED
        BY <1>2, <1>3, <2>2 DEF Kept
<1> QED
    BY <1>4, <1>5

LEMMA MasterAttempts ==
    ASSUME TypeOK, Kept, MasterSends
    PROVE  /\ Polled \in Masters /\ at > 0 /\ at <= Len(conf.order) /\ handling = {}
           /\ uid + 1 \in Uids /\ uid \in Nat /\ uid + 1 \notin 1 .. uid
           /\ 1 .. uid' = 1 .. uid \cup {uid + 1} /\ uid' = uid + 1
           /\ \A x \in 1 .. uid : origin'[x] = origin[x]
           /\ origin'[uid + 1] = Polled /\ Polled # External
           /\ UNCHANGED <<conf, time, at, handling, running, answered>>
           /\ \E s \in Slaves : Attempt(uid + 1, s, TRUE)
<1> DEFINE m == Polled
           u == uid + 1
<1>1. /\ m \in Masters /\ at > 0 /\ handling = {} /\ at <= Len(conf.order)
      /\ u \in Uids /\ u \in Nat /\ uid \in Nat /\ u \notin 1 .. uid /\ 1 .. u = 1 .. uid \cup {u}
    BY BoundAssumption DEF MasterSends, Polls, Polled, Uids, TypeOK
<1>2. PICK s \in conf.to[m] : \/ Takes(u, s) /\ UNCHANGED events
                             \/ Refuses(u, s, TRUE)
    BY DEF MasterSends
<1>3. s \in Slaves /\ s \in Walked
    BY <1>1, ConfType DEF TypeOK
<1> HIDE DEF m, u
<1>4. /\ uid' = u /\ origin' = With(origin, u, m)
      /\ UNCHANGED <<conf, time, at, handling, running, answered>>
    BY DEF MasterSends, walk, m, u
<1>5. /\ \A x \in 1 .. uid : origin'[x] = origin[x]
      /\ origin'[u] = m /\ m # External
    BY <1>1, <1>4, NamesAssumption DEF With, Entries, TypeOK
<1>6. Attempt(u, s, TRUE)
    BY <1>1, <1>2, <1>3, <1>4, <1>5 DEF Attempt, u
<1> QED
    BY <1>1, <1>3, <1>4, <1>5, <1>6 DEF m, u

LEMMA KeptByMasterSends ==
    ASSUME TypeOK, Kept, MasterSends
    PROVE  Kept'
<1> DEFINE m == Polled
           u == uid + 1
<1>1. /\ m \in Masters /\ at > 0 /\ at <= Len(conf.order) /\ conf.order[at] = m
      /\ u \in Uids /\ u \in Nat /\ uid \in Nat /\ u \notin 1 .. uid /\ 1 .. u = 1 .. uid \cup {u}
    BY MasterAttempts DEF Polled
<1>2. ~Ended(m)
    BY DEF MasterSends, CanSend
<1>3. PICK s \in Slaves : Attempt(u, s, TRUE)
    BY MasterAttempts
<1>4. /\ \A x \in 1 .. uid : origin'[x] = origin[x]
      /\ origin'[u] = m /\ m # External
    BY MasterAttempts
<1> HIDE DEF m, u
<1>5. /\ uid' = u
      /\ sent' = [sent EXCEPT ![m] = @ + 1]
      /\ ot' = IF m \in conf.posted THEN ot ELSE [ot EXCEPT ![m] = @ + 1]
      /\ waitedResponse' = With(waitedResponse, u, Awaited(m))
      /\ UNCHANGED <<conf, time, at, handling, running, answered>>
    BY DEF MasterSends, walk, m, u
<1>6. \A e \in events : e.kind = "PACKET_REQUEST_RETRY" => e.id # u
    <2>1. u \notin buffer
        BY <1>1 DEF Kept, Places
    <2> QED
        BY <2>1 DEF Kept, OneRetry, Retrying
<1>7. \A x \in Masters : Ahead(x) \/ (sent'[x] = sent[x] /\ ot'[x] = ot[x])
    <2>1. Ahead(m)
        <3>1. at \in at .. Len(conf.order)
            BY <1>1, ConfType, LenProperties DEF TypeOK
        <3> QED
            BY <1>1, <3>1 DEF Ahead
    <2>2. \A x \in Masters \ {m} : sent'[x] = sent[x] /\ ot'[x] = ot[x]
        BY <1>5 DEF TypeOK
    <2> QED
        BY <2>1, <2>2
<1>8. Places' /\ OneRetry' /\ OnTheWalk' /\ Noticed'
    BY <1>3, <1>6, <1>7, AttemptPlaces, AttemptRetry, AttemptWalk, AttemptNoticed DEF Kept
<1>9. Counts'
    <2>1. \A x \in Masters \ conf.posted : Cardinality(Owed(x)') =
              IF x = m THEN Cardinality(Owed(x)) + 1 ELSE Cardinality(Owed(x))
        <3>1. TAKE x \in Masters \ conf.posted
        <3>2. u \notin answered /\ u \notin Owed(x)
            BY <1>1 DEF Kept, Places, Owed
        <3>3. x = m => Owed(x)' = Owed(x) \cup {u}
            BY <1>1, <1>4, <1>5, <3>2 DEF Owed
        <3>4. x # m => Owed(x)' = Owed(x)
            BY <1>1, <1>4, <1>5, <3>2 DEF Owed
        <3>5. Cardinality(Owed(x) \cup {u}) = Cardinality(Owed(x)) + 1
            BY <3>2, OwedFinite, FS_AddElement
        <3> QED
            BY <3>3, <3>4, <3>5
    <2>2. \A x \in Masters \ conf.posted :
              ot'[x] = Cardinality({y \in 1 .. uid' \ answered' : origin'[y] = x})
        <3>1. TAKE x \in Masters \ conf.posted
        <3>2. ot[x] = Cardinality(Owed(x))
            BY DEF Kept, Counts, AnswersOwned, Owed
        <3>3. ot'[x] = IF x = m THEN ot[x] + 1 ELSE ot[x]
            BY <1>1, <1>5 DEF TypeOK
        <3>4. ot'[x] = Cardinality(Owed(x)')
            BY <2>1, <3>2, <3>3
        <3> QED
            BY <3>4 DEF Owed
    <2>3. \A y \in 1 .. uid' :
              LET x == origin'[y] IN
              IF x \in conf.posted THEN y \in DOMAIN waitedResponse' /\ waitedResponse'[y] = Invalid
              ELSE IF x \in Masters /\ y \notin answered'
                   THEN y \in DOMAIN waitedResponse' /\ waitedResponse'[y] = x
                   ELSE y \notin DOMAIN waitedResponse'
        <3>1. TAKE y \in 1 .. uid'
        <3>2. CASE y = u
            <4>1. /\ y \in DOMAIN waitedResponse' /\ waitedResponse'[y] = Awaited(m)
                  /\ origin'[y] = m /\ y \notin answered'
                BY <1>1, <1>4, <1>5, <3>2 DEF With, Entries, Kept, Places
            <4> QED
                BY <1>1, <4>1 DEF Awaited
        <3>3. CASE y # u
            <4>1. /\ y \in 1 .. uid /\ origin'[y] = origin[y] /\ answered' = answered
                  /\ y \in DOMAIN waitedResponse' <=> y \in DOMAIN waitedResponse
                  /\ y \in DOMAIN waitedResponse => waitedResponse'[y] = waitedResponse[y]
                BY <1>1, <1>4, <1>5, <3>3 DEF With, Entries
            <4> QED
                BY <4>1 DEF Kept, Counts, AnswersOwned
        <3> QED
            BY <3>2, <3>3
    <2>4. AnswersOwned'
        BY <1>5, <2>2, <2>3 DEF AnswersOwned
    <2>5. \A x \in Masters : sent'[x] <= conf.toSend[x]
        <3>1. sent[m] + 1 <= conf.toSend[m] /\ sent[m] \in Nat
            BY <1>1, <1>2, ConfType DEF Ended, Kept, Counts, TypeOK
        <3> QED
            BY <1>1, <1>5, <3>1 DEF Kept, Counts, TypeOK
    <2>6. \A x \in conf.posted : ot'[x] = 0
        BY <1>1, <1>5, ConfType DEF Kept, Counts, TypeOK
    <2>7. DOMAIN waitedResponse' \subseteq 1 .. uid'
        BY <1>1, <1>5 DEF Kept, Counts, With, Entries
    <2>8. conf.loop => \A x \in 1 .. uid' : origin'[x] # External
        BY <1>1, <1>4, <1>5 DEF Kept, Counts
    <2> QED
        BY <1>5, <2>4, <2>5, <2>6, <2>7, <2>8 DEF Counts
<1>10. LoopLeavesNothing'
    BY <1>1, <1>5, GoesOn DEF Kept
<1> QED
    BY <1>8, <1>9, <1>10 DEF Kept

LEMMA Advances ==
    ASSUME TypeOK, at' = at + 1, UNCHANGED conf
    PROVE  \A x : Ahead(x) => Ahead(x)' \/ x = Polled
<1>1. TAKE x
<1>2. SUFFICES ASSUME NEW j \in at .. Len(conf.order), conf.order[j] = x, x # Polled
               PROVE  Ahead(x)'
    BY DEF Ahead
<1>3. Len(conf.order) \in Nat /\ at \in Nat
    BY ConfType, LenProperties DEF TypeOK
<1>4. j \in at + 1 .. Len(conf.order)
    BY <1>2, <1>3 DEF Polled
<1> QED
    BY <1>2, <1>4 DEF Ahead

LEMMA KeptByMasterWaits ==
    ASSUME TypeOK, Kept, MasterWaits
    PROVE  Kept'
<1> DEFINE m == Polled
<1>1. /\ m \in Masters /\ at > 0 /\ at \in Nat /\ handling = {} /\ conf.order[at] = m
      /\ at' = at + 1
      /\ UNCHANGED <<conf, time, events, tables, responses, sent, ot, handling, running, uid,
                     origin, answered>>
    BY DEF MasterWaits, Polls, Polled, TypeOK
<1>2. nextTimes \subseteq nextTimes' /\ (Ended(m) \/ ot[m] > 0 \/ nextTimes' # {})
    <2>1. conf.maxOt[m] > 0 /\ ot[m] \in Nat
        BY <1>1, ConfType DEF TypeOK
    <2>2. CASE ~CanSend(m) /\ UNCHANGED nextTimes
        <3>1. conf.maxOt[m] \in Nat
            BY <1>1, ConfType DEF TypeOK
        <3> QED
            BY <2>1, <2>2, <3>1 DEF CanSend
    <2> QED
        BY <2>2 DEF MasterWaits
<1> HIDE DEF m
<1>3. \A x : Ahead(x) => Ahead(x)' \/ x = m
    BY <1>1, Advances DEF m
<1>4. Noticed'
    <2>1. \A s \in Slaves : s # m
        BY <1>1, NamesAssumption
    <2>2. \A x \in Masters : Ended(x)' <=> Ended(x)
        BY <1>1 DEF Ended
    <2> QED
        BY <1>1, <1>2, <1>3, <2>1, <2>2 DEF Kept, Noticed
<1>5. Places' /\ Counts'
    BY <1>1, SameRequests DEF Kept
<1>6. OneRetry' /\ OnTheWalk'
    BY <1>1 DEF Kept, OneRetry, OnTheWalk, Retrying, Walked, tables
<1>7. LoopLeavesNothing'
    BY <1>1, GoesOn DEF Kept
<1> QED
    BY <1>4, <1>5, <1>6, <1>7 DEF Kept

LEMMA KeptBySlaveWaits ==
    ASSUME TypeOK, Kept, SlaveWaits
    PROVE  Kept'
<1> DEFINE m == Polled
<1>1. /\ m \in Slaves /\ at > 0 /\ at \in Nat /\ handling = {} /\ conf.order[at] = m
      /\ at' = at + 1
      /\ UNCHANGED <<conf, time, events, tables, responses, sent, ot, handling, running, uid,
                     origin, answered>>
    BY DEF SlaveWaits, Polls, Polled, TypeOK
<1>2. nextTimes \subseteq nextTimes' /\ (responses[m] # <<>> => nextTimes' # {})
    BY DEF SlaveWaits
<1> HIDE DEF m
<1>3. \A x : Ahead(x) => Ahead(x)' \/ x = m
    BY <1>1, Advances DEF m
<1>4. Noticed'
    <2>1. \A x \in Masters : x # m
        BY <1>1, NamesAssumption
    <2>2. \A x \in Masters : Ended(x)' <=> Ended(x)
        BY <1>1 DEF Ended
    <2> QED
        BY <1>1, <1>2, <1>3, <2>1, <2>2 DEF Kept, Noticed
<1>5. Places' /\ Counts'
    BY <1>1, SameRequests DEF Kept
<1>6. OneRetry' /\ OnTheWalk'
    BY <1>1 DEF Kept, OneRetry, OnTheWalk, Retrying, Walked, tables
<1>7. LoopLeavesNothing'
    BY <1>1, GoesOn DEF Kept
<1> QED
    BY <1>4, <1>5, <1>6, <1>7 DEF Kept

\* The answer that a slave gives out leaves that slave, and no other held it.
LEMMA AnswerGiven ==
    ASSUME TypeOK, Kept, SlaveSends, NEW s \in Slaves, s = Polled
    PROVE  LET u == responses[s][1].uid IN
           /\ responses[s] # <<>> /\ u \in Held(s)
           /\ u \in 1 .. uid /\ u \notin answered \cup DOMAIN waitedRequest
           /\ answered' = answered \cup {u} /\ UNCHANGED <<conf, waitedRequest, uid>>
           /\ Held(s)' = Held(s) \ {u}
           /\ \A r \in Slaves \ {s} :
                 responses'[r] = responses[r] /\ Held(r)' = Held(r) /\ u \notin Held(r)
           /\ \A r \in Slaves : \A i \in DOMAIN responses'[r] :
                 LET k == IF r = s THEN i + 1 ELSE i
                 IN i \in Int /\ k \in DOMAIN responses[r] /\ responses[r][k] = responses'[r][i]
<1> DEFINE q == responses[s]
           u == q[1].uid
<1>1. q # <<>>
    BY DEF SlaveSends, FirstDue
<1>2. q \in Seq(Answers)
    BY <1>1 DEF TypeOK, Answers
<1>3. /\ responses' = [responses EXCEPT ![s] = Tail(q)]
      /\ answered' = answered \cup {u}
      /\ UNCHANGED <<conf, waitedRequest, uid>>
    BY DEF SlaveSends
<1>4. /\ Len(q) \in Nat /\ 1 \in DOMAIN q /\ DOMAIN q = 1 .. Len(q)
      /\ responses'[s] = Tail(q) /\ DOMAIN Tail(q) = 1 .. Len(q) - 1
      /\ \A i \in DOMAIN Tail(q) : Tail(q)[i] = q[i + 1] /\ i + 1 \in DOMAIN q
    <2>1. responses'[s] = Tail(q)
        BY <1>1, <1>3 DEF TypeOK
    <2>2. Len(q) \in Nat /\ 1 \in DOMAIN q /\ DOMAIN q = 1 .. Len(q)
        BY <1>1, <1>2, FirstOf
    <2>3. /\ DOMAIN Tail(q) = 1 .. Len(q) - 1
          /\ \A i \in DOMAIN Tail(q) : Tail(q)[i] = q[i + 1]
        BY <1>1, <1>2, Removed
    <2> HIDE DEF q
    <2> QED
        BY <2>1, <2>2, <2>3
<1>5. \A r \in Slaves \ {s} : responses'[r] = responses[r] /\ Held(r)' = Held(r)
    BY <1>3 DEF TypeOK, Held
<1>6. u \in Held(s) /\ u \in 1 .. uid /\ u \notin answered \cup DOMAIN waitedRequest
    BY <1>1, <1>4 DEF Kept, Places, Held
<1>7. \A a, b \in Slaves : \A i \in DOMAIN responses[a], j \in DOMAIN responses[b] :
          responses[a][i].uid = responses[b][j].uid => a = b /\ i = j
    BY DEF Kept, Places
<1>8. /\ \A i \in DOMAIN q : q[i].uid = u => i = 1
      /\ \A r \in Slaves \ {s} : u \notin Held(r)
    BY <1>1, <1>4, <1>7 DEF Held
<1> HIDE DEF u
<1>9. Held(s)' = Held(s) \ {u}
    <2>1. \A i \in DOMAIN responses'[s] :
              responses'[s][i].uid \in Held(s) /\ responses'[s][i].uid # u
        BY <1>4, <1>8 DEF Held
    <2>2. \A i \in DOMAIN q : q[i].uid # u => \E j \in DOMAIN responses'[s] :
              responses'[s][j].uid = q[i].uid
        <3>1. TAKE i \in DOMAIN q
        <3>2. HAVE q[i].uid # u
        <3>3. i # 1
            BY <3>2 DEF u
        <3>4. i - 1 \in DOMAIN Tail(q) /\ (i - 1) + 1 = i
            BY <1>4, <3>3
        <3> QED
            BY <1>4, <3>4
    <2>3. Held(s)' \subseteq Held(s) \ {u}
        BY <2>1 DEF Held
    <2>4. ASSUME NEW x \in Held(s), x # u
          PROVE  x \in Held(s)'
        <3>1. PICK i \in DOMAIN q : q[i].uid = x
            BY <2>4 DEF Held
        <3>2. PICK j \in DOMAIN responses'[s] : responses'[s][j].uid = x
            BY <2>2, <2>4, <3>1
        <3> QED
            BY <3>2 DEF Held
    <2> QED
        BY <2>3, <2>4
<1>10. \A r \in Slaves : \A i \in DOMAIN responses'[r] :
          LET k == IF r = s THEN i + 1 ELSE i
          IN i \in Int /\ k \in DOMAIN responses[r] /\ responses[r][k] = responses'[r][i]
    <2>1. \A r \in Slaves \ {s} : \A i \in DOMAIN responses[r] : i \in Int
        BY FirstOf DEF TypeOK, Answers
    <2>2. \A i \in DOMAIN responses'[s] :
              i \in Int /\ i + 1 \in DOMAIN q /\ q[i + 1] = responses'[s][i]
        BY <1>4
    <2> QED
        BY <1>5, <2>1, <2>2
<1> QED
    BY <1>1, <1>3, <1>5, <1>6, <1>8, <1>9, <1>10 DEF u

LEMMA KeptBySlaveSends ==
    ASSUME TypeOK, Kept, SlaveSends
    PROVE  Kept'
<1>0. PICK s \in Slaves : s = Polled
    BY DEF SlaveSends, Polls, Polled
<1> DEFINE q == responses[s]
           u == q[1].uid
           later == IF Tail(q) # <<>> /\ Tail(q)[1].time > time THEN {Tail(q)[1].time} ELSE {}
           m == OwnerOf(u)
<1>1. s \in Slaves /\ at > 0
    BY <1>0 DEF SlaveSends, Polls
<1>2. /\ q # <<>> /\ u \in Held(s)
      /\ u \in 1 .. uid /\ u \notin answered \cup DOMAIN waitedRequest
      /\ Held(s)' = Held(s) \ {u}
      /\ \A r \in Slaves \ {s} :
            responses'[r] = responses[r] /\ Held(r)' = Held(r) /\ u \notin Held(r)
      /\ \A r \in Slaves : \A i \in DOMAIN responses'[r] :
            LET k == IF r = s THEN i + 1 ELSE i
            IN i \in Int /\ k \in DOMAIN responses[r] /\ responses[r][k] = responses'[r][i]
    BY <1>0, AnswerGiven
<1>3. /\ answered' = answered \cup {u}
      /\ IF m \in Masters
         THEN /\ ot' = [ot EXCEPT ![m] = @ - 1]
              /\ waitedResponse' = Without(waitedResponse, u)
              /\ nextTimes' = later \cup Noted(ReceiveNext(m))
         ELSE /\ nextTimes' = nextTimes \cup later
              /\ UNCHANGED <<ot, waitedResponse>>
      /\ UNCHANGED <<conf, time, events, buffer, waitedRequest, sent, walk, uid, origin>>
    BY <1>0 DEF SlaveSends
<1> HIDE DEF u, m, later
<1>4. Places'
    <2>1. /\ DOMAIN waitedRequest' \subseteq 1..uid' /\ answered' \subseteq 1..uid'
          /\ answered' \cap DOMAIN waitedRequest' = {}
          /\ buffer' = {x \in DOMAIN waitedRequest' : origin'[x] # External}
        <3>1. u \in 1 .. uid /\ u \notin DOMAIN waitedRequest
            BY <1>2
        <3> QED
            BY <1>3, <3>1 DEF Kept, Places
    <2>2. \A r \in Slaves : Held(r)' \subseteq 1..uid' \ (answered' \cup DOMAIN waitedRequest')
        <3>1. TAKE r \in Slaves
        <3>2. Held(r) \subseteq 1..uid \ (answered \cup DOMAIN waitedRequest)
            BY DEF Kept, Places
        <3>3. Held(r)' \subseteq Held(r) /\ u \notin Held(r)'
            BY <1>2
        <3>4. answered' = answered \cup {u} /\ UNCHANGED <<waitedRequest, uid>>
            BY <1>3
        <3> QED
            BY <3>2, <3>3, <3>4
    <2>3. \A a, b \in Slaves : \A i \in DOMAIN responses'[a], j \in DOMAIN responses'[b] :
              responses'[a][i].uid = responses'[b][j].uid => a = b /\ i = j
        <3>1. \A a, b \in Slaves : \A i \in DOMAIN responses[a], j \in DOMAIN responses[b] :
                  responses[a][i].uid = responses[b][j].uid => a = b /\ i = j
            BY DEF Kept, Places
        <3>2. TAKE a, b \in Slaves
        <3>3. TAKE i \in DOMAIN responses'[a], j \in DOMAIN responses'[b]
        <3>4. HAVE responses'[a][i].uid = responses'[b][j].uid
        <3> DEFINE k == IF a = s THEN i + 1 ELSE i
                   l == IF b = s THEN j + 1 ELSE j
        <3>5. /\ k \in DOMAIN responses[a] /\ responses[a][k] = responses'[a][i]
              /\ l \in DOMAIN responses[b] /\ responses[b][l] = responses'[b][j]
              /\ i \in Int /\ j \in Int
            BY <1>2
        <3>6. a = b /\ k = l
            BY <3>1, <3>4, <3>5
        <3>7. CASE a = s
            BY <3>5, <3>6, <3>7
        <3> QED
            BY <3>6, <3>7
    <2>4. \A x \in 1 .. uid' : \/ x \in answered' \cup DOMAIN waitedRequest'
                              \/ \E r \in Slaves : x \in Held(r)'
        <3>1. TAKE x \in 1 .. uid'
        <3>2. x \in answered \cup DOMAIN waitedRequest \/ \E r \in Slaves : x \in Held(r)
            BY <1>3 DEF Kept, Places
        <3>3. answered' = answered \cup {u} /\ UNCHANGED waitedRequest
            BY <1>3
        <3>4. \A r \in Slaves : x \in Held(r) => x \in Held(r)' \/ x = u
            BY <1>2
        <3> QED
            BY <3>2, <3>3, <3>4
    <2> QED
        BY <2>1, <2>2, <2>3, <2>4 DEF Places
<1>5. OneRetry'
    BY <1>3 DEF Kept, OneRetry, Retrying, walk
<1>6. OnTheWalk'
    <2>1. \A r \in Slaves : responses'[r] # <<>> => responses[r] # <<>>
        BY <1>1, <1>2
    <2> QED
        BY <1>3, <2>1 DEF Kept, OnTheWalk, Walked, walk
<1>7. Noticed'
    <2>1. \A x : Ahead(x)' = Ahead(x)
        BY <1>3 DEF Ahead, walk
    <2>2. nextTimes \subseteq nextTimes'
        BY <1>3 DEF Noted
    <2>3. \A r \in Slaves : responses'[r] # <<>> => responses[r] # <<>>
        BY <1>1, <1>2
    <2>4. \A x \in Masters : Ended(x)' <=> Ended(x)
        BY <1>3 DEF Ended
    <2>5. \A x \in Masters : ot[x] > 0 => Ended(x) \/ ot'[x] > 0 \/ nextTimes' # {}
        <3>1. TAKE x \in Masters
        <3>2. CASE m \in Masters /\ x = m /\ ~(Ended(m) /\ ot[m] = 1)
            <4>1. ReceiveNext(m) = time /\ time \in Nat
                BY <3>2 DEF ReceiveNext, TypeOK
            <4>2. time \in Noted(ReceiveNext(m))
                BY <4>1 DEF Noted
            <4>3. Noted(ReceiveNext(m)) \subseteq nextTimes'
                BY <1>3, <3>2
            <4> QED
                BY <4>2, <4>3
        <3>3. CASE m \in Masters /\ x = m /\ Ended(m) /\ ot[m] = 1
            BY <3>3
        <3>4. CASE ~(m \in Masters /\ x = m)
            BY <1>3, <3>4 DEF TypeOK
        <3> QED
            BY <3>2, <3>3, <3>4
    <2> QED
        BY <1>3, <2>1, <2>2, <2>3, <2>4, <2>5 DEF Kept, Noticed, walk
<1>8. Counts'
    <2>1. /\ \A y \in 1..uid :
                LET x == origin[y] IN
                IF x \in conf.posted THEN y \in DOMAIN waitedResponse /\ waitedResponse[y] = Invalid
                ELSE IF x \in Masters /\ y \notin answered
                     THEN y \in DOMAIN waitedResponse /\ waitedResponse[y] = x
                     ELSE y \notin DOMAIN waitedResponse
          /\ \A x \in Masters \ conf.posted : ot[x] = Cardinality(Owed(x))
        BY DEF Kept, Counts, AnswersOwned, Owed
    <2>2. m \in Masters => /\ u \in Owed(m) /\ m \notin conf.posted /\ origin[u] = m
                           /\ ot[m] = Cardinality(Owed(m)) /\ ot[m] > 0
        BY <1>1, <1>2, OwedAnswer DEF u, m, Kept
    <2>3. m \notin Masters => origin[u] \notin Masters \ conf.posted
        BY <1>2, <2>1 DEF m, OwnerOf, Entries
    <2>4. \A x \in Masters \ conf.posted :
              Owed(x)' = IF x = m THEN Owed(x) \ {u} ELSE Owed(x)
        <3>1. TAKE x \in Masters \ conf.posted
        <3>2. Owed(x)' = Owed(x) \ {u}
            BY <1>3 DEF Owed
        <3>3. x # m => origin[u] # x
            BY <2>2, <2>3
        <3> QED
            BY <3>2, <3>3 DEF Owed
    <2>5. \A x \in Masters \ conf.posted : ot'[x] = Cardinality(Owed(x)')
        <3>1. TAKE x \in Masters \ conf.posted
        <3>2. CASE x = m
            <4>1. Cardinality(Owed(m) \ {u}) = Cardinality(Owed(m)) - 1
                BY <2>2, <3>2, OwedFinite, FS_RemoveElement
            <4>2. ot'[m] = ot[m] - 1
                BY <1>3, <3>2 DEF TypeOK
            <4>3. Owed(x)' = Owed(m) \ {u}
                BY <2>4, <3>2
            <4> QED
                BY <2>2, <3>2, <4>1, <4>2, <4>3
        <3>3. CASE x # m
            <4>1. ot'[x] = ot[x]
                BY <1>3, <3>3 DEF TypeOK
            <4>2. Owed(x)' = Owed(x)
                BY <2>4, <3>3
            <4> QED
                BY <2>1, <4>1, <4>2
        <3> QED
            BY <3>2, <3>3
    <2>6. \A y \in 1..uid' :
              LET x == origin'[y] IN
              IF x \in conf.posted THEN y \in DOMAIN waitedResponse' /\ waitedResponse'[y] = Invalid
              ELSE IF x \in Masters /\ y \notin answered'
                   THEN y \in DOMAIN waitedResponse' /\ waitedResponse'[y] = x
                   ELSE y \notin DOMAIN waitedResponse'
        <3>1. CASE m \in Masters
            <4>1. /\ DOMAIN waitedResponse' = DOMAIN waitedResponse \ {u}
                  /\ \A y \in DOMAIN waitedResponse' : waitedResponse'[y] = waitedResponse[y]
                BY <1>3, <3>1 DEF Without, Entries
            <4> QED
                BY <1>3, <2>1, <2>2, <3>1, <4>1
        <3>2. CASE m \notin Masters
            BY <1>3, <2>1, <2>3, <3>2
        <3> QED
            BY <3>1, <3>2
    <2>7. AnswersOwned'
        BY <1>3, <2>5, <2>6 DEF AnswersOwned, Owed
    <2>8. \A x \in conf.posted : ot'[x] = 0
        BY <1>3, <2>2, ConfType DEF Kept, Counts, TypeOK
    <2>9. DOMAIN waitedResponse' \subseteq 1 .. uid'
        BY <1>3 DEF Kept, Counts, Without, Entries
    <2> QED
        BY <1>3, <2>7, <2>8, <2>9 DEF Kept, Counts
<1>9. LoopLeavesNothing'
    BY <1>1, <1>3, GoesOn DEF Kept, walk
<1> QED
    BY <1>4, <1>5, <1>6, <1>7, <1>8, <1>9 DEF Kept

LEMMA KeptByLoopTick ==
    ASSUME TypeOK, Kept, LoopTick
    PROVE  Kept'
<1> DEFINE pending == events \cup TickOf(nextTimes)
<1>1. /\ running /\ handling = {} /\ conf.loop /\ at > 0
      /\ \A j \in at .. Len(conf.order) : FALSE
      /\ UNCHANGED <<conf, tables, responses, sent, ot, uid, origin, answered>>
    <2>1. Len(conf.order) \in Nat /\ at \in Nat /\ at > Len(conf.order)
        BY ConfType, LenProperties DEF LoopTick, TypeOK
    <2> QED
        BY <2>1 DEF LoopTick, Kept, OnTheWalk
<1>2. Places' /\ Counts'
    BY <1>1, SameRequests DEF Kept
<1>3. CASE pending = {}
    <2>1. running' = FALSE /\ at' = 0 /\ UNCHANGED <<time, events, nextTimes, handling>>
        BY <1>3 DEF LoopTick
    <2>2. events = {} /\ nextTimes = {}
        BY <1>3 DEF TickOf
    <2>3. OneRetry' /\ OnTheWalk' /\ Noticed'
        BY <1>1, <2>1 DEF Kept, OneRetry, OnTheWalk, Noticed, Retrying, Walked, tables
    <2>4. DOMAIN waitedRequest = {}
        <3>1. buffer = {}
            BY <1>1, <2>2 DEF Kept, OneRetry, Retrying
        <3> QED
            BY <1>1, <3>1 DEF Kept, Places, Counts
    <2>5. \A s \in Slaves : responses[s] = <<>>
        BY <1>1, <2>2 DEF Kept, Noticed, Ahead
    <2>6. \A u \in 1 .. uid : u \in answered
        <3>1. \A s \in Slaves : Held(s) = {}
            BY <2>5 DEF Held
        <3> QED
            BY <2>4, <3>1 DEF Kept, Places
    <2>7. \A m \in Masters : ot[m] = 0
        <3>1. \A m \in Masters \ conf.posted : {u \in 1..uid \ answered : origin[u] = m} = {}
            BY <2>6
        <3> QED
            BY <3>1, FS_EmptySet DEF Kept, Counts, AnswersOwned
    <2>8. \A m \in Masters : Ended(m)
        <3> SUFFICES ASSUME NEW m \in Masters PROVE Ended(m)
            OBVIOUS
        <3>1. Ended(m) \/ ot[m] > 0 \/ nextTimes # {} \/ Ahead(m)
            BY <1>1 DEF Kept, Noticed
        <3>2. ~Ahead(m)
            BY <1>1 DEF Ahead
        <3>3. ~(ot[m] > 0)
            BY <2>7
        <3> QED
            BY <2>2, <3>1, <3>2, <3>3
    <2>9. LoopLeavesNothing'
        BY <1>1, <2>6, <2>7, <2>8 DEF LoopLeavesNothing, Ended
    <2> QED
        BY <1>2, <2>3, <2>9 DEF Kept
<1>4. CASE pending # {}
    <2>1. PICK e \in pending, due \in SUBSET pending :
            /\ handling' = due /\ events' = pending \ due
            /\ nextTimes' = {} /\ at' = 1
            /\ UNCHANGED running
        BY <1>4 DEF LoopTick
    <2>2. OneRetry'
        <3>1. \A x \in pending : x.kind = "PACKET_REQUEST_RETRY" => x \in events
            BY DEF TickOf, Tick
        <3>2. events' \cup handling' = pending
            BY <2>1
        <3>3. Retrying' = Retrying
            BY <1>1, <3>1, <3>2 DEF Retrying
        <3>4. events' \cap handling' = {}
            BY <2>1
        <3> QED
            BY <1>1, <3>3, <3>4 DEF Kept, OneRetry, tables
    <2>3. OnTheWalk'
        BY <1>1, <2>1 DEF Kept, OnTheWalk, Walked, tables
    <2>4. Noticed'
        <3>1. \A x : x \in Walked => Ahead(x)'
            BY <1>1, <2>1, ConfType, LenProperties DEF Walked, Ahead, ToSet, TypeOK
        <3>2. \A m \in Masters : ~Ended(m) => m \in Walked
            <4>1. TAKE m \in Masters
            <4>2. HAVE ~Ended(m)
            <4>3. sent[m] \in Nat /\ conf.toSend[m] \in Nat /\ sent[m] <= conf.toSend[m]
                BY ConfType DEF TypeOK, Kept, Counts
            <4>4. conf.toSend[m] > 0
                BY <4>2, <4>3 DEF Ended
            <4> QED
                BY <4>4, ConfType DEF TypeOK
        <3>3. \A m \in Masters : Ended(m)' <=> Ended(m)
            BY <1>1 DEF Ended
        <3>4. \A s \in Slaves : responses'[s] # <<>> => s \in Walked
            BY <1>1 DEF Kept, OnTheWalk
        <3> QED
            BY <3>1, <3>2, <3>3, <3>4 DEF Noticed
    <2>5. LoopLeavesNothing'
        BY <1>1, <2>1, GoesOn DEF Kept
    <2> QED
        BY <1>2, <2>2, <2>3, <2>4, <2>5 DEF Kept
<1> QED
    BY <1>3, <1>4

LEMMA KeptByAdapterReturns ==
    ASSUME TypeOK, Kept, AdapterReturns
    PROVE  Kept'
<1>1. /\ ~running /\ handling = {} /\ at' = 0 /\ at > 0
      /\ UNCHANGED <<conf, time, events, tables, responses, sent, ot, nextTimes, handling,
                     running, uid, origin, answered>>
    BY ConfType, LenProperties DEF AdapterReturns, TypeOK
<1>2. ~conf.loop
    BY <1>1 DEF Kept, OnTheWalk
<1>3. Places' /\ Counts'
    BY <1>1, SameRequests DEF Kept
<1>4. OneRetry' /\ OnTheWalk' /\ Noticed'
    BY <1>1, <1>2 DEF Kept, OneRetry, OnTheWalk, Noticed, Retrying, Walked, tables
<1>5. LoopLeavesNothing'
    BY <1>1, <1>2, GoesOn DEF Kept
<1> QED
    BY <1>3, <1>4, <1>5 DEF Kept

LEMMA KeptByAdapterSend ==
    ASSUME TypeOK, Kept, AdapterSend
    PROVE  Kept'
<1>1. /\ ~conf.loop /\ at = 0 /\ handling = {} /\ ~running
      /\ nextTimes' = {} /\ at' = 1
      /\ UNCHANGED <<conf, tables, responses, sent, ot, running, uid, origin, answered>>
    BY DEF AdapterSend, Kept, OnTheWalk
<1>2. PICK due \in SUBSET events : handling' = due /\ events' = events \ due
    BY DEF AdapterSend
<1>3. Places' /\ Counts'
    BY <1>1, SameRequests DEF Kept
<1>4. OneRetry'
    <2>1. events' \cup handling' = events \cup handling /\ events' \cap handling' = {}
        BY <1>1, <1>2
    <2>2. Retrying' = Retrying
        BY <2>1 DEF Retrying
    <2> QED
        BY <1>1, <2>1, <2>2 DEF Kept, OneRetry, tables
<1>5. OnTheWalk' /\ Noticed'
    BY <1>1 DEF Kept, OnTheWalk, Noticed, Walked, tables
<1>6. LoopLeavesNothing'
    BY <1>1, GoesOn DEF Kept
<1> QED
    BY <1>3, <1>4, <1>5, <1>6 DEF Kept

LEMMA AdapterAttempts ==
    ASSUME TypeOK, Kept, AdapterRequest
    PROVE  /\ ~conf.loop /\ at = 0 /\ ~running
           /\ UNCHANGED <<conf, time, waitedResponse, sent, ot, walk, answered>>
           /\ \E u \in Uids : \E s \in Slaves :
                 /\ Attempt(u, s, FALSE) /\ 1 .. uid' = 1 .. uid \cup {u}
                 /\ origin'[u] = External
                 /\ \A x \in 1 .. uid : origin'[x] = origin[x]
                 /\ \A e \in events : e.kind = "PACKET_REQUEST_RETRY" => e.id # u
<1>1. /\ ~conf.loop /\ at = 0 /\ ~running /\ handling = {}
      /\ UNCHANGED <<conf, time, waitedResponse, sent, ot, walk, answered>>
    BY DEF AdapterRequest, Kept, OnTheWalk
<1>2. PICK u \in {x \in Entries(waitedRequest) : origin[x] = External}
                 \cup (IF uid < MaxUid THEN {uid + 1} ELSE {}) :
        /\ uid' = Max({uid, u})
        /\ origin' = With(origin, u, External)
        /\ \E s \in IF u <= uid THEN {waitedRequest[u]} ELSE conf.external :
              \/ Takes(u, s) /\ UNCHANGED events
              \/ Refuses(u, s, FALSE)
    BY DEF AdapterRequest
<1>3. uid \in Nat /\ uid <= MaxUid /\ MaxUid \in Nat
    BY BoundAssumption DEF TypeOK
<1>4. \/ u \in DOMAIN waitedRequest /\ origin[u] = External /\ u \in 1 .. uid
      \/ u = uid + 1 /\ uid + 1 <= MaxUid /\ u \notin 1 .. uid
    BY <1>2, <1>3 DEF Entries, Kept, Places
<1>5. u \in Uids /\ u \in Nat
    BY <1>3, <1>4 DEF Uids
<1>6. uid' = (IF u \in 1 .. uid THEN uid ELSE u) /\ 1 .. uid' = 1 .. uid \cup {u}
    <2>1. uid' = IF uid >= u THEN uid ELSE u
        BY <1>2, <1>3, <1>5, MaxOfTwo
    <2> QED
        BY <1>3, <1>4, <2>1
<1>7. PICK s \in IF u <= uid THEN {waitedRequest[u]} ELSE conf.external :
        \/ Takes(u, s) /\ UNCHANGED events
        \/ Refuses(u, s, FALSE)
    BY <1>2
<1>8. s \in Slaves /\ s \in Walked
    <2>1. CASE u \in 1 .. uid
        <3>1. u <= uid /\ u \in DOMAIN waitedRequest
            BY <1>3, <1>4, <2>1
        <3> QED
            BY <1>7, <3>1 DEF Kept, OnTheWalk, TypeOK
    <2>2. CASE u = uid + 1
        <3>1. ~(u <= uid)
            BY <1>3, <2>2
        <3> QED
            BY <1>7, <3>1, ConfType DEF TypeOK
    <2> QED
        BY <1>4, <2>1, <2>2
<1>9. origin'[u] = External /\ \A x \in 1 .. uid : origin'[x] = origin[x]
    BY <1>2, <1>4 DEF With, Entries, TypeOK
<1>10. \A e \in events : e.kind = "PACKET_REQUEST_RETRY" => e.id # u
    <2>1. u \notin buffer
        BY <1>4 DEF Kept, Places
    <2> QED
        BY <2>1 DEF Kept, OneRetry, Retrying
<1>11. Attempt(u, s, FALSE)
    BY <1>1, <1>4, <1>5, <1>6, <1>7, <1>8, <1>9 DEF Attempt, walk
<1> QED
    BY <1>1, <1>5, <1>6, <1>8, <1>9, <1>10, <1>11

LEMMA KeptByAdapterRequest ==
    ASSUME TypeOK, Kept, AdapterRequest
    PROVE  Kept'
<1>1. /\ ~conf.loop /\ at = 0 /\ ~running
      /\ UNCHANGED <<conf, time, waitedResponse, sent, ot, walk, answered>>
    BY AdapterAttempts
<1>2. PICK u \in Uids, s \in Slaves :
        /\ Attempt(u, s, FALSE) /\ 1 .. uid' = 1 .. uid \cup {u}
        /\ origin'[u] = External
        /\ \A x \in 1 .. uid : origin'[x] = origin[x]
        /\ \A e \in events : e.kind = "PACKET_REQUEST_RETRY" => e.id # u
    BY AdapterAttempts
<1>3. Places' /\ OneRetry' /\ OnTheWalk' /\ Noticed'
    BY <1>1, <1>2, AttemptPlaces, AttemptRetry, AttemptWalk, AttemptNoticed DEF Kept
<1>4. u \in 1 .. uid => origin[u] = External
    BY <1>2
<1>5. Counts'
    <2>1. \A m \in Masters : Owed(m)' = Owed(m)
        <3>1. \A m \in Masters : m # External
            BY NamesAssumption
        <3> QED
            BY <1>1, <1>2, <1>4, <3>1 DEF Owed
    <2>2. \A m \in Masters \ conf.posted : ot'[m] = Cardinality(Owed(m)')
        BY <1>1, <2>1 DEF Kept, Counts, AnswersOwned, Owed
    <2>3. External \notin Masters /\ conf.posted \subseteq Masters
        BY NamesAssumption, ConfType DEF TypeOK
    <2>4. u \notin DOMAIN waitedResponse
        BY <1>2, <1>4, <2>3 DEF Kept, Counts, AnswersOwned
    <2>5. \A y \in 1..uid' :
              LET x == origin'[y] IN
              IF x \in conf.posted THEN y \in DOMAIN waitedResponse' /\ waitedResponse'[y] = Invalid
              ELSE IF x \in Masters /\ y \notin answered'
                   THEN y \in DOMAIN waitedResponse' /\ waitedResponse'[y] = x
                   ELSE y \notin DOMAIN waitedResponse'
        BY <1>1, <1>2, <2>3, <2>4 DEF Kept, Counts, AnswersOwned
    <2>6. AnswersOwned'
        BY <1>1, <2>2, <2>5 DEF AnswersOwned, Owed
    <2> QED
        BY <1>1, <1>2, <2>6 DEF Kept, Counts
<1>6. LoopLeavesNothing'
    BY <1>1, GoesOn DEF Kept, walk
<1> QED
    BY <1>3, <1>5, <1>6 DEF Kept

LEMMA KeptByStutter ==
    ASSUME Kept, UNCHANGED vars
    PROVE  Kept'
<1>1. Places' /\ Counts'
    BY SameRequests DEF Kept, vars
<1>2. OneRetry' /\ OnTheWalk'
    BY DEF Kept, OneRetry, OnTheWalk, Retrying, Walked, vars, tables, walk
<1>3. Noticed' /\ LoopLeavesNothing'
    BY DEF Kept, Noticed, LoopLeavesNothing, Ended, Ahead, vars, tables, walk
<1> QED
    BY <1>1, <1>2, <1>3 DEF Kept

LEMMA InitKept ==
    ASSUME Init
    PROVE  Kept
<1>1. /\ conf \in Configs /\ uid = 0 /\ 1 .. uid = {} /\ answered = {} /\ events = {} /\ handling = {}
      /\ buffer = {} /\ waitedRequest = <<>> /\ waitedResponse = <<>>
      /\ responses = [s \in Slaves |-> <<>>]
      /\ sent = [m \in Masters |-> 0] /\ ot = [m \in Masters |-> 0]
      /\ at = (IF conf.loop THEN 1 ELSE 0) /\ running = conf.loop
    BY DEF Init
<1>2. DOMAIN waitedRequest = {} /\ DOMAIN waitedResponse = {}
    BY <1>1
<1>3. \A s \in Slaves : responses[s] = <<>> /\ DOMAIN responses[s] = {} /\ Held(s) = {}
    BY <1>1 DEF Held
<1>4. Places
    BY <1>1, <1>2, <1>3 DEF Places
<1>5. OneRetry
    BY <1>1 DEF OneRetry, Retrying
<1>6. Counts
    <2>1. \A m \in Masters : {u \in 1 .. uid \ answered : origin[u] = m} = {}
        BY <1>1
    <2>2. AnswersOwned
        BY <1>1, <2>1, FS_EmptySet DEF AnswersOwned
    <2>3. \A m \in Masters : sent[m] <= conf.toSend[m]
        BY <1>1, ConfType
    <2> QED
        BY <1>1, <1>2, <2>2, <2>3, ConfType DEF Counts
<1>7. OnTheWalk
    BY <1>1, <1>2, <1>3, ConfType DEF OnTheWalk
<1>8. Noticed
    <2>1. SUFFICES ASSUME running
                   PROVE  \A m \in Masters : Ended(m) \/ Ahead(m)
        BY <1>3 DEF Noticed
    <2>2. TAKE m \in Masters
    <2>3. CASE conf.toSend[m] = 0
        BY <1>1, <2>3 DEF Ended
    <2>4. CASE conf.toSend[m] > 0
        <3>1. m \in Walked /\ at = 1
            BY <1>1, <2>1, <2>4, ConfType
        <3> QED
            BY <1>1, <3>1, ConfType, LenProperties DEF Walked, Ahead, ToSet
    <2> QED
        BY <1>1, <2>3, <2>4, ConfType
<1>9. LoopLeavesNothing
    BY <1>1 DEF LoopLeavesNothing
<1> QED
    BY <1>4, <1>5, <1>6, <1>7, <1>8, <1>9 DEF Kept

LEMMA Inductive ==
    ASSUME IInv, [Next]_vars
    PROVE  IInv'
<1>1. TypeOK /\ Kept
    BY DEF IInv, Kept
<1>2. TypeOK'
    BY <1>1, TypeNext DEF Kept
<1>3. Kept'
    BY <1>1, KeptByHandle, KeptByMasterSends, KeptByMasterWaits, KeptBySlaveSends,
       KeptBySlaveWaits, KeptByLoopTick, KeptByAdapterReturns, KeptByAdapterSend,
       KeptByAdapterRequest, KeptByStutter DEF Next, Send
<1> QED
    BY <1>2, <1>3 DEF IInv, Kept

(***************************************************************************)
(* The theorems.                                                           *)
(***************************************************************************)

\* The values of the variables stay in their types.
THEOREM TypeCorrect == Spec => []TypeOK
<1>1. Init => IInv
    BY InitType, InitKept DEF IInv, Kept
<1>2. IInv /\ [Next]_vars => IInv'
    BY Inductive
<1>3. IInv => TypeOK
    BY DEF IInv
<1> QED
    BY <1>1, <1>2, <1>3, PTL DEF Spec

\* The inductive invariant holds in every reachable state.
THEOREM Invariant == Spec => []IInv
<1>1. Init => IInv
    BY InitType, InitKept DEF IInv, Kept
<1>2. IInv /\ [Next]_vars => IInv'
    BY Inductive
<1> QED
    BY <1>1, <1>2, PTL DEF Spec

LEMMA PlacesAreOne ==
    ASSUME TypeOK, Places, OneRetry
    PROVE  OnePlace
<1>1. buffer \cup DOMAIN waitedRequest \subseteq 1 .. uid
    BY DEF Places
<1>2. ASSUME NEW u \in 1 .. uid
      PROVE  Refused(u) \/ Taken(u) \/ Answered(u)
    <2>1. RetriesOf(u) = {e \in Retrying : e.id = u}
        BY DEF RetriesOf, Retrying
    <2>2. u \notin buffer => RetriesOf(u) = {}
        BY <2>1 DEF OneRetry
    <2>3. \A s \in Slaves : s \in Holding(u) <=> u \in Held(s)
        BY DEF Holding, Held
    <2>4. Holding(u) \subseteq Slaves
        BY DEF Holding
    <2>5. CASE u \in DOMAIN waitedRequest
        <3>1. u \notin answered /\ Holding(u) = {}
            BY <2>3, <2>4, <2>5 DEF Places
        <3>2. u \in buffer <=> origin[u] # External
            BY <2>5 DEF Places
        <3>3. u \in buffer => Cardinality(RetriesOf(u)) = 1
            <4>1. HAVE u \in buffer
            <4>2. PICK e \in Retrying : e.id = u
                BY <4>1 DEF OneRetry
            <4>3. RetriesOf(u) = {e}
                BY <2>1, <4>2 DEF OneRetry
            <4> QED
                BY <4>3, FS_Singleton
        <3> QED
            BY <2>2, <2>5, <3>1, <3>2, <3>3 DEF Refused
    <2>6. CASE u \in answered
        <3>1. u \notin DOMAIN waitedRequest \cup buffer /\ Holding(u) = {}
            BY <2>3, <2>4, <2>6 DEF Places
        <3> QED
            BY <2>2, <2>6, <3>1 DEF Answered
    <2>7. CASE u \notin DOMAIN waitedRequest \cup answered
        <3>1. u \notin buffer
            BY <2>7 DEF Places
        <3>2. PICK s \in Slaves : u \in Held(s)
            BY <2>7 DEF Places
        <3>3. PICK i \in DOMAIN responses[s] : responses[s][i].uid = u
            BY <3>2 DEF Held
        <3>4. {j \in DOMAIN responses[s] : responses[s][j].uid = u} = {i}
            BY <3>3 DEF Places
        <3>5. \A r \in Slaves : u \in Held(r) => r = s
            BY <3>3 DEF Places, Held
        <3>6. Holding(u) = {s}
            BY <2>3, <2>4, <3>2, <3>5
        <3>7. Cardinality({j \in DOMAIN responses[s] : responses[s][j].uid = u}) = 1
            BY <3>4, FS_Singleton
        <3> QED
            BY <2>2, <2>7, <3>1, <3>6, <3>7 DEF Taken
    <2> QED
        BY <2>5, <2>6, <2>7
<1> QED
    BY <1>1, <1>2 DEF OnePlace

\* No request is lost or doubled: route, receive, handle and loop of the
\* manager keep each at one place, and each answer finds the master that asked.
THEOREM NothingAstray == Spec => []NoneAstray
<1>1. IInv => NoneAstray
    BY PlacesAreOne DEF IInv, Counts, NoneAstray
<1> QED
    BY <1>1, Invariant, PTL

-----------------------------------------------------------------------------
(* Refinement *)

held == [s \in Slaves |-> {responses[s][i].uid : i \in DOMAIN responses[s]}]
limit == [s \in Slaves |-> conf.maxOt[s]]

LEMMA HeldCount ==
    ASSUME NEW q \in Seq(Answers)
    PROVE  /\ Cardinality({q[i].uid : i \in DOMAIN q}) \in Nat /\ Len(q) \in Nat
           /\ Cardinality({q[i].uid : i \in DOMAIN q}) <= Len(q)
<1> DEFINE T == {q[i].uid : i \in DOMAIN q}
           f == [i \in 1 .. Len(q) |-> q[i].uid]
<1>1. Len(q) \in Nat /\ DOMAIN q = 1 .. Len(q)
    BY FirstOf
<1>2. f \in Surjection(1 .. Len(q), T)
    BY <1>1 DEF Surjection
<1>3. IsFiniteSet(1 .. Len(q)) /\ Cardinality(1 .. Len(q)) = Len(q)
    <2> DEFINE n == Len(q)
    <2>1. n \in Nat
        BY <1>1
    <2> HIDE DEF n
    <2>2. IsFiniteSet(1 .. n) /\ Cardinality(1 .. n) = IF 1 > n THEN 0 ELSE n - 1 + 1
        BY <2>1, FS_Interval
    <2>3. (IF 1 > n THEN 0 ELSE n - 1 + 1) = n
        BY <2>1
    <2> QED
        BY <2>2, <2>3 DEF n
<1> HIDE DEF T, f
<1>4. IsFiniteSet(T) /\ Cardinality(T) <= Cardinality(1 .. Len(q))
    BY <1>2, <1>3, FS_Surjection
<1>5. Cardinality(T) \in Nat
    BY <1>4, FS_CardinalityType
<1> QED
    BY <1>1, <1>3, <1>4, <1>5 DEF T

LEMMA SameCardinality ==
    ASSUME NEW S
    PROVE  RR!Cardinality(S) = Cardinality(S)
    BY DEF RR!Cardinality, Cardinality

LEMMA AttemptRefines ==
    ASSUME TypeOK, Places, NEW u, NEW s, NEW internal, Attempt(u, s, internal),
           1 .. uid' = 1 .. uid \cup {u}
    PROVE  [RR!Next]_RR!vars
<1>1. u \in Uids /\ s \in Slaves /\ UNCHANGED <<conf, answered>> /\ limit' = limit
    BY DEF Attempt, limit
<1>2. u \notin answered /\ \A r \in Slaves : u \notin held[r]
    BY <1>1 DEF Attempt, Places, Held, held, TypeOK, Uids
<1>3. u \in 1 .. uid \/ u \notin 1 .. uid
    OBVIOUS
<1>4. CASE Takes(u, s)
    <2>1. /\ \A r \in Slaves \ {s} : held'[r] = held[r]
          /\ held'[s] = held[s] \cup {u}
        BY <1>1, <1>4, HeldAfter DEF held, Held
    <2>2. held' = [held EXCEPT ![s] = @ \cup {u}]
        BY <1>1, <2>1 DEF held
    <2>3. Cardinality(held[s]) < limit[s]
        <3>1. responses[s] \in Seq(Answers) /\ conf.maxOt[s] \in Nat
            BY <1>1, ConfType DEF TypeOK, Answers
        <3>2. held[s] = {responses[s][i].uid : i \in DOMAIN responses[s]}
            BY <1>1 DEF held
        <3>3. /\ Cardinality(held[s]) \in Nat /\ Len(responses[s]) \in Nat
              /\ Cardinality(held[s]) <= Len(responses[s])
            BY <3>1, <3>2, HeldCount
        <3>4. Len(responses[s]) < conf.maxOt[s] /\ limit[s] = conf.maxOt[s]
            BY <1>1, <1>4, HeldAfter DEF limit
        <3> QED
            BY <3>1, <3>3, <3>4
    <2>4. u \in 1 .. uid => u \in 1 .. uid \ (answered \cup UNION {held[r] : r \in Slaves})
        BY <1>2
    <2>5. /\ u \in 1 .. uid \ (answered \cup UNION {held[r] : r \in Slaves}) \/ u \notin 1 .. uid
          /\ Cardinality(held[s]) < limit[s]
          /\ 1 .. uid' = 1 .. uid \cup {u}
          /\ held' = [held EXCEPT ![s] = @ \cup {u}]
          /\ UNCHANGED <<limit, answered>>
        BY <1>1, <2>2, <2>3, <2>4
    <2>6. RR!Waiting = 1 .. uid \ (answered \cup UNION {held[r] : r \in Slaves})
        BY DEF RR!Waiting, held
    <2>7. RR!Take(u, s)
        BY <2>5, <2>6, SameCardinality DEF RR!Take, held, limit
    <2> QED
        BY <1>1, <2>7 DEF RR!Next
<1>5. CASE Refuses(u, s, internal)
    <2>1. held' = held
        BY <1>5 DEF Refuses, held
    <2>2. CASE u \in 1 .. uid
        BY <1>1, <2>1, <2>2 DEF RR!vars, held, limit
    <2>3. CASE u \notin 1 .. uid
        BY <1>1, <2>1, <2>3 DEF RR!Next, RR!Issue, held, limit
    <2> QED
        BY <2>2, <2>3
<1> QED
    BY <1>4, <1>5 DEF Attempt

LEMMA StepRefines ==
    ASSUME TypeOK, Kept, [Next]_vars
    PROVE  [RR!Next]_RR!vars
<1>1. ASSUME NEW e \in handling, Handle(e)
      PROVE  [RR!Next]_RR!vars
    <2>1. CASE e.kind = "TICK"
        BY <1>1, <2>1 DEF Handle, RR!vars, tables
    <2>2. CASE e.kind # "TICK"
        <3>1. PICK s \in Slaves : Attempt(e.id, s, TRUE)
            BY <1>1, <2>2, HandleAttempts
        <3>2. e.id \in DOMAIN waitedRequest /\ uid' = uid
            BY <1>1, <2>2 DEF Handle, TypeOK, AllEvents, Kept, OneRetry, Places, Retrying
        <3>3. 1 .. uid' = 1 .. uid \cup {e.id}
            BY <3>2 DEF Kept, Places
        <3> QED
            BY <3>1, <3>3, AttemptRefines DEF Kept
    <2> QED
        BY <2>1, <2>2
<1>2. CASE MasterSends
    <2>1. /\ 1 .. uid' = 1 .. uid \cup {uid + 1}
          /\ \E s \in Slaves : Attempt(uid + 1, s, TRUE)
        BY <1>2, MasterAttempts
    <2> QED
        BY <2>1, AttemptRefines DEF Kept
<1>3. CASE AdapterRequest
    <2>1. PICK u \in Uids, s \in Slaves :
            Attempt(u, s, FALSE) /\ 1 .. uid' = 1 .. uid \cup {u}
        BY <1>3, AdapterAttempts
    <2> QED
        BY <2>1, AttemptRefines DEF Kept
<1>4. CASE SlaveSends
    <2>1. PICK s \in Slaves : s = Polled
        BY <1>4 DEF SlaveSends, Polls, Polled
    <2>2. responses[s][1].uid \in Uids
        <3>1. responses[s][1].uid \in 1 .. uid
            BY <1>4, <2>1, AnswerGiven
        <3>2. uid \in 0 .. MaxUid /\ MaxUid \in Nat
            BY BoundAssumption DEF TypeOK
        <3> QED
            BY <3>1, <3>2 DEF Uids
    <2>3. PICK u \in Uids : u = responses[s][1].uid
        BY <2>2
    <2>4. /\ u \in Held(s) /\ u \in 1 .. uid
          /\ answered' = answered \cup {u} /\ UNCHANGED <<conf, uid>>
          /\ Held(s)' = Held(s) \ {u}
          /\ \A r \in Slaves \ {s} : Held(r)' = Held(r)
        BY <1>4, <2>1, <2>3, AnswerGiven
    <2>5. /\ \A r \in Slaves \ {s} : held'[r] = held[r]
          /\ held'[s] = held[s] \ {u} /\ u \in held[s]
        BY <2>4 DEF held, Held
    <2>6. held' = [held EXCEPT ![s] = @ \ {u}]
        BY <2>5 DEF held
    <2>7. RR!Reply(u, s)
        BY <2>4, <2>5, <2>6 DEF RR!Reply, held, limit
    <2> QED
        BY <2>7 DEF RR!Next
<1>5. CASE MasterWaits
    BY <1>5 DEF MasterWaits, RR!vars
<1>6. CASE SlaveWaits
    BY <1>6 DEF SlaveWaits, RR!vars
<1>7. CASE LoopTick
    BY <1>7 DEF LoopTick, RR!vars
<1>8. CASE AdapterReturns
    BY <1>8 DEF AdapterReturns, RR!vars
<1>9. CASE AdapterSend
    BY <1>9 DEF AdapterSend, RR!vars
<1>10. CASE UNCHANGED vars
    BY <1>10 DEF vars, RR!vars
<1> QED
    BY <1>1, <1>2, <1>3, <1>4, <1>5, <1>6, <1>7, <1>8, <1>9, <1>10 DEF Next, Send

\* The tables, the retries and the ticks of the manager implement request and
\* reply: a slave within its limit takes a request that nobody holds, and what
\* it took is answered once.
THEOREM Implements == Spec => ImplementsRequestReply
<1>1. Init => RR!Init
    <2>1. SUFFICES ASSUME Init PROVE RR!Init
        OBVIOUS
    <2>2. uid = 0 /\ answered = {} /\ responses = [s \in Slaves |-> <<>>]
        BY <2>1 DEF Init
    <2>3. 1 .. uid = {}
        BY <2>2
    <2>4. \A s \in Slaves : DOMAIN responses[s] = {}
        BY <2>2
    <2> QED
        BY <2>2, <2>3, <2>4 DEF RR!Init
<1>2. IInv /\ [Next]_vars => [RR!Next]_RR!vars
    BY StepRefines DEF IInv, Kept
<1> QED
    BY <1>1, <1>2, Invariant, PTL DEF Spec, ImplementsRequestReply, RR!Spec

=============================================================================
