-------------------------------- MODULE Fifo --------------------------------
(***************************************************************************)
(* The ATP FIFO (fifo.cc): the data buffer of a modelled device, filled or *)
(* drained at a configured rate, which decides when its profile may send.  *)
(*                                                                         *)
(* One FIFO, of any configuration, under its callers: requests to send and *)
(* answers reach it in any order, a stream reset restarts it, and a FIFO   *)
(* linked to a partner profile is frozen and released by the partner's     *)
(* events.  The level events this FIFO broadcasts itself change nothing in *)
(* it and are left out.                                                    *)
(***************************************************************************)
EXTENDS Integers, Sequences, FiniteSetsExt

CONSTANTS
    Configs,    \* the configurations a FIFO may have, see Configuration
    Precision,  \* Fifo::errorCorrectionPrecision: fractions of a byte
    Sizes,      \* packet sizes, in bytes
    MaxTime,    \* bound: no call is made after MaxTime
    MaxOt,      \* bound: outstanding transactions of the profile
    MaxHeld     \* bound: bytes that a FIFO without limit holds when it grants

Kinds == {"READ", "WRITE"}

LevelEvents == {"FIFO_EMPTY", "FIFO_NOT_EMPTY", "FIFO_FULL", "FIFO_NOT_FULL"}

\* max = 0 is a FIFO without limit; home is the set of partner events a linked
\* FIFO waits for ({}: not linked); a checker's FIFO only monitors.
Configuration ==
    [kind : Kinds, rate : Nat, period : Nat \ {0}, max : Nat, start : Nat,
     tracked : BOOLEAN, home : SUBSET LevelEvents]

\* Fifo::init starts a FIFO empty or full; Fifo::setup refuses a rate beyond
\* the level.
ASSUME ConfigsAssumption ==
    \A c \in Configs : /\ c \in Configuration
                       /\ c.start \in {0, c.max}
                       /\ c.max > 0 => c.rate <= c.max
ASSUME PrecisionAssumption == Precision \in Nat \ {0}
ASSUME SizesAssumption == Sizes \subseteq Nat \ {0}
ASSUME BoundsAssumption == {MaxTime, MaxOt, MaxHeld} \subseteq Nat

VARIABLES
    conf,                   \* the configuration, which never changes
    now,                    \* TrafficProfileManager::time
    level, time, carry,     \* Fifo's own; carry in units of 1/Precision byte
    tracker, initialFill,   \* Fifo::tracker, Fifo::initialFillLevel
    ot, inFlight,           \* Fifo::ot, Fifo::inFlightData
    firstActivation, firstActivationTime, active,
    waits,                  \* EventManager::waited: partner events waited for
    profileOt,              \* TrafficProfileMaster::ot
    requestTime,            \* the request time the last grant reported
    flagged,                \* "underrun" or "overrun", raised by the last call
    requests,               \* environment: bytes of each request unanswered
    asked,                  \* history: the refusal in force, see Refusal
    drawn, rounded,         \* history: bytes moved by the rate, roundings made
    overtaken, early        \* history: see Answer and PartnerEvent

state == <<level, time, carry, tracker, initialFill, ot, inFlight,
           firstActivation, firstActivationTime, active, flagged>>
history == <<asked, drawn, rounded, overtaken, early>>
vars == <<conf, now, state, waits, profileOt, requestTime, requests, history>>

Linked  == conf.home # {}
Reading == conf.kind = "READ"

Refusal   == [data : Nat \ {0}, next : Nat]
NoRefusal == [data |-> 0, next |-> 0]

-----------------------------------------------------------------------------
\* The sum of the first n entries of s.
Prefix(s, n) ==
    LET sum[i \in 0 .. Len(s)] == IF i = 0 THEN 0 ELSE sum[i - 1] + s[i]
    IN  sum[n]
Total(s) == Prefix(s, Len(s))

\* (mutant) an entry that is used up exactly stays, empty.
ConsumedLazily(s, n) ==
    IF n = 0 THEN s
    ELSE IF Total(s) < n THEN << >>
    ELSE LET k == Min({j \in 1 .. Len(s) : Prefix(s, j) >= n})
         IN  <<Prefix(s, k) - n>> \o SubSeq(s, k + 1, Len(s))

\* Take n bytes from the front of s: whole entries, then a part of the next.
Consumed(s, n) ==
    IF n = 0 THEN s
    ELSE IF Total(s) < n THEN << >>
    ELSE LET k == Min({j \in 1 .. Len(s) : Prefix(s, j) >= n})
             rest == Prefix(s, k) - n
         IN  (IF rest = 0 THEN << >> ELSE <<rest>>) \o SubSeq(s, k + 1, Len(s))

\* deque::resize: cut off at the back, or filled up with zeroes.
Resized(s, n) ==
    [i \in 1 .. n |-> IF i <= Len(s) THEN s[i] ELSE 0]

-----------------------------------------------------------------------------
(***************************************************************************)
(* Fifo::update, with which every send and receive brings the FIFO to the  *)
(* time t of the call.  lvl is the level when it starts.                   *)
(***************************************************************************)
Drawing == active /\ conf.rate > 0

\* The bytes due, in units of 1/Precision: carry included, fraction rounded.
Due(t) ==
    LET bytes == (t - time) * conf.rate
        whole == bytes \div conf.period
        part  == (2 * (bytes % conf.period) * Precision + conf.period)
                    \div (2 * conf.period)
    IN  whole * Precision + carry + part

Amount(t) == IF Drawing THEN Due(t) \div Precision ELSE 0

\* (mutant) an overrun that is not capped.
LevelUncapped(lvl, t) ==
    IF Reading THEN Max({0, lvl - Amount(t)}) ELSE lvl + Amount(t)
LevelAfter(lvl, t) ==
    IF Reading THEN Max({0, lvl - Amount(t)})
               ELSE Min({conf.max, lvl + Amount(t)})

Underrun(lvl, t) == Reading /\ lvl < Amount(t)
Overrun(lvl, t)  == ~Reading /\ lvl + Amount(t) > conf.max

\* The whole periods that pass, once the initial data is used up.
Ticks(t) == IF Drawing /\ initialFill = 0 THEN (t - time) \div conf.period ELSE 0

\* The tracker grows by an entry for each of them, is emptied by an underrun and
\* resized by an overrun.
TrackerAfter(lvl, t) ==
    LET grown == tracker \o [i \in 1 .. Ticks(t) |-> conf.rate]
    IN  IF ~conf.tracked THEN tracker
        ELSE IF Underrun(lvl, t) THEN << >>
        ELSE IF Overrun(lvl, t) THEN Resized(grown, conf.max \div conf.rate)
        ELSE grown

\* What an update does besides changing the level and the tracker.  The first
\* update activates the FIFO, and so does any later one that finds it inactive
\* unless it is linked; an update that activates moves no data.
Update(t) ==
    /\ time' = t /\ now' = t
    /\ carry' = IF Drawing THEN Due(t) % Precision ELSE carry
    /\ initialFill' = IF Drawing THEN Max({0, initialFill - Amount(t)}) ELSE initialFill
    /\ active' = (active \/ ~Linked \/ ~firstActivation)
    /\ firstActivation' = (firstActivation \/ ~active)
    /\ firstActivationTime' = IF active \/ firstActivation THEN firstActivationTime ELSE t
    /\ drawn' = drawn + Amount(t)
    /\ rounded' = rounded + IF Drawing /\ t > time THEN 1 ELSE 0

Flag(lvl, t) ==
    flagged' = IF Underrun(lvl, t) THEN "underrun"
               ELSE IF Overrun(lvl, t) THEN "overrun" ELSE "none"

-----------------------------------------------------------------------------
(***************************************************************************)
(* Fifo::nextTransmissionTime, for a FIFO at level lvl at time t, whose    *)
(* rate periods are counted from time "from".                              *)
(***************************************************************************)
\* The first end of a rate period that is not before t.
Base(t, from) ==
    from + ((t - from + conf.period - 1) \div conf.period) * conf.period

\* The bytes the rate moves from t to there.
Forecast(t, from) == ((Base(t, from) - t) * conf.rate) \div conf.period

\* The bytes to wait for after that, rounded up to whole periods.
Missing(lvl, t, from, data) ==
    data - Forecast(t, from) + inFlight + conf.rate - 1
        + (IF Reading THEN lvl - conf.max ELSE -lvl)

\* (mutant) a period too many.
NextTimeLate(lvl, t, from, data) ==
    IF conf.rate > 0 /\ (conf.max = 0 \/ conf.max - inFlight >= data)
    THEN Base(t, from) + conf.period
            + (Missing(lvl, t, from, data) \div conf.rate) * conf.period
    ELSE 0

NextTransmissionTime(lvl, t, from, data) ==
    IF conf.rate > 0 /\ (conf.max = 0 \/ conf.max - inFlight >= data)
    THEN Base(t, from) + (Missing(lvl, t, from, data) \div conf.rate) * conf.period
    ELSE 0

\* (mutant) bytes in flight are forgotten.
FitsAlone(lvl, data) ==
    \/ conf.max = 0
    \/ IF Reading THEN lvl + data <= conf.max ELSE lvl >= data

Fits(lvl, data) ==
    \/ conf.max = 0
    \/ IF Reading THEN lvl + data + inFlight <= conf.max ELSE lvl >= data + inFlight

-----------------------------------------------------------------------------
Init ==
    /\ conf \in Configs
    /\ level = conf.start /\ initialFill = conf.start
    /\ time = 0 /\ carry = 0
    /\ tracker = << >> /\ ot = << >> /\ inFlight = 0
    /\ active = FALSE /\ firstActivation = FALSE /\ firstActivationTime = 0
    /\ waits = conf.home
    /\ now = 0 /\ profileOt = 0 /\ requestTime = 0 /\ flagged = "none"
    /\ requests = << >>
    /\ asked = NoRefusal /\ drawn = 0 /\ rounded = 0
    /\ overtaken = FALSE /\ early = FALSE

\* How far back the front of the tracker places the request: a period for each
\* entry behind it.
RequestTime(t, left) ==
    IF conf.rate > 0 /\ left # << >> THEN t - (Len(left) - 1) * conf.period ELSE t

\* Fifo::send when the FIFO can take the request, and the profile's record of
\* it.  The profile sends nothing while it has MaxOt requests outstanding.
Grant(t, data) ==
    /\ profileOt < MaxOt
    /\ conf.max = 0 => level <= MaxHeld
    /\ Fits(LevelAfter(level, t), data)
    /\ Update(t) /\ Flag(level, t)
    /\ level' = LevelAfter(level, t)
    /\ inFlight' = inFlight + data
    /\ ot' = Append(ot, data)
    /\ tracker' = IF conf.rate > 0 THEN Consumed(TrackerAfter(level, t), data)
                                   ELSE TrackerAfter(level, t)
    /\ requestTime' = RequestTime(t, tracker')
    /\ profileOt' = profileOt + 1
    /\ requests' = Append(requests, [size |-> data, left |-> data])
    /\ asked' = NoRefusal
    /\ UNCHANGED <<conf, waits, overtaken, early>>

\* Fifo::send when it cannot: the profile is told when to ask again.
Refuse(t, data) ==
    /\ profileOt < MaxOt
    /\ ~Fits(LevelAfter(level, t), data)
    /\ Update(t) /\ Flag(level, t)
    /\ level' = LevelAfter(level, t)
    /\ tracker' = TrackerAfter(level, t)
    /\ requestTime' = t
    /\ asked' = [data |-> data,
                 next |-> NextTransmissionTime(level', t, firstActivationTime', data)]
    /\ UNCHANGED <<conf, waits, inFlight, ot, profileOt, requests, overtaken, early>>

\* (mutant) the answer to a READ is not taken out of flight.
LandedNot(data) == IF Reading THEN inFlight ELSE inFlight - Min({inFlight, data})

Landed(data) == inFlight - Min({inFlight, data})

\* The level with an answer's data taken in or handed over.
Answered(data) ==
    IF Reading
    THEN level + (IF conf.max > 0 THEN Min({data, conf.max - level}) ELSE data)
    ELSE level - Min({level, data})

\* What Fifo::receive returns: an entry of the outstanding list was used up.
Whole(before, after) == Len(after) < Len(before)

\* Fifo::receive: an answer, whole or in parts, to the i-th unanswered request.
\* The profile counts a request as complete when the call says "whole".
Answer(t, i, data) ==
    /\ ot # << >> /\ data <= inFlight
    /\ Update(t) /\ Flag(Answered(data), t)
    /\ level' = LevelAfter(Answered(data), t)
    /\ inFlight' = Landed(data)
    /\ ot' = Consumed(ot, data)
    /\ tracker' = TrackerAfter(Answered(data), t)
    /\ profileOt' = profileOt - IF Whole(ot, ot') THEN 1 ELSE 0
    /\ requests' = IF data < requests[i].left
                   THEN [requests EXCEPT ![i].left = @ - data]
                   ELSE SubSeq(requests, 1, i - 1) \o SubSeq(requests, i + 1, Len(requests))
    /\ overtaken' = (overtaken \/ \E j \in 1 .. i - 1 : requests[j].size # requests[i].size)
    /\ UNCHANGED <<conf, waits, requestTime, asked, early>>

\* Fifo::reset, from the reset of a stream: its profiles have terminated, so no
\* request is unanswered.  What the FIFO waits for is not restored.
Reset ==
    /\ requests = << >>
    /\ UNCHANGED <<conf, now, waits, requestTime, flagged, requests>>
    /\ level' = conf.start /\ initialFill' = conf.start
    /\ time' = 0 /\ carry' = 0
    /\ tracker' = << >> /\ ot' = << >> /\ inFlight' = 0
    /\ active' = FALSE /\ firstActivation' = FALSE /\ firstActivationTime' = 0
    /\ profileOt' = 0
    /\ asked' = NoRefusal /\ drawn' = 0 /\ rounded' = 0
    /\ overtaken' = FALSE /\ early' = (early \/ waits # conf.home)

\* (mutant) the FIFO waits for the same event again.
SameEvent(e) == e

Opposite(e) ==
    CASE e = "FIFO_EMPTY"     -> "FIFO_NOT_EMPTY"
      [] e = "FIFO_NOT_EMPTY" -> "FIFO_EMPTY"
      [] e = "FIFO_FULL"      -> "FIFO_NOT_FULL"
      [] e = "FIFO_NOT_FULL"  -> "FIFO_FULL"

\* Fifo::receiveEvent, for an event that is waited for: the FIFO is frozen, or
\* released, and waits for the opposite one.
PartnerEvent(e) ==
    /\ e \in waits
    /\ waits' = (waits \ {e}) \cup {Opposite(e)}
    /\ active' = ~active
    /\ asked' = NoRefusal
    /\ early' = (early \/ ~firstActivation)
    /\ UNCHANGED <<conf, now, level, time, carry, tracker, initialFill, ot, inFlight,
                   firstActivation, firstActivationTime, flagged, profileOt,
                   requestTime, requests, drawn, rounded, overtaken>>

\* Fifo::receiveEvent, for the partner's TERMINATION: EventManager forgets what
\* was waited for but answers that the event itself was not, and the FIFO
\* therefore does nothing.
PartnerTerminates ==
    /\ waits # {}
    /\ waits' = {}
    /\ UNCHANGED <<conf, now, state, profileOt, requestTime, requests, history>>

Next == \/ \E t \in now .. MaxTime, data \in Sizes : Grant(t, data) \/ Refuse(t, data)
        \/ \E t \in now .. MaxTime, i \in 1 .. Len(requests) :
                \E data \in 1 .. requests[i].left : Answer(t, i, data)
        \/ Reset
        \/ \E e \in LevelEvents : PartnerEvent(e)
        \/ PartnerTerminates

Spec == Init /\ [][Next]_vars
-----------------------------------------------------------------------------
(***************************************************************************)
(* Properties.                                                             *)
(***************************************************************************)

\* Numbers and flags keep their range: in particular the carry stays below one
\* byte, and no time of the FIFO is ahead of the manager's.
NumbersOK ==
    /\ conf \in Configs
    /\ {now, level, time, initialFill, inFlight, firstActivationTime} \subseteq Nat
    /\ firstActivationTime <= time /\ time <= now
    /\ carry \in 0 .. Precision - 1
    /\ firstActivation \in BOOLEAN /\ active \in BOOLEAN
    /\ waits \subseteq LevelEvents
    /\ flagged \in {"none", "underrun", "overrun"}
    /\ asked \in Refusal \cup {NoRefusal}
    /\ early \in BOOLEAN

\* The state keeps its shape.
TypeOK ==
    /\ NumbersOK
    /\ tracker \in Seq(Nat) /\ ot \in Seq(Nat \ {0})
    /\ profileOt \in Nat /\ requestTime \in Int
    /\ requests \in Seq([size : Nat \ {0}, left : Nat \ {0}])
    /\ drawn \in Nat /\ rounded \in Nat
    /\ overtaken \in BOOLEAN

\* A READ FIFO has room for everything in flight and a WRITE FIFO holds it, at
\* any rate and whatever the order of the calls: so an answer is never cut at
\* the level or at zero, and maxLevel - level, unsigned, never wraps around.
Capacity ==
    IF Reading THEN conf.max > 0 => level + inFlight <= conf.max
               ELSE /\ level <= conf.max
                    /\ conf.max > 0 => inFlight <= level

\* The bytes in flight are those of the outstanding list, and those the profile
\* has not been answered: partial answers and answers to a later request
\* included.  An answer therefore never empties the list while bytes remain
\* (the loop of Fifo::receive would run past its end).
InFlightIsOutstanding ==
    /\ inFlight = Total(ot)
    /\ inFlight = Total([i \in 1 .. Len(requests) |-> requests[i].left])

\* The profile's count of outstanding transactions, which keeps it from
\* terminating, is that of its FIFO, unless an answer has overtaken one to an
\* older request of another size.
OutstandingAgree == ~overtaken => profileOt = Len(ot)

Shortfall(data) ==
    IF Reading THEN level + data + inFlight - conf.max ELSE data + inFlight - level

\* A refused request can be taken at the time its refusal named, whatever
\* answers came between, and even if they split the wait into updates that each
\* round.  Periods that do not divide the precision can miss by a single byte.
ForecastHolds ==
    [][asked.next > 0 /\ asked' # NoRefusal /\ now' >= asked.next /\ ~Linked
        => \A data \in {asked.data} :
            Shortfall(data)' <= IF Precision % conf.period = 0 THEN 0 ELSE 1]_vars

\* Nor is the named time more than two rate periods too late.
ForecastTight ==
    [][asked.next > 0 /\ asked' # NoRefusal /\ now' + 2 * conf.period <= asked.next
        => \A data \in {asked.data} : Shortfall(data)' > 0]_vars

\* A refusal names 0 (ask again after an answer) or a time that is yet to come:
\* the event loop cannot be made to retry at the same time for ever.
RetryAhead ==
    [][asked' \notin {asked, NoRefusal} => asked'.next = 0 \/ asked'.next > now']_vars

\* The rate is kept over any sequence of calls: the bytes moved since the
\* activation differ from the exact amount by at most half a unit of precision
\* for each rounding.
RateExact ==
    ~Linked /\ firstActivation =>
        LET exact == 2 * (time - firstActivationTime) * conf.rate * Precision
            moved == 2 * conf.period * (drawn * Precision + carry)
        IN  moved - exact \in -(conf.period * rounded) .. conf.period * rounded

\* The bytes are accounted for: those in flight, those the profile waits for, and
\* those moved since the activation agree over any sequence of sends, partial
\* answers, updates and resets, so that neither an answer nor the rounding of
\* the rate ever makes or loses a byte.
BytesExact == InFlightIsOutstanding /\ OutstandingAgree /\ RateExact

\* A grant dates the request between the activation and now: the unsigned
\* subtraction that computes the date cannot pass zero (the error "computed
\* negative queuing latency").
RequestTimeSane ==
    [][profileOt' > profileOt
        => firstActivationTime' <= requestTime' /\ requestTime' <= now']_vars

\* What a refusal and a grant say of time can be relied on: the named time is
\* late enough, not too late, never the present, and no request is dated before
\* the activation.
ForecastExact == ForecastHolds /\ ForecastTight /\ RetryAhead /\ RequestTimeSane

\* A FIFO linked by one event of its partner, which was activated before the
\* first such event and never reset while frozen, is frozen exactly from that
\* event to the opposite one.
FreezePolarity ==
    (\E e \in LevelEvents : conf.home = {e}) /\ firstActivation /\ ~early /\ waits # {}
        => (active <=> waits = conf.home)

\* READ and WRITE FIFOs are credit limiters.
Credit == IF conf.max = 0 THEN 0
          ELSE IF Reading THEN conf.max - level - inFlight ELSE level - inFlight
CL == INSTANCE CreditLimiter WITH limit <- conf.max, credit <- Credit, flying <- inFlight
ImplementsCreditLimiter == CL!CLSpec
=============================================================================
