------------------------------- MODULE Kronos -------------------------------
(***************************************************************************)
(* The Kronos calendar queue (kronos.cc) under the two ways in which the   *)
(* profile manager drives it: TrafficProfileManager::loop, which jumps to  *)
(* Kronos::next() and ticks, and TrafficProfileManager::send called by an  *)
(* external adapter at times of its own choosing.                          *)
(*                                                                         *)
(* An event is a record [id, time]; "id" is the order of scheduling and    *)
(* stands for the packet UID (or the profile) the event is about.          *)
(***************************************************************************)
EXTENDS Integers, FiniteSets, Sequences, FiniteSetsExt

CONSTANTS
    Width,          \* Kronos::bucketWidth, in ATP time units
    Size,           \* calendar.size(): calendar length / bucket width
    Past,           \* times below the clock that may still be scheduled (see Schedule)
    MaxTime,        \* bound: no event is scheduled and no poll made after MaxTime
    MaxEvents       \* bound: events scheduled in a behaviour

ASSUME WidthAssumption == Width \in Nat \ {0}
ASSUME SizeAssumption  == Size \in Nat \ {0}
ASSUME PastAssumption  == Past \subseteq Nat
ASSUME BoundAssumption == MaxTime \in Nat /\ MaxEvents \in Nat

VARIABLES
    mode,       \* "loop" or "adapter": who advances the clock
    now,        \* TrafficProfileManager::time
    calendar,   \* Kronos::calendar, a list of events per bucket
    epoch,      \* Kronos::epoch
    bucket,     \* Kronos::bucket; with epoch, the cursor
    counter,    \* Kronos::counter
    issued,     \* history: how many events have been scheduled
    delivered   \* history: the events handed out, with the clock at delivery

vars == <<mode, now, calendar, epoch, bucket, counter, issued, delivered>>

Buckets == 0 .. Size - 1
Events  == [id : Nat, time : Nat]

Quantum(t)  == t \div Width
BucketOf(t) == Quantum(t) % Size
EpochOf(t)  == Quantum(t) \div Size

Cursor == epoch * Size + bucket

Held(s) == {s[i] : i \in 1 .. Len(s)}
InCalendar(cal) == UNION {Held(cal[b]) : b \in Buckets}
Pending == InCalendar(calendar)

\* The events handed out so far, without the time of their delivery.
Served == {[id |-> d.id, time |-> d.time] : d \in delivered}

-----------------------------------------------------------------------------
\* How many leading events of the list s are not later than t: where both
\* list walks of the code, the one that inserts and the one that pops, stop.
Leading(s, t) ==
    CHOOSE n \in 0 .. Len(s) :
        /\ \A i \in 1 .. n : s[i].time <= t
        /\ n < Len(s) => s[n + 1].time > t

\* (mutant) an event is dropped when another has its time.
InsertUnlessTied(s, e) ==
    IF \E x \in Held(s) : x.time = e.time THEN s
    ELSE LET n == Leading(s, e.time)
         IN  SubSeq(s, 1, n) \o <<e>> \o SubSeq(s, n + 1, Len(s))

\* An event goes in front of the first one whose time is not smaller.
Insert(s, e) ==
    LET n == Leading(s, e.time - 1)
    IN  SubSeq(s, 1, n) \o <<e>> \o SubSeq(s, n + 1, Len(s))

Kept(s, t)   == SubSeq(s, Leading(s, t) + 1, Len(s))
Popped(s, t) == Held(SubSeq(s, 1, Leading(s, t)))

\* (mutant) the walk does not wrap around.
ScannedNoWrap(t) ==
    LET distance == BucketOf(t) - bucket
    IN  {i % Size : i \in bucket .. bucket + (IF distance > 0 THEN distance ELSE 0)}

\* The buckets get() walks: from the cursor's to the one of the new time, or
\* the whole calendar when that one is not ahead of the cursor's.
Scanned(t) ==
    LET distance == BucketOf(t) - bucket
        stop == bucket + (IF distance > 0 THEN distance ELSE Size - distance)
    IN  {i % Size : i \in bucket .. stop}

\* How far the cursor is moved past empty buckets, from quantum q on.
Skip(cal, q, n) ==
    IF n = 0 THEN 0
    ELSE CHOOSE d \in 0 .. Size - 1 :
            /\ cal[(q + d) % Size] # << >>
            /\ \A x \in 0 .. d - 1 : cal[(q + x) % Size] = << >>

\* (mutant) the bucket index wraps one too late.
CursorBucketLate(q) == IF q > 0 /\ q % Size = 0 THEN Size ELSE q % Size

CursorBucket(q) == q % Size

\* Kronos::get(), called with the clock at t.
Get(t) ==
    LET due  == UNION {Popped(calendar[b], t) : b \in Scanned(t)}
        left == [b \in Buckets |-> IF b \in Scanned(t)
                                   THEN Kept(calendar[b], t) ELSE calendar[b]]
        n    == counter - Cardinality(due)
        q    == Quantum(t) + Skip(left, Quantum(t), n)
    IN  /\ calendar'  = left
        /\ counter'   = n
        /\ epoch'     = q \div Size
        /\ bucket'    = CursorBucket(q)
        /\ delivered' = delivered \cup
                {[id |-> e.id, time |-> e.time, at |-> t] : e \in due}

\* (mutants) next() ignores the epoch; next() answers the start of the slice.
NextIgnoringEpoch ==
    LET filled == {d \in Buckets : calendar[(bucket + d) % Size] # << >>}
    IN  IF counter = 0 THEN 0 ELSE calendar[(bucket + Min(filled)) % Size][1].time
NextSlice ==
    LET times == {calendar[b][1].time : b \in {c \in Buckets : calendar[c] # << >>}}
    IN  IF counter = 0 THEN 0 ELSE Quantum(Min(times)) * Width

\* Kronos::next(): the first event of the cursor's epoch met when walking the
\* whole calendar from the cursor; failing that, the earliest bucket front.
NextTime ==
    LET filled == {b \in Buckets : calendar[b] # << >>}
        front(b) == calendar[b][1].time
        at(d) == (bucket + d) % Size
        thisEpoch == {d \in Buckets : at(d) \in filled /\ EpochOf(front(at(d))) = epoch}
    IN  IF counter = 0 THEN 0
        ELSE IF thisEpoch # {} THEN front(at(Min(thisEpoch)))
        ELSE Min({front(b) : b \in filled})

-----------------------------------------------------------------------------
(***************************************************************************)
(* Initially Kronos is empty; the loop's first tick, at time 0, finds      *)
(* nothing and leaves the cursor at the origin.                            *)
(***************************************************************************)
Init ==
    /\ mode \in {"loop", "adapter"}
    /\ now = 0
    /\ calendar = [b \in Buckets |-> << >>]
    /\ epoch = 0 /\ bucket = 0 /\ counter = 0
    /\ issued = 0 /\ delivered = {}

(***************************************************************************)
(* The manager schedules a packet retry (in receive) or the next TICK (in  *)
(* tick), always from within a tick, after get().  Times are not in the    *)
(* past, with two exceptions, both of receive scheduling a retry:          *)
(* Fifo::nextTransmissionTime answers 0 for a request that can never be    *)
(* accepted, and a slave whose FIFO answers 0 names the time of its next   *)
(* answer, which a tick that came late may have passed.  Past holds the    *)
(* times that may be scheduled although they are past.                     *)
(***************************************************************************)
Schedule(t) ==
    /\ issued < MaxEvents
    /\ t >= now \/ t \in Past
    /\ LET b == BucketOf(t)
       IN  calendar' = [calendar EXCEPT ![b] = Insert(@, [id |-> issued, time |-> t])]
    /\ counter' = counter + 1
    /\ issued' = issued + 1
    /\ UNCHANGED <<mode, now, epoch, bucket, delivered>>

\* (mutant) setTime() takes any time.
SetTimeBack(t) == t

\* setTime(): a time in the past leaves the clock where it is.
SetTime(t) == IF t >= now THEN t ELSE now

\* One turn of TrafficProfileManager::loop: setTime(next), then tick's get at the
\* time that makes.  The loop ends for good when nothing is left.
LoopTick ==
    /\ mode = "loop"
    /\ counter > 0
    /\ now' = SetTime(NextTime)
    /\ Get(SetTime(NextTime))
    /\ UNCHANGED <<mode, issued>>

\* TrafficProfileManager::send(t) on behalf of an adapter: any later time.
AdapterSend(t) ==
    /\ mode = "adapter"
    /\ t >= now
    /\ now' = t
    /\ Get(t)
    /\ UNCHANGED <<mode, issued>>

Next == \/ \E t \in 0 .. MaxTime : Schedule(t)
        \/ LoopTick
        \/ \E t \in 0 .. MaxTime : AdapterSend(t)

Spec == Init /\ [][Next]_vars

\* loop() is a do-while of the only thread: it keeps ticking while events remain.
FairSpec == Spec /\ WF_vars(LoopTick)
-----------------------------------------------------------------------------
(***************************************************************************)
(* Properties.                                                             *)
(***************************************************************************)

\* The state keeps its shape: buckets hold events, the cursor names a bucket.
TypeOK ==
    /\ mode \in {"loop", "adapter"}
    /\ now \in Nat
    /\ calendar \in [Buckets -> Seq(Events)]
    /\ epoch \in Nat /\ bucket \in Buckets /\ counter \in Nat
    /\ issued \in Nat
    /\ \A d \in delivered : d \in [id : Nat, time : Nat, at : Nat]

\* Every event sits in the bucket its time selects and every bucket is in time
\* order: what lets get() stop at the first event that is not due.
BucketsOrdered ==
    \A b \in Buckets : \A i \in 1 .. Len(calendar[b]) :
        /\ BucketOf(calendar[b][i].time) = b
        /\ \A j \in i .. Len(calendar[b]) : calendar[b][i].time <= calendar[b][j].time

\* Every scheduled event is in the calendar or has been delivered, never both,
\* and only once: nothing is lost, and nothing is delivered twice by a get()
\* that walks a bucket twice (as it does when it wraps around).
ExactlyOnce ==
    /\ {e.id : e \in Pending \cup delivered} = 0 .. issued - 1
    /\ \A d \in delivered : \A e \in Pending \cup (delivered \ {d}) : e.id # d.id
    /\ \A b, c \in Buckets :
        \A i \in 1 .. Len(calendar[b]), j \in 1 .. Len(calendar[c]) :
            calendar[b][i].id = calendar[c][j].id => b = c /\ i = j

\* The counter, which decides whether the loop goes on and whether get() may
\* skip empty buckets (a walk that never ends if all are), counts the calendar.
CounterExact == counter = Cardinality(Pending)

\* The calendar queue keeps its account: it is in order, holds or has delivered
\* every event exactly once, and its counter says how many it holds.  The three
\* rest on one another: get() loses nothing only where the buckets are in order,
\* and ends only where the counter is right.
CalendarExact == BucketsOrdered /\ ExactlyOnce /\ CounterExact

\* No event is handed out before the manager's clock has reached its time.
NeverEarly == \A d \in delivered : d.at >= d.time

\* next() is the time of the earliest event as long as no event lies behind
\* the cursor that get() left.  Without the condition it is not, which is how the
\* loop comes to hand out events late (see OnTime).
NextExactAhead ==
    (counter > 0 /\ \A e \in Pending : Quantum(e.time) >= Cursor)
        => NextTime = Min({e.time : e \in Pending})

\* A poll leaves no due event behind, provided none lay behind the cursor and
\* the clock has not moved a whole calendar length past it.
PollComplete ==
    [][(/\ mode = "adapter" /\ issued' = issued
        /\ \A e \in Pending : Quantum(e.time) >= Cursor
        /\ Quantum(now') < Cursor + Size)
       => \A e \in Pending' : e.time > now']_vars

\* Every turn of the loop delivers an event of the time next() named, also when
\* that time is past and the clock stays where it is: get() walks its bucket, so
\* the loop cannot spin on next().  Only an event that was scheduled in the past
\* may have to wait for the turn after.
TickDelivers ==
    [][LoopTick /\ NextTime \notin Past
       => \E d \in delivered' \ delivered : d.time = NextTime /\ d.at = now']_vars

\* A get() reaches what it has to: all that is due for an adapter, which may not come
\* back for long, and what next() named for the loop, which would spin without.
GetsComplete == PollComplete /\ TickDelivers

\* The loop empties the calendar once nothing more is scheduled.
LoopDrains == (mode = "loop") ~> [](counter = 0)

\* Kronos implements the future event list.
FEL == INSTANCE FutureEventList WITH
           looped <- mode = "loop", clock <- now, pending <- Pending, done <- Served
ImplementsFutureEventList == FEL!FELSpec

\* What kronos.hh says of get() ("Events which happen at the current time") and of
\* next() ("the next scheduled event time"): the loop, which goes from one to the
\* other, hands out every event at its time.  Violated: an event scheduled behind
\* the cursor is overlooked by next() and handed out at the time of a later one.
OnTime ==
    mode = "loop" => \A d \in delivered : d.time \notin Past => d.at = d.time
=============================================================================
