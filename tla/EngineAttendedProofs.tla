------------------------ MODULE EngineAttendedProofs ------------------------
(***************************************************************************)
(* Nothing is left behind, for any profiles, files and streams in which    *)
(* those that stop with a partner stop with one that is described before.  *)
(*                                                                         *)
(*   Obedient  a master that stops with a partner is halted as the partner *)
(*             said last, or the news is on its way                        *)
(*   Joining   who sends is polled, awaits others, or is about to begin    *)
(*   Leading   a partner is polled before those that stop with it          *)
(*   Sourced   who says something during a walk has been reached by it     *)
(*   Unstalled while no update is scheduled, who is polled and has not     *)
(*             terminated has a reason to rest, or is still to be reached  *)
(*   Attended  all of these, and what they rest on                         *)
(***************************************************************************)
EXTENDS EngineProofs

-----------------------------------------------------------------------------
(* Masters that start and stop with another. *)

StopsWith(p, q) == Event("PROFILE_LOCKED", q) \in Of(p).waits
Sends(p) == Of(p).role # "checker"

LEMMA CategoryOf ==
    /\ \A t \in Types : Category(t) \in Categories
    /\ \A t \in Types : Category(t) = "SEND_STATUS" <=> t \in {"PROFILE_LOCKED", "PROFILE_UNLOCKED"}
    /\ \A t \in Types : Category(t) = "PROFILE" <=> t \in {"ACTIVATION", "TERMINATION"}
    BY DEF Types, Category, Categories

LEMMA StopsOf ==
    ASSUME StopsWithOne, conf \in Configs, NEW p \in Ids, NEW q \in Ids, StopsWith(p, q)
    PROVE  /\ Master(p) /\ ~conf.autoReset /\ Event("PROFILE_UNLOCKED", q) \notin Of(p).waits
           /\ \A w \in Of(p).waits : Category(w.type) = "SEND_STATUS" => w = Event("PROFILE_LOCKED", q)
<1> DEFINE lock == Event("PROFILE_LOCKED", q)
           unlock == Event("PROFILE_UNLOCKED", q)
<1>1. lock \in conf.profile[p].waits /\ Category(lock.type) = "SEND_STATUS"
    BY DEF StopsWith, Of, Event, Category
<1>2. Category(unlock.type) = "SEND_STATUS" /\ unlock # lock
    BY DEF Event, Category
<1> HIDE DEF lock, unlock
<1>3. /\ conf.profile[p].role = "master" /\ ~conf.autoReset
      /\ \A w \in conf.profile[p].waits : Category(w.type) = "SEND_STATUS" => w = lock
    BY <1>1 DEF StopsWithOne
<1> QED
    BY <1>2, <1>3 DEF Of, Master, lock, unlock

-----------------------------------------------------------------------------
(* What most steps leave alone. *)

Aside ==
    /\ UNCHANGED <<conf, waited, waitEventMap, emitted, activeList>>
    /\ \A p \in Ids : (halted'[p] => halted[p]) /\ (~terminated'[p] => halted'[p] = halted[p])
    /\ \A c \in InProgress' : c.op \in {"notify", "configure", "cache"} => c \in InProgress
    /\ \A c \in InProgress : c.op = "configure" \/ (c.op = "notify" /\ c.to # {}) => c \in InProgress'

LEMMA AsideWalk ==
    ASSUME Typed, \/ MasterSends \/ MasterRefused \/ MasterIdle \/ DelaySend \/ CheckerSkipped
                  \/ EndWalk \/ StreamCacheUpdate \/ Delivered \/ AllAsked \/ Answered
                  \/ \E p \in Ids : CheckerRecords(p) \/ AskStream(p)
    PROVE  /\ UNCHANGED <<conf, waited, waitEventMap, emitted, activeList>>
           /\ \A p \in Ids : (halted'[p] => halted[p]) /\ (~terminated'[p] => halted'[p] = halted[p])
<1>1. CASE MasterIdle
    <2> DEFINE p == Polled
               ends == Terminates(p, ot[p])
    <2>1. /\ UNCHANGED <<conf, waited, waitEventMap, emitted, activeList>> /\ p \in Ids
          /\ terminated' = [terminated EXCEPT ![p] = @ \/ ends]
          /\ halted' = [halted EXCEPT ![p] = @ /\ ~ends]
        BY <1>1, MasterIdleMakes DEF MasterIdle, busVars
    <2> HIDE DEF ends, p
    <2> QED
        BY <2>1 DEF Typed
<1>2. CASE Answered
    <2> DEFINE p == Head(todo).profile
               ends == Terminates(p, ot[p])
    <2>1. /\ UNCHANGED <<conf, waited, waitEventMap, emitted, activeList>> /\ p \in Ids
          /\ terminated' = [terminated EXCEPT ![p] = @ \/ ends]
          /\ halted' = [halted EXCEPT ![p] = @ /\ ~ends]
        BY <1>2, AnsweredMakes DEF Answered, busVars
    <2> HIDE DEF ends, p
    <2> QED
        BY <2>1 DEF Typed
<1>3. CASE MasterSends \/ MasterRefused \/ DelaySend \/ CheckerSkipped \/ EndWalk
    BY <1>3 DEF MasterSends, MasterRefused, DelaySend, CheckerSkipped, EndWalk, busVars, profileVars
<1>4. CASE StreamCacheUpdate \/ Delivered \/ AllAsked
    BY <1>4 DEF StreamCacheUpdate, Delivered, AllHeard, AllAsked, busVars, profileVars
<1>5. ASSUME NEW p \in Ids, CheckerRecords(p) \/ AskStream(p)
      PROVE  UNCHANGED <<conf, waited, waitEventMap, emitted, activeList, halted>>
    BY <1>5 DEF CheckerRecords, AskStream, busVars, profileVars
<1> QED
    BY <1>1, <1>2, <1>3, <1>4, <1>5

LEMMA AsideAdapter ==
    ASSUME Typed, Poll \/ UNCHANGED vars \/ \E p \in Ids : Answer(p) \/ Discard(p) \/ ActivateStream(p)
    PROVE  /\ UNCHANGED <<conf, waited, waitEventMap, emitted, activeList, halted>>
           /\ Quiet \/ todo' = todo
<1>1. CASE Poll
    BY <1>1 DEF Poll, busVars, profileVars
<1>2. CASE UNCHANGED vars
    BY <1>2 DEF vars, profileVars
<1>3. ASSUME NEW p \in Ids, Answer(p) PROVE Quiet /\ UNCHANGED <<conf, waited, waitEventMap, emitted, activeList, halted>>
    BY <1>3 DEF Answer, busVars
<1>4. ASSUME NEW p \in Ids, Discard(p) PROVE Quiet /\ UNCHANGED <<conf, waited, waitEventMap, emitted, activeList, halted>>
    BY <1>4 DEF Discard, busVars, profileVars
<1>5. ASSUME NEW p \in Ids, ActivateStream(p) PROVE Quiet /\ UNCHANGED <<conf, waited, waitEventMap, emitted, activeList, halted>>
    BY <1>5 DEF ActivateStream, busVars
<1> QED
    BY <1>1, <1>2, <1>3, <1>4, <1>5

LEMMA BeginsOf ==
    ASSUME NEW c, Begins(c)
    PROVE  /\ InProgress' = {c} /\ InProgress = {}
           /\ c.op \in {"walk", "answered", "emit"} /\ \A p : c # Emit("TERMINATION", p)
<1>1. InProgress' = {c}
    <2>1. todo' = <<c>> /\ DOMAIN <<c>> = {1} /\ <<c>>[1] = c
        BY DEF Begins
    <2> QED
        BY <2>1 DEF InProgress
<1>2. InProgress = {}
    BY DEF Begins, Quiet, InProgress
<1>3. c.op \in {"walk", "answered", "emit"} /\ \A p : c # Emit("TERMINATION", p)
    BY DEF Begins, Walk, On, Emit
<1> QED
    BY <1>1, <1>2, <1>3

LEMMA AsideCalls ==
    ASSUME Typed, \/ \E C : Silent(C)
                  \/ \E p \in Ids : \E C : Ending(p, C)
                  \/ \E c : Begins(c),
           Head(todo).op # "notify" \/ Quiet
    PROVE  /\ \A c \in InProgress' : c.op \in {"notify", "configure", "cache"} => c \in InProgress
           /\ \A c \in InProgress : c.op \in {"notify", "configure"} => c \in InProgress'
<1>1. ASSUME NEW c, Begins(c)
      PROVE  /\ \A x \in InProgress' : x.op \in {"notify", "configure", "cache"} => x \in InProgress
             /\ \A x \in InProgress : x.op \in {"notify", "configure"} => x \in InProgress'
    BY <1>1, BeginsOf
<1>2. ASSUME NEW D, Makes(D), Head(todo).op # "configure",
             \A x \in D : x.op \notin {"configure", "cache"} /\ (x.op = "notify" => Head(todo).op = "notify")
      PROVE  /\ \A x \in InProgress' : x.op \in {"notify", "configure", "cache"} => x \in InProgress
             /\ \A x \in InProgress : x.op \in {"notify", "configure"} => x \in InProgress'
    <2>1. InProgress' = D \cup Rest /\ InProgress = {Head(todo)} \cup Rest
        BY <1>2, MakesOf
    <2>2. Head(todo).op # "notify"
        BY <1>2 DEF Makes, Quiet
    <2> QED
        BY <1>2, <2>1, <2>2
<1>3. ASSUME NEW C, Silent(C)
      PROVE  /\ Makes(C) /\ Head(todo).op # "configure"
             /\ \A x \in C : x.op \notin {"configure", "cache"} /\ (x.op = "notify" => Head(todo).op = "notify")
    BY <1>3 DEF Silent, Mild
<1>4. ASSUME NEW p \in Ids, NEW C, Ending(p, C)
      PROVE  /\ Makes(C \cup {Emit("TERMINATION", p)}) /\ Head(todo).op # "configure"
             /\ \A x \in C \cup {Emit("TERMINATION", p)} :
                   x.op \notin {"configure", "cache"} /\ (x.op = "notify" => Head(todo).op = "notify")
    BY <1>4 DEF Ending, Mild, Emit
<1> QED
    BY <1>1, <1>2, <1>3, <1>4

LEMMA AsideOtherwise ==
    ASSUME Typed, [Next]_vars, ~Configure, ~Reset, ~Emission,
           \A p \in Ids : ~MasterHears(p) /\ ~OtherHears(p)
    PROVE  Aside
<1>1. CASE Delivered
    <2>1. Makes({}) /\ Head(todo).op = "notify" /\ Head(todo).to = {}
        BY <1>1, EndsMake DEF Delivered, AllHeard, Running
    <2>2. InProgress' = {} \cup Rest /\ InProgress = {Head(todo)} \cup Rest
        BY <2>1, MakesOf
    <2> QED
        BY <1>1, <2>1, <2>2, AsideWalk DEF Aside
<1>2. CASE \/ MasterSends \/ MasterRefused \/ MasterIdle \/ DelaySend \/ CheckerSkipped \/ EndWalk
    <2>1. Head(todo).op # "notify"
        BY <1>2 DEF MasterSends, MasterRefused, MasterIdle, DelaySend, CheckerSkipped, EndWalk, Polls, Running
    <2>2. /\ \A c \in InProgress' : c.op \in {"notify", "configure", "cache"} => c \in InProgress
          /\ \A c \in InProgress : c.op \in {"notify", "configure"} => c \in InProgress'
        BY <1>2, <2>1, WalkSteps, AsideCalls
    <2> QED
        BY <1>2, <2>2, AsideWalk DEF Aside
<1>3. CASE StreamCacheUpdate \/ AllAsked \/ Answered \/ \E p \in Ids : CheckerRecords(p) \/ AskStream(p)
    <2>1. Head(todo).op # "notify"
        BY <1>3 DEF StreamCacheUpdate, AllAsked, Answered, CheckerRecords, AskStream, Running
    <2>2. /\ \A c \in InProgress' : c.op \in {"notify", "configure", "cache"} => c \in InProgress
          /\ \A c \in InProgress : c.op \in {"notify", "configure"} => c \in InProgress'
        BY <1>3, <2>1, OtherSteps, AsideCalls
    <2> QED
        BY <1>3, <2>2, AsideWalk DEF Aside
<1>4. CASE Poll \/ \E p \in Ids : Answer(p) \/ ActivateStream(p)
    <2>1. Quiet
        BY <1>4 DEF Poll, Answer, ActivateStream
    <2>2. /\ \A c \in InProgress' : c.op \in {"notify", "configure", "cache"} => c \in InProgress
          /\ \A c \in InProgress : c.op \in {"notify", "configure"} => c \in InProgress'
        BY <1>4, <2>1, AdapterSteps, AsideCalls
    <2> QED
        BY <1>4, <2>2, AsideAdapter DEF Aside
<1>5. CASE UNCHANGED vars \/ \E p \in Ids : Discard(p)
    <2>1. todo' = todo
        BY <1>5 DEF vars, Discard
    <2>2. InProgress' = InProgress
        BY <2>1 DEF InProgress
    <2> QED
        BY <1>5, <2>2, AsideAdapter DEF Aside
<1> QED
    BY <1>1, <1>2, <1>3, <1>4, <1>5 DEF Next, Step

LEMMA UnsettledNext ==
    ASSUME Typed, Orderly, [Next]_vars, ~Reset, NEW q \in Ids
    PROVE  /\ Unsettled(q)' => Unsettled(q)
           /\ Unsettled(q) => Unsettled(q)' \/ (Emission /\ Head(todo) = Emit("TERMINATION", q))
           /\ terminated[q] => terminated'[q]
<1> DEFINE e == Emit("TERMINATION", q)
<1>0. ASSUME terminated' = terminated, e \in InProgress' <=> e \in InProgress
      PROVE  (Unsettled(q)' <=> Unsettled(q)) /\ (terminated[q] => terminated'[q])
    BY <1>0 DEF Unsettled
<1>1. CASE Configure
    <2> DEFINE p == Head(todo).profile
               C == IF Free(p) THEN {Emit("ACTIVATION", p)} ELSE {}
    <2>1. Makes(C) /\ Head(todo).op = "configure" /\ terminated' = terminated
        BY <1>1, ConfigureMakes, OpsOf DEF Configure
    <2>2. e \notin C
        BY DEF Emit
    <2> HIDE DEF C
    <2>3. InProgress' = C \cup Rest /\ InProgress = {Head(todo)} \cup Rest /\ e # Head(todo)
        BY <2>1, MakesOf, OpsOf
    <2> HIDE DEF e
    <2> QED
        BY <1>0, <2>1, <2>2, <2>3
<1>2. CASE Emission
    <2> DEFINE p == Head(todo).profile
               type == Head(todo).type
    <2>1. /\ Head(todo) = Emit(type, p) /\ terminated' = terminated
          /\ e \in InProgress' <=> e \in InProgress /\ (type = "TERMINATION" => q # p)
        BY <1>2, EmissionOf DEF Emission, profileVars
    <2>2. CASE type = "TERMINATION" /\ q = p
        <3>1. Head(todo) = e
            BY <2>1, <2>2
        <3> QED
            BY <1>2, <2>1, <3>1 DEF Unsettled
    <2>3. CASE ~(type = "TERMINATION" /\ q = p)
        BY <1>0, <2>1, <2>3
    <2> QED
        BY <2>2, <2>3
<1>3. ASSUME NEW C, Silent(C) PROVE (Unsettled(q)' <=> Unsettled(q)) /\ (terminated[q] => terminated'[q])
    <2>1. Makes(C) /\ Mild(C) /\ Head(todo).op # "emit" /\ terminated' = terminated
        BY <1>3 DEF Silent
    <2>2. e \notin C /\ e # Head(todo)
        BY <2>1, OpsOf DEF Mild, Emit
    <2>3. InProgress' = C \cup Rest /\ InProgress = {Head(todo)} \cup Rest
        BY <2>1, MakesOf
    <2> QED
        BY <1>0, <2>1, <2>2, <2>3
<1>4. ASSUME NEW p \in Ids, NEW C, Ending(p, C)
      PROVE  (Unsettled(q)' <=> Unsettled(q)) /\ (terminated[q] => terminated'[q])
    <2> DEFINE D == C \cup {Emit("TERMINATION", p)}
    <2>1. /\ Makes(D) /\ Mild(C) /\ Head(todo).op # "emit" /\ ~terminated[p]
          /\ terminated' = [terminated EXCEPT ![p] = TRUE]
        BY <1>4 DEF Ending
    <2>2. e \notin C /\ e # Head(todo) /\ (e = Emit("TERMINATION", p) <=> q = p)
        BY <2>1, OpsOf DEF Mild, Emit
    <2>3. e \in D <=> q = p
        BY <2>2
    <2> HIDE DEF D, e
    <2>4. InProgress' = D \cup Rest /\ InProgress = {Head(todo)} \cup Rest
        BY <2>1, MakesOf
    <2>5. e \in InProgress' <=> e \in InProgress \/ q = p
        BY <2>2, <2>3, <2>4
    <2>6. terminated'[q] <=> terminated[q] \/ q = p
        BY <2>1 DEF Typed
    <2> QED
        BY <2>1, <2>5, <2>6 DEF Unsettled, e
<1>5. ASSUME NEW c, Begins(c) PROVE (Unsettled(q)' <=> Unsettled(q)) /\ (terminated[q] => terminated'[q])
    <2>1. InProgress' = {c} /\ InProgress = {} /\ e # c
        BY <1>5, BeginsOf
    <2>2. terminated' = terminated
        BY <1>5 DEF Begins
    <2> QED
        BY <1>0, <2>1, <2>2
<1>6. CASE Stays
    <2>1. InProgress' = InProgress /\ terminated' = terminated
        BY <1>6 DEF Stays, InProgress
    <2> QED
        BY <1>0, <2>1
<1> HIDE DEF e
<1> QED
    BY <1>1, <1>2, <1>3, <1>4, <1>5, <1>6, StepsAre DEF e

-----------------------------------------------------------------------------

\* Only configured events are awaited, and the UNLOCKED of a partner.
AsConfigured ==
    \A p \in Ids : \A w \in waited[p] :
        w \in Of(p).waits \/ (w.type = "PROFILE_UNLOCKED" /\ StopsWith(p, w.id))

LEMMA HearsOf ==
    ASSUME Typed, NEW p \in Ids, MasterHears(p) \/ OtherHears(p)
    PROVE  LET ev == Head(todo).event
               to == Head(todo).to IN
           /\ todo # <<>> /\ Head(todo).op = "notify" /\ ev \in Events /\ to \subseteq Ids /\ p \in to
           /\ Head(todo) = Notify(ev, to) /\ Head(todo) \in InProgress
           /\ InProgress = {Head(todo)} \cup Rest
           /\ \E C : /\ InProgress' = C \cup {Notify(ev, to \ {p})} \cup Rest
                     /\ C = {} \/ C = {Emit("ACTIVATION", p)}
<1> DEFINE ev == Head(todo).event
           to == Head(todo).to
<1>1. /\ ev \in Events /\ to \subseteq Ids /\ p \in to /\ Head(todo) = Notify(ev, to)
      /\ todo # <<>> /\ Head(todo).op = "notify"
    BY MasterHearsMakes, OtherHearsMakes DEF MasterHears, OtherHears, Hears, Running
<1>2. \E C : (C = {} \/ C = {Emit("ACTIVATION", p)}) /\ Makes(C \cup {Notify(ev, to \ {p})})
    <2>1. CASE MasterHears(p)
        <3> DEFINE C == IF Starts(p, AwaitedBy(p, ev)) THEN {Emit("ACTIVATION", p)} ELSE {}
        <3>1. Makes(C \cup {Notify(ev, to \ {p})})
            BY <2>1, MasterHearsMakes
        <3>2. C = {} \/ C = {Emit("ACTIVATION", p)}
            OBVIOUS
        <3> HIDE DEF C
        <3> QED
            BY <3>1, <3>2
    <2>2. CASE OtherHears(p)
        <3> DEFINE C == IF Of(p).role = "delay" /\ ~Waiting(StillWaited(p, ev), "PROFILE")
                        THEN {Emit("ACTIVATION", p)} ELSE {}
        <3>1. Makes(C \cup {Notify(ev, to \ {p})})
            BY <2>2, OtherHearsMakes
        <3>2. C = {} \/ C = {Emit("ACTIVATION", p)}
            OBVIOUS
        <3> HIDE DEF C
        <3> QED
            BY <3>1, <3>2
    <2> QED
        BY <2>1, <2>2
<1>3. PICK C : (C = {} \/ C = {Emit("ACTIVATION", p)}) /\ Makes(C \cup {Notify(ev, to \ {p})})
    BY <1>2
<1>4. InProgress' = (C \cup {Notify(ev, to \ {p})}) \cup Rest /\ InProgress = {Head(todo)} \cup Rest
    BY <1>3, MakesOf
<1> QED
    BY <1>1, <1>3, <1>4

\* What a profile awaits after it has heard an event.
AfterHearing(p) ==
    IF Master(p) THEN AwaitedBy(p, Head(todo).event) ELSE StillWaited(p, Head(todo).event)

LEMMA HearingOf ==
    ASSUME Typed, NEW p \in Ids, MasterHears(p) \/ OtherHears(p)
    PROVE  /\ waited' = [waited EXCEPT ![p] = AfterHearing(p)]
           /\ waitEventMap' = Subscribed(AfterHearing(p) \ waited[p], p)
           /\ halted' = IF Master(p) THEN [halted EXCEPT ![p] = HaltedBy(p, Head(todo).event)] ELSE halted
           /\ UNCHANGED <<conf, emitted, activeList, terminated>>
<1>1. CASE MasterHears(p)
    <2>1. Master(p)
        BY <1>1 DEF MasterHears, Master
    <2> QED
        BY <1>1, <2>1 DEF MasterHears, AfterHearing
<1>2. CASE OtherHears(p)
    <2>1. ~Master(p)
        BY <1>2 DEF OtherHears, Master
    <2>2. waitEventMap' = Subscribed(AfterHearing(p) \ waited[p], p)
        BY <1>2, <2>1 DEF OtherHears, AfterHearing, StillWaited, Subscribed
    <2> QED
        BY <1>2, <2>1, <2>2 DEF OtherHears, AfterHearing, profileVars
<1> QED
    BY <1>1, <1>2

LEMMA StatusOf ==
    ASSUME NEW q \in Ids
    PROVE  LET lock == Event("PROFILE_LOCKED", q)
               unlock == Event("PROFILE_UNLOCKED", q) IN
           /\ lock \in Events /\ unlock \in Events /\ lock # unlock
           /\ Category(lock.type) = "SEND_STATUS" /\ Category(unlock.type) = "SEND_STATUS"
           /\ lock.type = "PROFILE_LOCKED" /\ unlock.type = "PROFILE_UNLOCKED"
           /\ lock.id = q /\ unlock.id = q
           /\ Opposite(lock) = unlock /\ Opposite(unlock) = lock
           /\ \A ev \in Events : Category(ev.type) = "SEND_STATUS" /\ ev.id = q => ev \in {lock, unlock}
<1> DEFINE lock == Event("PROFILE_LOCKED", q)
           unlock == Event("PROFILE_UNLOCKED", q)
<1>1. /\ lock \in Events /\ unlock \in Events /\ lock # unlock
      /\ lock.type = "PROFILE_LOCKED" /\ unlock.type = "PROFILE_UNLOCKED"
      /\ lock.id = q /\ unlock.id = q
    BY DEF Events, Event, Types
<1>2. Opposite(lock) = unlock /\ Opposite(unlock) = lock
    BY DEF Opposite, Event
<1>3. \A ev \in Events : Category(ev.type) = "SEND_STATUS" /\ ev.id = q => ev \in {lock, unlock}
    BY DEF Events, Event, Category, Types
<1>4. Category("PROFILE_LOCKED") = "SEND_STATUS" /\ Category("PROFILE_UNLOCKED") = "SEND_STATUS"
    BY DEF Category
<1> HIDE DEF lock, unlock
<1> QED
    BY <1>1, <1>2, <1>3, <1>4 DEF lock, unlock

LEMMA OppositeOf ==
    ASSUME NEW ev \in Events, Category(ev.type) = "SEND_STATUS"
    PROVE  /\ Opposite(ev) \in Events /\ Opposite(ev).id = ev.id /\ Opposite(ev) # ev
           /\ \/ ev = Event("PROFILE_LOCKED", ev.id) /\ Opposite(ev) = Event("PROFILE_UNLOCKED", ev.id)
              \/ ev = Event("PROFILE_UNLOCKED", ev.id) /\ Opposite(ev) = Event("PROFILE_LOCKED", ev.id)
           /\ Category(Opposite(ev).type) = "SEND_STATUS"
<1>1. ev.id \in Ids
    BY DEF Events
<1>2. ev \in {Event("PROFILE_LOCKED", ev.id), Event("PROFILE_UNLOCKED", ev.id)}
    BY <1>1, StatusOf
<1> DEFINE q == ev.id
           lock == Event("PROFILE_LOCKED", q)
           unlock == Event("PROFILE_UNLOCKED", q)
<1>3. /\ lock \in Events /\ unlock \in Events /\ lock # unlock /\ lock.id = q /\ unlock.id = q
      /\ Opposite(lock) = unlock /\ Opposite(unlock) = lock
      /\ Category(lock.type) = "SEND_STATUS" /\ Category(unlock.type) = "SEND_STATUS"
    BY <1>1, StatusOf
<1> HIDE DEF lock, unlock
<1>4. ev \in {lock, unlock}
    BY <1>2 DEF lock, unlock
<1>5. /\ Opposite(ev) \in Events /\ Opposite(ev).id = q /\ Opposite(ev) # ev
      /\ \/ ev = lock /\ Opposite(ev) = unlock
         \/ ev = unlock /\ Opposite(ev) = lock
      /\ Category(Opposite(ev).type) = "SEND_STATUS"
    <2>1. CASE ev = lock
        BY <1>3, <2>1
    <2>2. CASE ev = unlock
        BY <1>3, <2>2
    <2> QED
        BY <1>4, <2>1, <2>2
<1> QED
    BY <1>5 DEF lock, unlock

LEMMA AsConfiguredNext ==
    ASSUME StopsWithOne, Typed, AsConfigured, [Next]_vars
    PROVE  AsConfigured'
<1>0. conf' = conf /\ \A p, q \in Ids : Of(p)' = Of(p) /\ (StopsWith(p, q)' <=> StopsWith(p, q))
    BY StepsAre DEF Of, StopsWith
<1>1. ASSUME NEW p \in Ids, NEW W, waited' = [waited EXCEPT ![p] = W],
             \A w \in W : \/ w \in waited[p] \/ w \in Of(p).waits
                          \/ w.type = "PROFILE_UNLOCKED" /\ StopsWith(p, w.id)
      PROVE  AsConfigured'
    <2>1. ASSUME NEW r \in Ids, NEW w \in waited'[r]
          PROVE  w \in Of(r).waits \/ (w.type = "PROFILE_UNLOCKED" /\ StopsWith(r, w.id))
        <3>1. CASE r = p
            BY <1>1, <2>1, <3>1 DEF AsConfigured, Typed
        <3>2. CASE r # p
            BY <1>1, <2>1, <3>2 DEF AsConfigured, Typed
        <3> QED
            BY <3>1, <3>2
    <2> QED
        BY <1>0, <2>1 DEF AsConfigured, StopsWith, Of
<1>2. CASE Configure \/ Reset
    <2> DEFINE p == Head(todo).profile
    <2>1. p \in Ids
        BY <1>2, ConfigureMakes, ResetMakes
    <2>2. waited' = [waited EXCEPT ![p] = Of(p).waits]
        BY <1>2 DEF Configure, Reset, RetainedWaits
    <2> QED
        BY <1>1, <2>1, <2>2
<1>3. ASSUME NEW p \in Ids, MasterHears(p) \/ OtherHears(p) PROVE AsConfigured'
    <2> DEFINE ev == Head(todo).event
    <2>1. ev \in Events /\ waited' = [waited EXCEPT ![p] = AfterHearing(p)]
        BY <1>3, HearsOf, HearingOf
    <2>2. ASSUME NEW w \in AfterHearing(p), w \notin waited[p]
          PROVE  w \in Of(p).waits \/ (w.type = "PROFILE_UNLOCKED" /\ StopsWith(p, w.id))
        <3>1. Flips(p, ev) /\ w = Opposite(ev)
            BY <2>2 DEF AfterHearing, AwaitedBy, StillWaited
        <3>2. /\ w.id = ev.id
              /\ \/ ev = Event("PROFILE_LOCKED", ev.id) /\ w = Event("PROFILE_UNLOCKED", ev.id)
                 \/ ev = Event("PROFILE_UNLOCKED", ev.id) /\ w = Event("PROFILE_LOCKED", ev.id)
            <4> HIDE DEF ev
            <4> QED
                BY <2>1, <3>1, OppositeOf DEF Flips
        <3>3. ev \in Of(p).waits \/ (ev.type = "PROFILE_UNLOCKED" /\ StopsWith(p, ev.id))
            BY <3>1 DEF Flips, AsConfigured
        <3>4. CASE ev = Event("PROFILE_LOCKED", ev.id) /\ w = Event("PROFILE_UNLOCKED", ev.id)
            <4>1. ev.type # "PROFILE_UNLOCKED" /\ w.type = "PROFILE_UNLOCKED"
                BY <3>4 DEF Event
            <4> QED
                BY <3>2, <3>3, <3>4, <4>1 DEF StopsWith
        <3>5. CASE ev = Event("PROFILE_UNLOCKED", ev.id) /\ w = Event("PROFILE_LOCKED", ev.id)
            <4>1. ev \notin Of(p).waits
                <5>1. Category(ev.type) = "SEND_STATUS" /\ ev.type # "PROFILE_LOCKED"
                    BY <3>5 DEF Event, Category
                <5> QED
                    BY <5>1 DEF StopsWithOne, Typed, Of
            <4> QED
                BY <3>3, <3>5, <4>1 DEF StopsWith
        <3> QED
            BY <3>2, <3>4, <3>5
    <2> QED
        BY <1>1, <2>1, <2>2
<1>4. CASE waited' = waited
    BY <1>0, <1>4 DEF AsConfigured, Of, StopsWith
<1>5. waited' = waited \/ Configure \/ Reset \/ \E p \in Ids : MasterHears(p) \/ OtherHears(p)
    <2>1. CASE Emission
        BY <2>1 DEF Emission, EmitEvent
    <2> QED
        BY <2>1, AsideOtherwise DEF Aside
<1> QED
    BY <1>2, <1>3, <1>4, <1>5

LEMMA LoadsOnly ==
    ASSUME Typed, [Next]_vars
    PROVE  \A c \in InProgress' : Load(c) => c \in InProgress
<1>1. CASE Step
    BY <1>1, CallsNext DEF Caused, Load
<1>2. CASE Poll \/ \E p \in Ids : Answer(p) \/ ActivateStream(p)
    <2>1. PICK c : Begins(c)
        BY <1>2, AdapterSteps
    <2> QED
        BY <2>1, BeginsOf DEF Load
<1>3. CASE UNCHANGED vars \/ \E p \in Ids : Discard(p)
    <2>1. todo' = todo
        BY <1>3 DEF vars, Discard
    <2> QED
        BY <2>1 DEF InProgress
<1> QED
    BY <1>1, <1>2, <1>3 DEF Next

LEMMA PresentNext ==
    ASSUME Typed, [Next]_vars, ~Configure
    PROVE  Present' = Present /\ \A p \in Ids : Of(p)' = Of(p) /\ Partners(p)' = Partners(p)
<1>0. conf' = conf
    BY StepsAre
<1>1. \A c \in InProgress : c.op = "configure" => c \in InProgress'
    <2>1. ASSUME NEW D, Makes(D), Head(todo).op # "configure"
          PROVE  \A c \in InProgress : c.op = "configure" => c \in InProgress'
        BY <2>1, MakesOf
    <2>2. CASE Reset
        BY <2>1, <2>2, ResetMakes
    <2>3. CASE Emission
        <3>1. EmitEvent
            BY <2>3 DEF Emission
        <3> QED
            BY <2>1, <3>1, EmitMakes
    <2>4. ASSUME NEW C, Silent(C) PROVE \A c \in InProgress : c.op = "configure" => c \in InProgress'
        BY <2>1, <2>4 DEF Silent
    <2>5. ASSUME NEW p \in Ids, NEW C, Ending(p, C)
          PROVE  \A c \in InProgress : c.op = "configure" => c \in InProgress'
        BY <2>1, <2>5 DEF Ending
    <2>6. ASSUME NEW c, Begins(c) PROVE InProgress = {}
        BY <2>6, BeginsOf
    <2>7. CASE Stays
        BY <2>7 DEF Stays, InProgress
    <2> QED
        BY <2>2, <2>3, <2>4, <2>5, <2>6, <2>7, StepsAre
<1>2. \A p : On("configure", p) \in InProgress' <=> On("configure", p) \in InProgress
    BY <1>1, LoadsOnly, OpsOf DEF Load
<1> QED
    BY <1>0, <1>2 DEF Present, Configured, Of, Partners

\* The steps that listeners hear of, and the others.
LEMMA NextIs ==
    ASSUME Typed, [Next]_vars
    PROVE  \/ Configure \/ Reset \/ Emission \/ (\E p \in Ids : MasterHears(p) \/ OtherHears(p))
           \/ Aside /\ ~Configure /\ ~Reset /\ ~Emission
    BY AsideOtherwise

-----------------------------------------------------------------------------
\* A master that is halted awaits a status.
HaltedAwait == \A p \in Ids : halted[p] => Master(p) /\ Waiting(waited[p], "SEND_STATUS")

LEMMA HaltedAwaitNext ==
    ASSUME Typed, Known, HaltedAwait, [Next]_vars
    PROVE  HaltedAwait'
<1>0. conf' = conf /\ \A p \in Ids : Master(p)' <=> Master(p)
    BY StepsAre DEF Master, Of
<1>1. ASSUME NEW p \in Ids, \A r \in Ids \ {p} : halted'[r] = halted[r] /\ waited'[r] = waited[r],
             halted'[p] => Master(p) /\ Waiting(waited'[p], "SEND_STATUS")
      PROVE  HaltedAwait'
    BY <1>0, <1>1 DEF HaltedAwait
<1>2. CASE Configure
    <2> DEFINE p == Head(todo).profile
    <2>1. p \in Ids /\ On("configure", p) \in InProgress
        BY <1>2, ConfigureMakes, MakesOf
    <2>2. waited[p] = {}
        BY <2>1 DEF Known, Present, Configured
    <2>3. ~halted[p]
        BY <2>1, <2>2 DEF HaltedAwait, Waiting
    <2>4. halted' = halted /\ \A r \in Ids \ {p} : waited'[r] = waited[r]
        BY <1>2, <2>1 DEF Configure, Typed
    <2> HIDE DEF p
    <2> QED
        BY <1>1, <2>1, <2>3, <2>4
<1>3. CASE Reset
    <2> DEFINE p == Head(todo).profile
    <2>1. p \in Ids
        BY <1>3, ResetMakes
    <2>2. halted' = [halted EXCEPT ![p] = FALSE] /\ \A r \in Ids \ {p} : waited'[r] = waited[r]
        BY <1>3, <2>1 DEF Reset, Typed
    <2>3. ~halted'[p] /\ \A r \in Ids \ {p} : halted'[r] = halted[r]
        BY <2>1, <2>2 DEF Typed
    <2> HIDE DEF p
    <2> QED
        BY <1>1, <2>1, <2>2, <2>3
<1>4. CASE Emission
    <2>1. halted' = halted /\ waited' = waited
        BY <1>4 DEF Emission, EmitEvent, profileVars
    <2> QED
        BY <1>0, <2>1 DEF HaltedAwait
<1>5. ASSUME NEW p \in Ids, MasterHears(p) \/ OtherHears(p) PROVE HaltedAwait'
    <2> DEFINE ev == Head(todo).event
    <2>1. /\ waited' = [waited EXCEPT ![p] = AfterHearing(p)]
          /\ halted' = IF Master(p) THEN [halted EXCEPT ![p] = HaltedBy(p, ev)] ELSE halted
        BY <1>5, HearingOf
    <2>2. waited'[p] = AfterHearing(p) /\ \A r \in Ids \ {p} : waited'[r] = waited[r]
        BY <2>1 DEF Typed
    <2>3. CASE Master(p)
        <3>1. halted'[p] = HaltedBy(p, ev) /\ \A r \in Ids \ {p} : halted'[r] = halted[r]
            BY <2>1, <2>3 DEF Typed
        <3>2. AfterHearing(p) = AwaitedBy(p, ev)
            BY <2>3 DEF AfterHearing
        <3> QED
            BY <1>1, <2>2, <2>3, <3>1, <3>2 DEF HaltedBy
    <2>4. CASE ~Master(p)
        <3>1. halted' = halted /\ ~halted[p]
            BY <2>1, <2>4 DEF HaltedAwait
        <3> QED
            BY <1>1, <2>2, <3>1
    <2> QED
        BY <2>3, <2>4
<1>6. CASE Aside
    BY <1>0, <1>6 DEF Aside, HaltedAwait
<1> QED
    BY <1>2, <1>3, <1>4, <1>5, <1>6, NextIs

-----------------------------------------------------------------------------
\* No status is announced before the files are loaded.
Status(q) == emitted[q]["SEND_STATUS"].type
NoStatusYet == (\E c \in InProgress : Load(c)) => \A q \in Ids : Status(q) = "NONE"

\* What is emitted changes one category of one profile, or nothing.
LEMMA EmittingOf ==
    ASSUME Typed, Emission
    PROVE  LET p == Head(todo).profile
               type == Head(todo).type IN
           /\ p \in Ids /\ type \in Types /\ Head(todo) = Emit(type, p) /\ todo # <<>>
           /\ Head(todo) \in InProgress /\ InProgress = {Head(todo)} \cup Rest
           /\ UNCHANGED <<conf, waited, halted, terminated, started>>
           /\ MayEmit(type, p) =>
                 /\ emitted' = [emitted EXCEPT ![p][Category(type)] =
                        [type |-> type, time |-> IF Category(type) = "PROFILE" THEN 0 ELSE time]]
                 /\ activeList' = IF type = "ACTIVATION" THEN Append(activeList, p) ELSE activeList
                 /\ waitEventMap' = KeptSubscriptions(Event(type, p))
                 /\ InProgress' = {Notify(Event(type, p), Listeners(Event(type, p)))} \cup Rest
           /\ ~MayEmit(type, p) =>
                 UNCHANGED <<emitted, activeList, waitEventMap>> /\ InProgress' = Rest
<1> DEFINE p == Head(todo).profile
           type == Head(todo).type
           ev == Event(type, p)
           N == Notify(ev, Listeners(ev))
<1>1. EmitEvent /\ UNCHANGED <<conf, halted, terminated, started, waited>>
    BY DEF Emission, profileVars, EmitEvent
<1>2. /\ p \in Ids /\ type \in Types /\ Head(todo) = Emit(type, p)
      /\ Makes(IF MayEmit(type, p) THEN {N} ELSE {})
    BY <1>1, EmitMakes
<1>3. /\ InProgress' = (IF MayEmit(type, p) THEN {N} ELSE {}) \cup Rest
      /\ InProgress = {Head(todo)} \cup Rest /\ todo # <<>>
    BY <1>2, MakesOf DEF Makes
<1>4. ev.type = type
    BY DEF Event
<1>5. CASE MayEmit(type, p)
    <2>1. /\ emitted' = [emitted EXCEPT ![p][Category(type)] =
                  [type |-> type, time |-> IF Category(type) = "PROFILE" THEN 0 ELSE time]]
          /\ activeList' = IF type = "ACTIVATION" THEN Append(activeList, p) ELSE activeList
          /\ waitEventMap' = KeptSubscriptions(ev)
        <3> HIDE DEF ev
        <3> QED
            BY <1>1, <1>4, <1>5 DEF EmitEvent, ev
    <2>2. InProgress' = {N} \cup Rest
        BY <1>3, <1>5
    <2> HIDE DEF N, ev
    <2> QED
        BY <1>1, <1>2, <1>3, <1>5, <2>1, <2>2 DEF N, ev
<1>6. CASE ~MayEmit(type, p)
    <2>1. UNCHANGED <<emitted, activeList, waitEventMap>>
        <3> HIDE DEF ev
        <3> QED
            BY <1>1, <1>4, <1>6 DEF EmitEvent, ev
    <2>2. InProgress' = Rest
        BY <1>3, <1>6
    <2> HIDE DEF N, ev
    <2> QED
        BY <1>1, <1>2, <1>3, <1>6, <2>1, <2>2
<1> QED
    BY <1>5, <1>6

LEMMA EmittedNow ==
    ASSUME Typed, NEW p \in Ids, NEW c \in Categories, NEW e, emitted' = [emitted EXCEPT ![p][c] = e]
    PROVE  /\ emitted'[p][c] = e
           /\ \A q \in Ids, d \in Categories : q # p \/ d # c => emitted'[q][d] = emitted[q][d]
<1>1. emitted \in [Ids -> [Categories -> [type : Types \cup {"NONE"}, time : Nat]]]
    BY DEF Typed
<1>2. emitted' = [emitted EXCEPT ![p] = [emitted[p] EXCEPT ![c] = e]]
    OBVIOUS
<1>3. emitted'[p] = [emitted[p] EXCEPT ![c] = e] /\ \A q \in Ids \ {p} : emitted'[q] = emitted[q]
    BY <1>1, <1>2
<1>4. DOMAIN emitted[p] = Categories
    BY <1>1
<1> QED
    BY <1>3, <1>4

LEMMA NoStatusYetNext ==
    ASSUME Typed, Orderly, NoStatusYet, [Next]_vars
    PROVE  NoStatusYet'
<1>1. SUFFICES ASSUME NEW c \in InProgress', Load(c), NEW q \in Ids PROVE Status(q)' = "NONE"
    BY DEF NoStatusYet
<1>2. c \in InProgress
    BY <1>1, LoadsOnly
<1>3. Status(q) = "NONE"
    BY <1>1, <1>2 DEF NoStatusYet
<1>4. CASE Emission
    <2> DEFINE p == Head(todo).profile
               type == Head(todo).type
    <2>1. Head(todo) = Emit(type, p) /\ todo # <<>> /\ InProgress = {Head(todo)} \cup Rest
        BY <1>4, EmittingOf
    <2>2. FitsOver(Head(todo), c)
        <3>1. c # Head(todo)
            BY <1>1, <2>1, OpsOf DEF Load
        <3> QED
            BY <1>2, <2>1, <3>1, StackedOf DEF Orderly
    <2>3. Activates(Head(todo))
        <3>1. ~Load(Head(todo))
            BY <2>1, OpsOf DEF Load
        <3> QED
            BY <1>1, <2>2, <3>1 DEF FitsOver
    <2>4. type = "ACTIVATION" /\ Category(type) = "PROFILE"
        BY <2>1, <2>3, OpsOf DEF Activates, Category
    <2>5. p \in Ids /\ (emitted' = emitted \/ \E e : emitted' = [emitted EXCEPT ![p]["PROFILE"] = e])
        BY <1>4, <2>4, EmittingOf
    <2> HIDE DEF p
    <2> QED
        <3>1. "SEND_STATUS" \in Categories /\ "PROFILE" \in Categories
            BY DEF Categories
        <3>2. emitted'[q]["SEND_STATUS"] = emitted[q]["SEND_STATUS"]
            BY <2>5, <3>1, EmittedNow
        <3> QED
            BY <1>3, <3>2 DEF Status
<1>5. CASE Reset
    BY <1>1, <1>5, ResetAlone
<1>6. CASE emitted' = emitted
    BY <1>3, <1>6 DEF Status
<1>7. emitted' = emitted \/ Emission \/ Reset
    <2>1. CASE Configure
        BY <2>1 DEF Configure
    <2> QED
        BY <2>1, NextIs, HearingOf DEF Aside
<1> QED
    BY <1>4, <1>5, <1>6, <1>7
-----------------------------------------------------------------------------
\* Only streams of roots are asked, and what is reset does not begin by itself.
Again ==
    /\ \A p \in Resetting : conf.autoReset /\ ~Free(p)
    /\ \A r \in Ids : \A n \in ToSet(streamCache[r].nodes) : n = r \/ Partners(n) # {}
    /\ activeStreams \subseteq conf.roots
    /\ \A x \in InProgress : x.op = "streams" => x.left \subseteq conf.roots

LEMMA AgainCache ==
    ASSUME Typed, Subscribers, Again, [Next]_vars
    PROVE  \A r \in Ids : \A n \in ToSet(streamCache'[r].nodes) : n = r \/ Partners(n) # {}
<1>1. CASE StreamCacheUpdate
    <2>1. ASSUME NEW r \in Ids, NEW n \in ToSet(Stream(r).nodes), n # r PROVE Partners(n) # {}
        <3>1. waitEventMap \subseteq Subscriptions
            BY DEF Typed
        <3>2. PICK m \in Ids : n \in Followers(m)
            BY <2>1, <3>1, StreamOf
        <3>3. PICK s \in waitEventMap : s.id = m /\ s.type = "TERMINATION" /\ s.profile = n
            BY <3>2 DEF Followers
        <3> QED
            BY <3>3 DEF Subscribers
    <2>2. \A r \in Ids : streamCache'[r] = Stream(r) \/ streamCache'[r] = streamCache[r]
        BY <1>1 DEF StreamCacheUpdate
    <2> QED
        BY <2>1, <2>2 DEF Again
<1>2. CASE streamCache' = streamCache
    BY <1>2 DEF Again
<1> QED
    BY <1>1, <1>2, CacheStays

LEMMA ActiveStreamsNext ==
    ASSUME Typed, Again, [Next]_vars
    PROVE  activeStreams' \subseteq conf.roots
<1>1. ASSUME NEW r \in Ids, AskStream(r) PROVE activeStreams' \subseteq activeStreams
    BY <1>1 DEF AskStream
<1>2. ASSUME NEW r \in Ids, ActivateStream(r)
      PROVE activeStreams' = activeStreams \cup {r} /\ r \in conf.roots
    BY <1>2 DEF ActivateStream
<1>3. CASE Configure \/ Reset \/ Emission \/ StreamCacheUpdate \/ Delivered \/ AllAsked \/ EndWalk
    BY <1>3 DEF Again, Configure, Reset, Emission, StreamCacheUpdate, Delivered, AllAsked, EndWalk, streams
<1>4. CASE MasterSends \/ MasterRefused \/ MasterIdle \/ DelaySend \/ CheckerSkipped \/ Answered
    BY <1>4 DEF Again, MasterSends, MasterRefused, MasterIdle, DelaySend, CheckerSkipped, Answered, streams
<1>5. ASSUME NEW p \in Ids, MasterHears(p) \/ OtherHears(p) \/ CheckerRecords(p)
      PROVE  activeStreams' = activeStreams
    BY <1>5 DEF MasterHears, OtherHears, CheckerRecords, streams
<1>6. CASE UNCHANGED vars \/ Poll
    BY <1>6 DEF Again, vars, Poll, streams
<1>7. ASSUME NEW p \in Ids, Answer(p) \/ Discard(p)
      PROVE  activeStreams' = activeStreams
    BY <1>7 DEF Answer, Discard, streams
<1> QED
    BY <1>1, <1>2, <1>3, <1>4, <1>5, <1>6, <1>7 DEF Next, Step, Again

LEMMA ResettingNext ==
    ASSUME Typed, Again, [Next]_vars
    PROVE  \A p \in Ids : On("reset", p) \in InProgress' => conf.autoReset /\ ~Free(p)
<1> SUFFICES ASSUME NEW p \in Ids, On("reset", p) \in InProgress'
             PROVE  conf.autoReset /\ ~Free(p)
    OBVIOUS
<1> DEFINE x == On("reset", p)
<1>0. x.op = "reset" /\ x.profile = p
    BY DEF On
<1> HIDE DEF x
<1>1. CASE x \in InProgress
    BY <1>1 DEF Again, Resetting, x
<1>2. CASE Reset
    <2> DEFINE r == Head(todo).profile
    <2>1. /\ r \in Ids /\ Head(todo) = On("reset", r)
          /\ InProgress' = {On("reset", c) : c \in CheckersOf(r)}
                    \cup (IF Free(r) THEN {Emit("ACTIVATION", r)} ELSE {}) \cup Rest
          /\ InProgress = {Head(todo)} \cup Rest
        BY <1>2, ResetMakes, MakesOf
    <2>2. conf.autoReset
        BY <2>1 DEF Again, Resetting
    <2>3. x \in Rest \/ \E c \in CheckersOf(r) : x = On("reset", c)
        BY <1>0, <2>1, OpsOf DEF x
    <2>4. ASSUME NEW c \in CheckersOf(r), x = On("reset", c) PROVE ~Free(p)
        <3>1. c = p
            BY <1>0, <2>4 DEF On
        <3>2. r \in Of(p).watches /\ conf \in Configs
            BY <3>1, <2>4 DEF CheckersOf, Typed
        <3>3. Of(p).role = "checker"
            BY <3>2, ConfigsAssumption DEF Of
        <3> QED
            BY <3>3 DEF Free
    <2> QED
        BY <1>1, <2>1, <2>2, <2>3, <2>4
<1>3. ASSUME NEW r \in Ids, AskStream(r) PROVE conf.autoReset /\ ~Free(p)
    <2>1. /\ Head(todo).op = "streams"
          /\ InProgress' = {On("reset", q) : q \in ResetNow(r)} \cup {Ask(Head(todo).left \ {r})} \cup Rest
          /\ InProgress = {Head(todo)} \cup Rest
        BY <1>3, AskStreamMakes, MakesOf
    <2>2. x \in Rest \/ \E q \in ResetNow(r) : x = On("reset", q)
        BY <1>0, <2>1, OpsOf DEF x
    <2>3. ASSUME NEW q \in ResetNow(r), x = On("reset", q) PROVE conf.autoReset /\ ~Free(p)
        <3>1. q = p
            BY <1>0, <2>3 DEF On
        <3>2. conf.autoReset /\ p \in ToSet(streamCache[r].nodes)
            BY <2>3, <3>1 DEF ResetNow
        <3>3. r \in Head(todo).left /\ Head(todo).left \subseteq conf.roots
            BY <1>3, <2>1 DEF AskStream, Again
        <3>4. p = r => ~Free(p)
            BY <3>3, RootOf DEF Typed
        <3>5. p # r => ~Free(p)
            BY <3>2, FreeAlone DEF Again
        <3> QED
            BY <3>2, <3>4, <3>5
    <2> QED
        BY <1>1, <2>1, <2>2, <2>3
<1>4. CASE Step /\ ~Reset /\ ~\E r \in Ids : AskStream(r)
    <2>1. x \in InProgress \/ Caused(x)
        BY <1>4, CallsNext DEF x
    <2>2. CASE AllAsked
        <3>1. InProgress' = {} \cup Rest /\ InProgress = {Head(todo)} \cup Rest
            BY <2>2, EndsMake, MakesOf
        <3> QED
            BY <1>1, <3>1 DEF x
    <2>3. CASE ~AllAsked
        <3>1. Head(todo).op \notin {"reset", "streams"}
            <4>1. CASE Configure \/ StreamCacheUpdate \/ Emission \/ Delivered
                BY <4>1 DEF Configure, StreamCacheUpdate, Emission, EmitEvent, Delivered, AllHeard, Running
            <4>2. CASE MasterSends \/ MasterRefused \/ MasterIdle \/ DelaySend \/ CheckerSkipped \/ EndWalk
                BY <4>2 DEF MasterSends, MasterRefused, MasterIdle, DelaySend, CheckerSkipped, EndWalk, Polls, Running
            <4>3. ASSUME NEW c \in Ids, MasterHears(c) \/ OtherHears(c) \/ CheckerRecords(c)
                  PROVE  Head(todo).op \in {"notify", "check"}
                BY <4>3 DEF MasterHears, OtherHears, Hears, CheckerRecords, Running
            <4>4. CASE Answered
                BY <4>4 DEF Answered, Running
            <4> QED
                BY <1>4, <2>3, <4>1, <4>2, <4>3, <4>4 DEF Step
        <3> QED
            BY <1>0, <1>1, <2>1, <3>1 DEF Caused
    <2> QED
        BY <2>2, <2>3
<1>5. CASE Poll \/ \E q \in Ids : Answer(q) \/ ActivateStream(q)
    <2>1. PICK c : Begins(c)
        BY <1>5, AdapterSteps
    <2>2. InProgress' = {c} /\ c.op # "reset"
        BY <2>1, BeginsOf
    <2> QED
        BY <1>0, <2>2 DEF x
<1>6. CASE UNCHANGED vars \/ \E q \in Ids : Discard(q)
    <2>1. todo' = todo
        BY <1>6 DEF vars, Discard
    <2>2. InProgress' = InProgress
        BY <2>1 DEF InProgress
    <2> QED
        BY <1>1, <2>2 DEF x
<1> QED
    BY <1>2, <1>3, <1>4, <1>5, <1>6 DEF Next

LEMMA AskedNext ==
    ASSUME Typed, Again, [Next]_vars
    PROVE  \A x \in InProgress' : x.op = "streams" => x.left \subseteq conf.roots
<1>1. CASE Step
    <2>1. /\ \A x \in InProgress' : x \in InProgress \/ Caused(x)
          /\ Head(todo) \in InProgress
        BY <1>1, CallsNext
    <2> QED
        BY <2>1 DEF Caused, Again
<1>2. CASE Poll \/ \E q \in Ids : Answer(q) \/ ActivateStream(q)
    <2>1. PICK c : Begins(c)
        BY <1>2, AdapterSteps
    <2>2. InProgress' = {c} /\ c.op # "streams"
        BY <2>1, BeginsOf
    <2> QED
        BY <2>2
<1>3. CASE UNCHANGED vars \/ \E q \in Ids : Discard(q)
    <2>1. todo' = todo
        BY <1>3 DEF vars, Discard
    <2>2. InProgress' = InProgress
        BY <2>1 DEF InProgress
    <2> QED
        BY <2>2 DEF Again
<1> QED
    BY <1>1, <1>2, <1>3 DEF Next

LEMMA AgainNext ==
    ASSUME Typed, Subscribers, Again, [Next]_vars
    PROVE  Again'
<1>1. conf' = conf
    BY StepsAre
<1>2. \A p : Free(p)' <=> Free(p)
    BY <1>1 DEF Free, Of
<1>3. \A p : Partners(p)' = Partners(p)
    BY <1>1 DEF Partners, Of
<1> QED
    BY <1>1, <1>2, <1>3, AgainCache, ActiveStreamsNext, ResettingNext, AskedNext DEF Again, Resetting

LEMMA SubscriptionIs ==
    /\ \A w, v \in Events : \A p, r : Subscription(w, p) = Subscription(v, r) <=> w = v /\ p = r
    /\ \A w, p : Subscription(w, p).profile = p /\ Subscription(w, p).id = w.id
                 /\ Subscription(w, p).type = w.type
    BY DEF Subscription, Events

LEMMA NotifyIs ==
    \A e, U : Notify(e, U).op = "notify" /\ Notify(e, U).event = e /\ Notify(e, U).to = U
    BY DEF Notify

-----------------------------------------------------------------------------
\* Without resets, a profile is awaited that is yet to announce its end, or its
\* end is being told.
Released ==
    ~conf.autoReset => \A p \in Ids : \A w \in waited[p] :
        Unsettled(w.id) \/ \E c \in InProgress : Tells(c, w.id) /\ p \in c.to

LEMMA ReleasedNext ==
    ASSUME Typed, Orderly, NoLostWait, Again, Released, [Next]_vars
    PROVE  Released'
<1> DEFINE Told(p, q) == \E c \in InProgress : Tells(c, q) /\ p \in c.to
<1>0. conf' = conf /\ Typed'
    BY StepsAre, TypedNext
<1>1. CASE conf.autoReset
    BY <1>0, <1>1 DEF Released
<1>2. CASE Reset
    <2> DEFINE p == Head(todo).profile
    <2>1. On("reset", p) \in InProgress /\ p \in Ids
        BY <1>2, ResetMakes, MakesOf
    <2> QED
        BY <1>1, <2>1 DEF Again, Resetting
<1>3. CASE Configure
    <2>1. terminated' = terminated
        BY <1>3 DEF Configure
    <2>2. \A q \in Ids : ~terminated[q]
        <3>1. Head(todo) \in InProgress /\ Load(Head(todo))
            BY <1>3, ConfigureMakes, MakesOf, OpsOf DEF Load
        <3> QED
            BY <3>1 DEF Orderly, LoadingFirst
    <2>3. \A p \in Ids : \A w \in waited'[p] : w.id \in Ids
        BY <1>0 DEF Typed, Events
    <2> QED
        BY <2>1, <2>2, <2>3 DEF Released, Unsettled
<1>4. CASE ~conf.autoReset /\ ~Reset /\ ~Configure
    <2>1. ASSUME NEW p \in Ids, NEW q \in Ids, Unsettled(q) \/ Told(p, q),
                 \A c \in InProgress : Tells(c, q) /\ p \in c.to =>
                    \E d \in InProgress' : Tells(d, q) /\ p \in d.to,
                 Emission /\ Head(todo) = Emit("TERMINATION", q) => Told(p, q)'
          PROVE  Unsettled(q)' \/ Told(p, q)'
        BY <1>4, <2>1, UnsettledNext
    <2>2. ASSUME Aside, ~Emission PROVE Released'
        <3> SUFFICES ASSUME NEW p \in Ids, NEW w \in waited'[p]
                     PROVE  Unsettled(w.id)' \/ Told(p, w.id)'
            BY <1>0 DEF Released
        <3>1. w \in waited[p] /\ w.id \in Ids
            BY <2>2 DEF Aside, Typed, Events
        <3>2. \A c \in InProgress : Tells(c, w.id) /\ p \in c.to => c \in InProgress'
            BY <2>2 DEF Aside, Tells
        <3>3. Unsettled(w.id) \/ Told(p, w.id)
            BY <1>4, <3>1 DEF Released
        <3> QED
            BY <2>1, <2>2, <3>1, <3>2, <3>3
    <2>3. CASE Emission
        <3> DEFINE r == Head(todo).profile
                   type == Head(todo).type
        <3>0. waited' = waited /\ Head(todo) = Emit(type, r) /\ todo # <<>>
              /\ InProgress = {Head(todo)} \cup Rest /\ Rest \subseteq InProgress'
            BY <2>3, EmittingOf
        <3> SUFFICES ASSUME NEW p \in Ids, NEW w \in waited'[p]
                     PROVE  Unsettled(w.id)' \/ Told(p, w.id)'
            BY <1>0 DEF Released
        <3>1. w \in waited[p] /\ w \in Events /\ w.id \in Ids
            BY <3>0 DEF Typed, Events
        <3>2. \A c \in InProgress : Tells(c, w.id) /\ p \in c.to => c \in InProgress'
            BY <3>0, OpsOf DEF Tells
        <3>3. Unsettled(w.id) \/ Told(p, w.id)
            BY <1>4, <3>1 DEF Released
        <3>4. ASSUME Head(todo) = Emit("TERMINATION", w.id) PROVE Told(p, w.id)'
            <4> DEFINE ev == Event("TERMINATION", w.id)
            <4>1. r = w.id /\ type = "TERMINATION"
                BY <3>0, <3>4 DEF Emit
            <4>2. Notify(ev, Listeners(ev)) \in InProgress'
                <5>1. MayEmit(type, r)
                    BY <2>3, <4>1, EmissionOf
                <5> QED
                    BY <2>3, <4>1, <5>1, EmittingOf
            <4>3. p \in Listeners(ev)
                <5>1. OnItsWay(w, p)
                    BY <3>1 DEF NoLostWait
                <5>2. ASSUME NEW c \in InProgress PROVE ~Carries(c, w, p)
                    <6>1. CASE c = Head(todo)
                        BY <3>0, <6>1, OpsOf DEF Carries
                    <6>2. CASE c \in Rest
                        <7>1. FitsOver(Head(todo), c) /\ Speaks(Head(todo))
                            BY <3>0, <4>1, <6>2, StackedOf, OpsOf DEF Orderly, Speaks
                        <7> QED
                            BY <7>1 DEF FitsOver, Carries
                    <6> QED
                        BY <3>0, <6>1, <6>2
                <5>3. Subscription(w, p) \in waitEventMap
                    BY <5>1, <5>2, OnItsWayIs
                <5>4. Concerns(Subscription(w, p), ev) /\ Subscription(w, p).profile = p
                    BY SubscriptionIs DEF Concerns, Event
                <5> QED
                    BY <5>3, <5>4 DEF Listeners
            <4> HIDE DEF ev
            <4> QED
                BY <4>2, <4>3, NotifyIs DEF Tells, ev
        <3> QED
            BY <2>1, <3>1, <3>2, <3>3, <3>4
    <2>4. ASSUME NEW h \in Ids, MasterHears(h) \/ OtherHears(h) PROVE Released'
        <3> DEFINE ev == Head(todo).event
                   to == Head(todo).to
        <3>0. ~Emission
            BY <2>4, HearsOf DEF Emission, EmitEvent, Running
        <3>1. PICK C : InProgress' = C \cup {Notify(ev, to \ {h})} \cup Rest
            BY <2>4, HearsOf
        <3>2. /\ Head(todo) = Notify(ev, to) /\ InProgress = {Head(todo)} \cup Rest /\ ev \in Events
              /\ waited' = [waited EXCEPT ![h] = AfterHearing(h)]
            BY <2>4, HearsOf, HearingOf
        <3> SUFFICES ASSUME NEW p \in Ids, NEW w \in waited'[p]
                     PROVE  Unsettled(w.id)' \/ Told(p, w.id)'
            BY <1>0 DEF Released
        <3>3. w \in Events /\ w.id \in Ids
            BY <1>0 DEF Typed, Events
        <3>4. ASSUME NEW c \in InProgress, Tells(c, w.id), p \in c.to, c = Head(todo) => p # h
              PROVE  \E d \in InProgress' : Tells(d, w.id) /\ p \in d.to
            <4>1. CASE c \in Rest
                BY <3>1, <3>4, <4>1
            <4>2. CASE c = Head(todo)
                <5>1. ev = Event("TERMINATION", w.id) /\ p \in to \ {h}
                    BY <3>2, <3>4, <4>2, NotifyIs DEF Tells
                <5> QED
                    BY <3>1, <5>1, NotifyIs DEF Tells
            <4> QED
                BY <3>2, <3>4, <4>1, <4>2
        <3>5. CASE p # h
            <4>1. w \in waited[p]
                BY <3>2, <3>5 DEF Typed
            <4>2. Unsettled(w.id) \/ Told(p, w.id)
                BY <1>4, <4>1 DEF Released
            <4> QED
                BY <2>1, <3>0, <3>3, <3>4, <3>5, <4>2
        <3>6. CASE p = h
            <4>1. w \in AfterHearing(h)
                BY <3>2, <3>6 DEF Typed
            <4>2. \E v \in waited[h] : v.id = w.id
                <5>1. CASE w \in StillWaited(h, ev)
                    BY <5>1 DEF StillWaited
                <5>2. CASE w \notin StillWaited(h, ev)
                    <6>1. Flips(h, ev) /\ w = Opposite(ev)
                        BY <4>1, <5>2 DEF AfterHearing, AwaitedBy
                    <6> QED
                        BY <3>2, <6>1, OppositeOf DEF Flips
                <5> QED
                    BY <5>1, <5>2
            <4>3. Unsettled(w.id) \/ Told(p, w.id)
                BY <1>4, <3>6, <4>2 DEF Released
            <4>4. ~Tells(Head(todo), w.id)
                <5> SUFFICES ASSUME ev = Event("TERMINATION", w.id) PROVE FALSE
                    BY <3>2, NotifyIs DEF Tells
                <5>1. ev.type = "TERMINATION" /\ ev.id = w.id /\ Category(ev.type) = "PROFILE"
                    BY DEF Event, Category
                <5> HIDE DEF ev
                <5>2. w \notin StillWaited(h, ev) /\ ~Flips(h, ev)
                    BY <5>1 DEF StillWaited, Flips
                <5> QED
                    BY <4>1, <5>2 DEF AfterHearing, AwaitedBy, ev
            <4> QED
                BY <2>1, <3>0, <3>3, <3>4, <3>6, <4>3, <4>4
        <3> QED
            BY <3>5, <3>6
    <2> QED
        BY <1>4, <2>2, <2>3, <2>4, NextIs
<1> QED
    BY <1>1, <1>2, <1>3, <1>4

-----------------------------------------------------------------------------
(* A master obeys the partner that it starts and stops with. *)

\* A partner's status, while it is being told.
Says(c, q) ==
    c.op = "notify" /\ c.event \in {Event("PROFILE_LOCKED", q), Event("PROFILE_UNLOCKED", q)}
BeingTold(p, q) == \E c \in InProgress : Says(c, q) /\ p \in c.to

Statuses == {"PROFILE_LOCKED", "PROFILE_UNLOCKED"}

\* A master awaits that its partner is locked while it is not halted, and that it
\* is unlocked while it is; it is halted when the partner is locked and has said so.
Obeys(p, q) ==
    /\ Event("PROFILE_LOCKED", q) \in waited[p] <=> ~halted[p]
    /\ Event("PROFILE_UNLOCKED", q) \in waited[p] <=> halted[p]
    /\ \A t \in Statuses : Subscription(Event(t, q), p) \in waitEventMap
                              <=> Event(t, q) \in waited[p] /\ ~BeingTold(p, q)
    /\ halted[p] <=> ((Status(q) = "PROFILE_LOCKED") <=> ~BeingTold(p, q))
    /\ \A c \in InProgress : Says(c, q) /\ p \in c.to => c.event.type = Status(q)

Obedient == \A p, q \in Ids :
    StopsWith(p, q) /\ p \in Present /\ ~terminated[p] /\ Unsettled(q) => Obeys(p, q)

LEMMA ObeysSame ==
    ASSUME NEW p \in Ids, NEW q \in Ids, Obeys(p, q),
           \A t \in Statuses :
              /\ Event(t, q) \in waited'[p] <=> Event(t, q) \in waited[p]
              /\ Subscription(Event(t, q), p) \in waitEventMap'
                    <=> Subscription(Event(t, q), p) \in waitEventMap,
           halted'[p] = halted[p], Status(q)' = Status(q),
           \A c \in InProgress' : Says(c, q) /\ p \in c.to =>
               \E d \in InProgress : Says(d, q) /\ p \in d.to /\ d.event = c.event,
           \A c \in InProgress : Says(c, q) /\ p \in c.to =>
               \E d \in InProgress' : Says(d, q) /\ p \in d.to
    PROVE  Obeys(p, q)'
<1>1. BeingTold(p, q)' <=> BeingTold(p, q)
    BY DEF BeingTold, Says
<1>2. \A c \in InProgress' : Says(c, q) /\ p \in c.to => c.event.type = Status(q)'
    BY DEF Obeys
<1>3. "PROFILE_LOCKED" \in Statuses /\ "PROFILE_UNLOCKED" \in Statuses
    BY DEF Statuses
<1> QED
    BY <1>1, <1>2, <1>3 DEF Obeys, Says

\* What configures a profile, and the loading of the files.
LEMMA ConfiguringOf ==
    ASSUME Typed, Orderly, Known, Configure
    PROVE  LET p == Head(todo).profile IN
           /\ p \in Ids \ Present /\ todo # <<>> /\ Head(todo) = On("configure", p)
           /\ Head(todo) \in InProgress /\ InProgress = {Head(todo)} \cup Rest
           /\ InProgress' = (IF Free(p) THEN {Emit("ACTIVATION", p)} ELSE {}) \cup Rest
           /\ \A c \in Rest : Load(c) /\ FitsOver(Head(todo), c)
           /\ \A r \in Ids : r \in Present' => r \in Present \/ r = p
           /\ \A r \in Ids : ~terminated[r]
           /\ waited[p] = {}
           /\ \A s \in waitEventMap : s.profile # p
<1> DEFINE p == Head(todo).profile
<1>1. /\ p \in Ids /\ Head(todo) = On("configure", p) /\ todo # <<>>
      /\ InProgress' = (IF Free(p) THEN {Emit("ACTIVATION", p)} ELSE {}) \cup Rest
      /\ InProgress = {Head(todo)} \cup Rest
    BY ConfigureMakes, MakesOf DEF Makes
<1>2. Load(Head(todo)) /\ Head(todo).op = "configure"
    BY <1>1, OpsOf DEF Load
<1>3. \A c \in Rest : Load(c) /\ FitsOver(Head(todo), c)
    BY <1>1, <1>2, StackedOf DEF Orderly, FitsOver
<1>4. p \in Ids \ Present
    BY <1>1 DEF Present, Configured
<1>5. \A r \in Ids : r \in Present' => r \in Present \/ r = p
    <2> SUFFICES ASSUME NEW r \in Ids, r \in Present', r # p PROVE r \in Present
        OBVIOUS
    <2>1. On("configure", r) # Head(todo)
        BY <1>1 DEF On
    <2>2. On("configure", r) \notin InProgress'
        BY DEF Present, Configured
    <2>3. conf' = conf
        BY DEF Configure
    <2> QED
        BY <1>1, <2>1, <2>2, <2>3 DEF Present, Configured
<1>6. \A r \in Ids : ~terminated[r]
    BY <1>1, <1>2 DEF Orderly, LoadingFirst
<1> HIDE DEF p
<1>7. waited[p] = {} /\ \A s \in waitEventMap : s.profile # p
    BY <1>4 DEF Known
<1> QED
    BY <1>1, <1>3, <1>4, <1>5, <1>6, <1>7 DEF p

LEMMA ObedientConfigure ==
    ASSUME StopsWithOne, Typed, Orderly, Known, HaltedAwait, NoStatusYet, Obedient, Configure
    PROVE  Obedient'
<1> DEFINE r == Head(todo).profile
<1>0. conf' = conf /\ waited' = [waited EXCEPT ![r] = Of(r).waits]
      /\ waitEventMap' = waitEventMap \cup {Subscription(w, r) : w \in Of(r).waits}
      /\ halted' = halted /\ emitted' = emitted /\ terminated' = terminated
    BY DEF Configure, Subscribed
<1>1. /\ r \in Ids \ Present
      /\ InProgress = {Head(todo)} \cup Rest /\ Head(todo) \in InProgress
      /\ Head(todo) = On("configure", r)
      /\ InProgress' = (IF Free(r) THEN {Emit("ACTIVATION", r)} ELSE {}) \cup Rest
      /\ \A c \in Rest : Load(c)
      /\ \A p \in Ids : p \in Present' => p \in Present \/ p = r
      /\ waited[r] = {}
      /\ \A s \in waitEventMap : s.profile # r
    BY ConfiguringOf
<1>2. ~halted[r] /\ \A q \in Ids : Status(q) = "NONE"
    <2>1. ~halted[r]
        BY <1>1 DEF HaltedAwait, Waiting
    <2>2. Load(Head(todo))
        BY <1>1, OpsOf DEF Load
    <2> QED
        BY <1>1, <2>1, <2>2 DEF NoStatusYet
<1>3. \A c \in InProgress \cup InProgress' : c.op # "notify"
    BY <1>1, OpsOf DEF Load
<1> HIDE DEF r
<1> SUFFICES ASSUME NEW p \in Ids, NEW q \in Ids, StopsWith(p, q)', p \in Present', ~terminated'[p],
                    Unsettled(q)'
             PROVE  Obeys(p, q)'
    BY DEF Obedient
<1>4. StopsWith(p, q) /\ Unsettled(q) /\ ~terminated[p]
    <2>1. ~Reset /\ [Next]_vars
        BY DEF Configure, Reset, Running, Next, Step
    <2>2. StopsWith(p, q)
        BY <1>0 DEF StopsWith, Of
    <2>3. Unsettled(q) /\ ~terminated[p]
        BY <2>1, UnsettledNext
    <2> QED
        BY <2>2, <2>3
<1>5. CASE p # r
    <2>1. Obeys(p, q)
        BY <1>1, <1>4, <1>5 DEF Obedient
    <2>2. waited'[p] = waited[p]
        BY <1>0, <1>5 DEF Typed
    <2>3. \A t : Subscription(Event(t, q), p) \in waitEventMap'
                    <=> Subscription(Event(t, q), p) \in waitEventMap
        BY <1>0, <1>5, SubscriptionIs
    <2>4. Status(q)' = Status(q)
        BY <1>0 DEF Status
    <2> QED
        BY <1>0, <1>3, <2>1, <2>2, <2>3, <2>4, ObeysSame DEF Says
<1>6. CASE p = r
    <2> DEFINE lock == Event("PROFILE_LOCKED", q)
               unlock == Event("PROFILE_UNLOCKED", q)
    <2>1. lock \in Of(p).waits /\ unlock \notin Of(p).waits /\ lock \in Events /\ unlock \in Events
        BY <1>4, StopsOf, StatusOf DEF Typed, StopsWith
    <2>2. waited'[p] = Of(p).waits /\ ~halted'[p] /\ Of(p).waits \subseteq Events
        BY <1>0, <1>2, <1>6, ConfOf DEF Typed
    <2>3. ~BeingTold(p, q)'
        BY <1>3 DEF BeingTold, Says
    <2>4. /\ Subscription(lock, p) \in waitEventMap'
          /\ Subscription(unlock, p) \notin waitEventMap'
        <3>1. Subscription(lock, p) \in waitEventMap'
            BY <1>0, <1>6, <2>1
        <3>2. Subscription(unlock, p) \notin waitEventMap
            BY <1>1, <1>6, SubscriptionIs
        <3>3. \A w \in Of(p).waits : Subscription(w, p) # Subscription(unlock, p)
            BY <2>1, <2>2, SubscriptionIs
        <3> HIDE DEF lock, unlock
        <3> QED
            BY <1>0, <1>6, <3>1, <3>2, <3>3
    <2>5. Status(q)' = "NONE"
        BY <1>0, <1>2 DEF Status
    <2>6. \A t \in Statuses : Event(t, q) = lock \/ Event(t, q) = unlock
        BY DEF Statuses
    <2>7. \A t \in Statuses : Subscription(Event(t, q), p) \in waitEventMap'
                              <=> Event(t, q) \in waited'[p] /\ ~BeingTold(p, q)'
        <3> SUFFICES ASSUME NEW t \in Statuses
                     PROVE  Subscription(Event(t, q), p) \in waitEventMap'
                              <=> Event(t, q) \in waited'[p] /\ ~BeingTold(p, q)'
            OBVIOUS
        <3> DEFINE e == Event(t, q)
        <3>1. e = lock \/ e = unlock
            BY <2>6
        <3> HIDE DEF e, lock, unlock
        <3>2. CASE e = lock
            BY <2>1, <2>2, <2>3, <2>4, <3>2 DEF e
        <3>3. CASE e = unlock
            BY <2>1, <2>2, <2>3, <2>4, <3>3 DEF e
        <3> QED
            BY <3>1, <3>2, <3>3
    <2>8. \A c \in InProgress' : ~Says(c, q)
        BY <1>3 DEF Says
    <2>9. lock \in waited'[p] /\ unlock \notin waited'[p]
        BY <2>1, <2>2
    <2>10. /\ lock \in waited'[p] <=> ~halted'[p]
           /\ unlock \in waited'[p] <=> halted'[p]
           /\ halted'[p] <=> ((Status(q)' = "PROFILE_LOCKED") <=> ~BeingTold(p, q)')
        <3> HIDE DEF lock, unlock
        <3>1. Status(q)' # "PROFILE_LOCKED"
            BY <2>5
        <3> QED
            BY <2>2, <2>3, <2>9, <3>1
    <2> QED
        BY <2>7, <2>8, <2>10 DEF Obeys, Says
<1> QED
    BY <1>5, <1>6

LEMMA ObedientAside ==
    ASSUME Typed, Orderly, Obedient, [Next]_vars, Aside, ~Configure, ~Reset, ~Emission
    PROVE  Obedient'
<1>0. Present' = Present /\ UNCHANGED <<conf, waited, waitEventMap, emitted>>
    BY PresentNext DEF Aside
<1> SUFFICES ASSUME NEW p \in Ids, NEW q \in Ids, StopsWith(p, q)', p \in Present', ~terminated'[p],
                    Unsettled(q)'
             PROVE  Obeys(p, q)'
    BY DEF Obedient
<1>1. StopsWith(p, q) /\ Unsettled(q) /\ ~terminated[p] /\ halted'[p] = halted[p]
    BY <1>0, UnsettledNext DEF StopsWith, Of, Aside
<1>2. Obeys(p, q)
    BY <1>0, <1>1 DEF Obedient
<1>3. Status(q)' = Status(q)
    BY <1>0 DEF Status
<1>4. \A c \in InProgress' : Says(c, q) => c \in InProgress
    BY DEF Aside, Says
<1>5. \A c \in InProgress : Says(c, q) /\ p \in c.to => c \in InProgress'
    BY DEF Aside, Says
<1> QED
    BY <1>0, <1>1, <1>2, <1>3, <1>4, <1>5, ObeysSame

LEMMA ObedientEmission ==
    ASSUME StopsWithOne, Typed, Orderly, Obedient, Emission
    PROVE  Obedient'
<1> DEFINE r == Head(todo).profile
           type == Head(todo).type
           N == Notify(Event(type, r), Listeners(Event(type, r)))
<1>0. [Next]_vars /\ ~Configure /\ ~Reset
    BY DEF Next, Step, Emission, EmitEvent, Configure, Reset, Running
<1>1. /\ r \in Ids /\ type \in Types /\ Head(todo) = Emit(type, r) /\ todo # <<>>
      /\ Head(todo) \in InProgress /\ InProgress = {Head(todo)} \cup Rest
      /\ UNCHANGED <<conf, waited, halted, terminated>> /\ Present' = Present
    BY <1>0, EmittingOf, PresentNext
<1>2. MayEmit(type, r) =>
         /\ emitted' = [emitted EXCEPT ![r][Category(type)] =
                [type |-> type, time |-> IF Category(type) = "PROFILE" THEN 0 ELSE time]]
         /\ waitEventMap' = KeptSubscriptions(Event(type, r))
         /\ InProgress' = {N} \cup Rest
    BY EmittingOf
<1>3. ~MayEmit(type, r) => UNCHANGED <<emitted, waitEventMap>> /\ InProgress' = Rest
    BY EmittingOf
<1>4. /\ N.op = "notify" /\ N.event = Event(type, r) /\ N.to = Listeners(Event(type, r))
      /\ Head(todo).op = "emit"
    BY <1>1, NotifyIs, OpsOf
<1> HIDE DEF N, type, r
<1> SUFFICES ASSUME NEW p \in Ids, NEW q \in Ids, StopsWith(p, q)', p \in Present', ~terminated'[p],
                    Unsettled(q)'
             PROVE  Obeys(p, q)'
    BY DEF Obedient
<1>5. StopsWith(p, q) /\ Unsettled(q) /\ ~terminated[p]
    <2>1. StopsWith(p, q)
        BY <1>1 DEF StopsWith, Of
    <2>2. Unsettled(q) /\ ~terminated[p]
        BY <1>0, UnsettledNext
    <2> QED
        BY <2>1, <2>2
<1>6. Obeys(p, q)
    BY <1>1, <1>5 DEF Obedient
<1>7. \A c \in InProgress : Says(c, q) => c \in Rest
    BY <1>1, <1>4 DEF Says
<1>8. CASE ~MayEmit(type, r)
    <2>1. Status(q)' = Status(q)
        BY <1>3, <1>8 DEF Status
    <2>2. \A c \in InProgress' : c \in InProgress
        BY <1>1, <1>3, <1>8
    <2>3. \A c \in InProgress : Says(c, q) => c \in InProgress'
        BY <1>3, <1>7, <1>8
    <2> QED
        BY <1>1, <1>3, <1>6, <1>8, <2>1, <2>2, <2>3, ObeysSame
<1>9. CASE MayEmit(type, r) /\ ~(r = q /\ type \in Statuses)
    <2>0. r = q => type # "TERMINATION"
        <3> SUFFICES ASSUME r = q, type = "TERMINATION" PROVE FALSE
            OBVIOUS
        <3>1. Head(todo) = Emit("TERMINATION", q)
            BY <1>1
        <3>2. terminated[q]
            BY <1>1, <3>1 DEF Orderly, Announced
        <3>3. Emit("TERMINATION", q) \notin InProgress'
            BY EmissionOf DEF r, type
        <3> QED
            BY <1>1, <3>2, <3>3 DEF Unsettled
    <2>1. Status(q)' = Status(q)
        <3>1. type = "ACTIVATION" => Category(type) = "PROFILE"
            BY DEF Category
        <3>2. r # q \/ Category(type) # "SEND_STATUS"
            BY <1>1, <1>9, <2>0, <3>1 DEF Types, Statuses
        <3>3. Category(type) \in Categories /\ "SEND_STATUS" \in Categories
            BY <1>1, CategoryOf DEF Categories
        <3> QED
            BY <1>1, <1>2, <1>9, <3>2, <3>3, EmittedNow DEF Status
    <2>2. \A t \in Statuses : ~Concerns(Subscription(Event(t, q), p), Event(type, r)) /\ Event(t, q) # Event(type, r)
        BY <1>9, <2>0 DEF Concerns, Subscription, Event
    <2>3. \A t \in Statuses : Subscription(Event(t, q), p) \in waitEventMap'
                               <=> Subscription(Event(t, q), p) \in waitEventMap
        BY <1>2, <1>9, <2>2 DEF KeptSubscriptions
    <2>4. ~Says(N, q)
        BY <1>4, <2>2 DEF Says, Statuses
    <2>5. \A c \in InProgress' : Says(c, q) => c \in InProgress
        BY <1>1, <1>2, <1>9, <2>4
    <2>6. \A c \in InProgress : Says(c, q) => c \in InProgress'
        BY <1>2, <1>7, <1>9
    <2> QED
        BY <1>1, <1>6, <2>1, <2>3, <2>5, <2>6, ObeysSame
<1>10. CASE MayEmit(type, r) /\ r = q /\ type \in Statuses
    <2> DEFINE lock == Event("PROFILE_LOCKED", q)
               unlock == Event("PROFILE_UNLOCKED", q)
               ev == Event(type, q)
    <2>0. lock \in Events /\ unlock \in Events /\ lock # unlock
        BY StatusOf
    <2>1. \A c \in Rest : c.op # "notify"
        <3>1. Speaks(Head(todo))
            BY <1>1, <1>10, <1>4 DEF Speaks, Statuses, Emit
        <3> QED
            BY <1>1, <3>1, StackedOf DEF Orderly, FitsOver
    <2>2. ~BeingTold(p, q)
        BY <1>7, <2>1 DEF BeingTold, Says
    <2>3. Status(q) # type /\ Status(q)' = type
        <3>1. Category(type) = "SEND_STATUS" /\ type # "NONE" /\ "SEND_STATUS" \in Categories
            BY <1>10 DEF Category, Statuses, Categories
        <3>2. Status(q) # type
            BY <1>10, <3>1 DEF MayEmit, Status
        <3> DEFINE e == [type |-> type, time |-> IF Category(type) = "PROFILE" THEN 0 ELSE time]
        <3>3. e.type = type
            OBVIOUS
        <3> HIDE DEF e
        <3>4. emitted'[q]["SEND_STATUS"] = e
            <4> DEFINE c == "SEND_STATUS"
            <4>1. emitted' = [emitted EXCEPT ![q][c] = e]
                BY <1>2, <1>10, <3>1 DEF e
            <4>2. c \in Categories
                BY <3>1
            <4> HIDE DEF c
            <4>3. emitted \in [Ids -> [Categories -> [type : Types \cup {"NONE"}, time : Nat]]] /\ q \in Ids
                BY DEF Typed
            <4>4. emitted'[q] = [emitted[q] EXCEPT ![c] = e]
                BY <4>1, <4>3
            <4>5. DOMAIN emitted[q] = Categories
                BY <4>3
            <4>6. emitted'[q][c] = e
                BY <4>2, <4>4, <4>5
            <4> QED
                BY <4>6 DEF c
        <3> QED
            BY <3>2, <3>3, <3>4 DEF Status
    <2>4. p \in N.to <=> Subscription(ev, p) \in waitEventMap
        <3>1. p \in N.to <=> \E s \in waitEventMap : s.profile = p /\ Concerns(s, ev)
            BY <1>4, <1>10 DEF Listeners
        <3>2. ASSUME NEW s \in waitEventMap, s.profile = p, Concerns(s, ev)
              PROVE  s = Subscription(ev, p)
            <4>1. s.id = q /\ s.type = type
                BY <1>10, <3>2 DEF Concerns, Event, Statuses
            <4>2. s \in Subscriptions
                BY DEF Typed
            <4> QED
                BY <3>2, <4>1, <4>2 DEF Subscriptions, Subscription, Event
        <3>3. Subscription(ev, p).profile = p /\ Concerns(Subscription(ev, p), ev)
            BY SubscriptionIs DEF Concerns, Event
        <3> QED
            BY <3>1, <3>2, <3>3
    <2>5. \A t \in Statuses : Subscription(Event(t, q), p) \in waitEventMap'
             <=> Subscription(Event(t, q), p) \in waitEventMap /\ t # type
        <3>1. \A t \in Statuses : Concerns(Subscription(Event(t, q), p), Event(type, q)) <=> t = type
            BY <1>10 DEF Concerns, Subscription, Event, Statuses
        <3> QED
            BY <1>2, <1>10, <3>1 DEF KeptSubscriptions
    <2>6. Says(N, q)
        BY <1>4, <1>10 DEF Says, Statuses
    <2>7. BeingTold(p, q)' <=> p \in N.to
        BY <1>2, <1>10, <2>1, <2>6 DEF BeingTold, Says
    <2>8. \A c \in InProgress' : Says(c, q) => c.event.type = Status(q)'
        <3>1. N.event.type = type
            BY <1>4 DEF Event
        <3> QED
            BY <1>2, <1>10, <2>1, <2>3, <3>1 DEF Says
    <2>9. /\ lock \in waited[p] <=> ~halted[p]
          /\ unlock \in waited[p] <=> halted[p]
          /\ Subscription(lock, p) \in waitEventMap <=> lock \in waited[p]
          /\ Subscription(unlock, p) \in waitEventMap <=> unlock \in waited[p]
          /\ halted[p] <=> Status(q) = "PROFILE_LOCKED"
        <3>1. "PROFILE_LOCKED" \in Statuses /\ "PROFILE_UNLOCKED" \in Statuses
            BY DEF Statuses
        <3> QED
            BY <1>6, <2>2, <3>1 DEF Obeys
    <2>10. waited'[p] = waited[p] /\ halted'[p] = halted[p]
        BY <1>1
    <2>11. /\ Subscription(lock, p) \in waitEventMap' <=> Subscription(lock, p) \in waitEventMap /\ type # "PROFILE_LOCKED"
           /\ Subscription(unlock, p) \in waitEventMap' <=> Subscription(unlock, p) \in waitEventMap /\ type # "PROFILE_UNLOCKED"
        BY <2>5 DEF Statuses
    <2>12. /\ Subscription(lock, p) \in waitEventMap' <=> lock \in waited'[p] /\ ~BeingTold(p, q)'
           /\ Subscription(unlock, p) \in waitEventMap' <=> unlock \in waited'[p] /\ ~BeingTold(p, q)'
           /\ halted'[p] <=> ((Status(q)' = "PROFILE_LOCKED") <=> ~BeingTold(p, q)')
        <3>1. CASE type = "PROFILE_LOCKED"
            <4>1. BeingTold(p, q)' <=> Subscription(lock, p) \in waitEventMap
                BY <2>4, <2>7, <3>1
            <4> HIDE DEF lock, unlock
            <4> QED
                BY <3>1, <4>1, <2>3, <2>9, <2>10, <2>11
        <3>2. CASE type = "PROFILE_UNLOCKED"
            <4>1. BeingTold(p, q)' <=> Subscription(unlock, p) \in waitEventMap
                BY <2>4, <2>7, <3>2
            <4> HIDE DEF lock, unlock
            <4> QED
                BY <3>2, <4>1, <2>3, <2>9, <2>10, <2>11
        <3> QED
            BY <1>10, <3>1, <3>2 DEF Statuses
    <2>13. \A t \in Statuses : Subscription(Event(t, q), p) \in waitEventMap'
             <=> Event(t, q) \in waited'[p] /\ ~BeingTold(p, q)'
        BY <2>12 DEF Statuses
    <2> QED
        BY <2>8, <2>9, <2>10, <2>12, <2>13 DEF Obeys, Says
<1> QED
    BY <1>8, <1>9, <1>10

LEMMA ObedientHears ==
    ASSUME StopsWithOne, Typed, Orderly, Known, AsConfigured, Obedient,
           NEW h \in Ids, MasterHears(h) \/ OtherHears(h)
    PROVE  Obedient'
<1> DEFINE ev == Head(todo).event
           to == Head(todo).to
           A == AfterHearing(h)
<1>0. [Next]_vars /\ ~Configure /\ ~Reset /\ ~Emission
    <2>1. Running("notify")
        BY DEF MasterHears, OtherHears, Hears
    <2>2. ~Configure /\ ~Reset /\ ~Emission
        BY <2>1 DEF Emission, EmitEvent, Configure, Reset, Running
    <2> QED
        BY <2>2 DEF Next, Step
<1>1. PICK C : InProgress' = C \cup {Notify(ev, to \ {h})} \cup Rest
               /\ (C = {} \/ C = {Emit("ACTIVATION", h)})
    BY HearsOf
<1>2. /\ Head(todo) = Notify(ev, to) /\ InProgress = {Head(todo)} \cup Rest /\ ev \in Events
      /\ todo # <<>> /\ h \in to /\ Head(todo) \in InProgress
      /\ waited' = [waited EXCEPT ![h] = A]
      /\ waitEventMap' = waitEventMap \cup {Subscription(w, h) : w \in A \ waited[h]}
      /\ halted' = IF Master(h) THEN [halted EXCEPT ![h] = HaltedBy(h, ev)] ELSE halted
      /\ UNCHANGED <<conf, emitted, terminated>>
      /\ Present' = Present
    BY <1>0, HearsOf, HearingOf, PresentNext DEF Subscribed
<1>3. /\ Notify(ev, to).op = "notify" /\ Notify(ev, to).event = ev /\ Notify(ev, to).to = to
      /\ Notify(ev, to \ {h}).op = "notify" /\ Notify(ev, to \ {h}).event = ev
      /\ Notify(ev, to \ {h}).to = to \ {h}
      /\ \A c \in C : c.op = "emit"
    BY <1>1, NotifyIs, OpsOf
<1> SUFFICES ASSUME NEW p \in Ids, NEW q \in Ids, StopsWith(p, q)', p \in Present', ~terminated'[p],
                    Unsettled(q)'
             PROVE  Obeys(p, q)'
    BY DEF Obedient
<1> HIDE DEF ev, to, A
<1>4. StopsWith(p, q) /\ Unsettled(q) /\ ~terminated[p]
    <2>1. StopsWith(p, q)
        BY <1>2 DEF StopsWith, Of
    <2>2. Unsettled(q) /\ ~terminated[p]
        BY <1>0, UnsettledNext
    <2> QED
        BY <2>1, <2>2
<1>5. Obeys(p, q)
    BY <1>2, <1>4 DEF Obedient
<1>6. Status(q)' = Status(q)
    BY <1>2 DEF Status
\* What others hear stays as it is, unless p has just heard its partner's status.
<1>7. ASSUME p # h \/ ~Says(Head(todo), q)
      PROVE  /\ \A c \in InProgress' : Says(c, q) /\ p \in c.to =>
                   \E d \in InProgress : Says(d, q) /\ p \in d.to /\ d.event = c.event
             /\ \A c \in InProgress : Says(c, q) /\ p \in c.to =>
                   \E d \in InProgress' : Says(d, q) /\ p \in d.to
    <2>1. ASSUME NEW c \in InProgress', Says(c, q), p \in c.to
          PROVE  \E d \in InProgress : Says(d, q) /\ p \in d.to /\ d.event = c.event
        <3>1. CASE c = Notify(ev, to \ {h})
            BY <1>2, <1>3, <2>1, <3>1 DEF Says
        <3>2. CASE c \in C
            BY <1>3, <2>1, <3>2 DEF Says
        <3>3. CASE c \in Rest
            BY <1>2, <2>1, <3>3
        <3> QED
            BY <1>1, <2>1, <3>1, <3>2, <3>3
    <2>2. ASSUME NEW c \in InProgress, Says(c, q), p \in c.to
          PROVE  \E d \in InProgress' : Says(d, q) /\ p \in d.to
        <3>1. CASE c = Head(todo)
            <4>1. Says(Notify(ev, to \ {h}), q) /\ p \in Notify(ev, to \ {h}).to
                BY <1>2, <1>3, <1>7, <2>2, <3>1 DEF Says
            <4> QED
                BY <1>1, <4>1
        <3>2. CASE c \in Rest
            BY <1>1, <2>2, <3>2
        <3> QED
            BY <1>2, <2>2, <3>1, <3>2
    <2> QED
        BY <2>1, <2>2
<1>8. CASE p # h
    <2>1. waited'[p] = waited[p] /\ halted'[p] = halted[p]
        BY <1>2, <1>8 DEF Typed
    <2>2. \A t : Subscription(Event(t, q), p) \in waitEventMap'
                    <=> Subscription(Event(t, q), p) \in waitEventMap
        BY <1>2, <1>8, SubscriptionIs
    <2> QED
        BY <1>5, <1>6, <1>7, <1>8, <2>1, <2>2, ObeysSame
<1>9. CASE p = h
    <2> DEFINE lock == Event("PROFILE_LOCKED", q)
               unlock == Event("PROFILE_UNLOCKED", q)
    <2>0. /\ lock \in Events /\ unlock \in Events /\ lock # unlock
          /\ Category(lock.type) = "SEND_STATUS" /\ Category(unlock.type) = "SEND_STATUS"
          /\ lock.type = "PROFILE_LOCKED" /\ unlock.type = "PROFILE_UNLOCKED"
          /\ lock.id = q /\ unlock.id = q
          /\ Opposite(lock) = unlock /\ Opposite(unlock) = lock
        BY StatusOf
    <2>1. /\ Master(p) /\ \A w \in Of(p).waits : Category(w.type) = "SEND_STATUS" => w = lock
        BY <1>4, StopsOf DEF Typed
    <2>2. /\ lock \in waited[p] <=> ~halted[p]
          /\ unlock \in waited[p] <=> halted[p]
          /\ Subscription(lock, p) \in waitEventMap <=> lock \in waited[p] /\ ~BeingTold(p, q)
          /\ Subscription(unlock, p) \in waitEventMap <=> unlock \in waited[p] /\ ~BeingTold(p, q)
          /\ halted[p] <=> ((Status(q) = "PROFILE_LOCKED") <=> ~BeingTold(p, q))
          /\ \A c \in InProgress : Says(c, q) /\ p \in c.to => c.event.type = Status(q)
        <3>1. "PROFILE_LOCKED" \in Statuses /\ "PROFILE_UNLOCKED" \in Statuses
            BY DEF Statuses
        <3> QED
            BY <1>5, <3>1 DEF Obeys
    <2>3. /\ A = StillWaited(p, ev) \cup (IF Flips(p, ev) THEN {Opposite(ev)} ELSE {})
          /\ waited'[p] = A /\ halted'[p] = HaltedBy(p, ev)
          /\ HaltedBy(p, ev) <=> /\ Waiting(A, "SEND_STATUS")
                                 /\ IF Flips(p, ev) THEN ~halted[p] ELSE halted[p]
        <3>1. A = AwaitedBy(p, ev)
            BY <1>9, <2>1 DEF A, ev, AfterHearing
        <3>2. waited'[p] = A /\ halted'[p] = HaltedBy(p, ev)
            BY <1>2, <1>9, <2>1 DEF Typed
        <3>3. A = StillWaited(p, ev) \cup (IF Flips(p, ev) THEN {Opposite(ev)} ELSE {})
            BY <3>1 DEF AwaitedBy
        <3>4. HaltedBy(p, ev) <=> /\ Waiting(A, "SEND_STATUS")
                                  /\ IF Flips(p, ev) THEN ~halted[p] ELSE halted[p]
            BY <3>1 DEF HaltedBy
        <3> QED
            BY <3>2, <3>3, <3>4
    <2>4. lock \in A \/ unlock \in A => Waiting(A, "SEND_STATUS")
        BY <2>0 DEF Waiting
    <2> HIDE DEF lock, unlock
    <2>5. CASE ev \in {lock, unlock}
        <3>1. Says(Head(todo), q)
            BY <1>2, <1>3, <2>5 DEF Says, lock, unlock
        <3>2. \A c \in Rest : c.op # "notify"
            <4>1. Speaks(Head(todo))
                BY <1>2, <1>3, <2>0, <2>5 DEF Speaks
            <4> QED
                BY <1>2, <4>1, StackedOf DEF Orderly, FitsOver
        <3>3. BeingTold(p, q) /\ ev.type = Status(q)
            BY <1>2, <1>3, <1>9, <2>2, <3>1 DEF BeingTold
        <3>4. \A c \in InProgress' : ~(Says(c, q) /\ p \in c.to)
            BY <1>1, <1>3, <1>9, <3>2 DEF Says
        <3>5. ~BeingTold(p, q)'
            BY <3>4 DEF BeingTold, Says
        <3>6. Subscription(lock, p) \notin waitEventMap /\ Subscription(unlock, p) \notin waitEventMap
            BY <2>2, <3>3
        <3>7. \A w \in Events : Subscription(w, p) \in waitEventMap'
                 <=> Subscription(w, p) \in waitEventMap \/ w \in A \ waited[p]
            <4>1. A \subseteq Events
                BY <1>2, <2>3, AwaitedOf DEF AwaitedBy
            <4> QED
                BY <1>2, <1>9, <4>1, SubscriptionIs
        <3>8. ev.type # "TERMINATION" /\ StillWaited(p, ev) = waited[p] \ {ev}
            BY <2>0, <2>5 DEF StillWaited
        <3>9. /\ lock \in A <=> Status(q)' # "PROFILE_LOCKED"
              /\ unlock \in A <=> Status(q)' = "PROFILE_LOCKED"
              /\ halted'[p] <=> Status(q)' = "PROFILE_LOCKED"
              /\ lock \in A => lock \notin waited[p]
              /\ unlock \in A => unlock \notin waited[p]
            <4>1. CASE ev = lock
                <5>1. Status(q) = "PROFILE_LOCKED" /\ ~halted[p] /\ lock \in waited[p] /\ unlock \notin waited[p]
                    BY <2>0, <2>2, <3>3, <4>1
                <5>2. Flips(p, ev) /\ Opposite(ev) = unlock
                    BY <2>0, <4>1, <5>1 DEF Flips
                <5>3. unlock \in A /\ lock \notin A
                    BY <2>0, <2>3, <3>8, <4>1, <5>2
                <5> QED
                    BY <1>6, <2>3, <2>4, <5>1, <5>2, <5>3
            <4>2. CASE ev = unlock
                <5>1. Status(q) # "PROFILE_LOCKED" /\ halted[p] /\ lock \notin waited[p] /\ unlock \in waited[p]
                    BY <2>0, <2>2, <3>3, <4>2
                <5>2. Flips(p, ev) /\ Opposite(ev) = lock
                    BY <2>0, <4>2, <5>1 DEF Flips
                <5>3. lock \in A /\ unlock \notin A
                    BY <2>0, <2>3, <3>8, <4>2, <5>2
                <5> QED
                    BY <1>6, <2>3, <2>4, <5>1, <5>2, <5>3
            <4> QED
                BY <2>5, <4>1, <4>2
        <3>10. /\ Subscription(lock, p) \in waitEventMap' <=> lock \in waited'[p] /\ ~BeingTold(p, q)'
               /\ Subscription(unlock, p) \in waitEventMap' <=> unlock \in waited'[p] /\ ~BeingTold(p, q)'
            BY <2>0, <2>2, <2>3, <3>5, <3>6, <3>7, <3>9
        <3>11. \A t \in Statuses : Subscription(Event(t, q), p) \in waitEventMap'
                 <=> Event(t, q) \in waited'[p] /\ ~BeingTold(p, q)'
            BY <3>10 DEF Statuses, lock, unlock
        <3>12. /\ lock \in waited'[p] <=> ~halted'[p]
               /\ unlock \in waited'[p] <=> halted'[p]
               /\ halted'[p] <=> ((Status(q)' = "PROFILE_LOCKED") <=> ~BeingTold(p, q)')
            BY <2>3, <3>5, <3>9
        <3> QED
            BY <3>4, <3>11, <3>12 DEF Obeys, lock, unlock, Says
    <2>6. CASE ev \notin {lock, unlock}
        <3>1. ~Says(Head(todo), q)
            BY <1>2, <1>3, <2>6 DEF Says, lock, unlock
        <3>2. ~(ev.type = "TERMINATION" /\ ev.id = q)
            <4> SUFFICES ASSUME ev.type = "TERMINATION", ev.id = q PROVE FALSE
                OBVIOUS
            <4>1. ev = Event("TERMINATION", q)
                BY <1>2 DEF Events, Event
            <4>2. terminated[q]
                BY <1>2, <1>3, <4>1 DEF Orderly, Announced, Tells
            <4>3. Emit("TERMINATION", q) \in Rest
                BY <1>2, <1>3, <1>4, <4>2, OpsOf DEF Unsettled
            <4>4. Speaks(Head(todo))
                BY <1>2, <1>3 DEF Speaks
            <4>5. Emit("TERMINATION", q).op \in {"check", "walk"}
                BY <1>2, <4>3, <4>4, StackedOf DEF Orderly, FitsOver
            <4> QED
                BY <4>5, OpsOf
        <3>3. ~Flips(p, ev)
            <4> SUFFICES ASSUME ev \in waited[p], Category(ev.type) = "SEND_STATUS" PROVE FALSE
                BY DEF Flips
            <4>1. ev \notin Of(p).waits
                BY <2>1, <2>6
            <4>2. ev.type = "PROFILE_UNLOCKED" /\ StopsWith(p, ev.id)
                BY <4>1 DEF AsConfigured
            <4>3. Event("PROFILE_LOCKED", ev.id) = lock
                <5>1. Category(Event("PROFILE_LOCKED", ev.id).type) = "SEND_STATUS"
                    BY DEF Event, Category
                <5> QED
                    BY <2>1, <4>2, <5>1 DEF StopsWith
            <4>4. ev.id = q
                BY <4>3 DEF lock, Event
            <4>5. ev = unlock
                BY <1>2, <4>2, <4>4 DEF unlock, Event, Events
            <4> QED
                BY <2>6, <4>5
        <3>4. A \subseteq waited[p] /\ (lock \in A <=> lock \in waited[p]) /\ (unlock \in A <=> unlock \in waited[p])
            BY <2>0, <2>3, <2>6, <3>2, <3>3 DEF StillWaited
        <3>5. waitEventMap' = waitEventMap
            BY <1>2, <1>9, <3>4
        <3>6. halted'[p] = halted[p]
            <4>1. halted[p] \in BOOLEAN /\ halted'[p] \in BOOLEAN
                <5>1. Typed'
                    BY <1>0, TypedNext
                <5> QED
                    BY <5>1 DEF Typed
            <4>2. halted'[p] <=> halted[p]
                BY <2>2, <2>3, <2>4, <3>3, <3>4
            <4> QED
                BY <4>1, <4>2
        <3>7. \A t \in Statuses : Event(t, q) \in waited'[p] <=> Event(t, q) \in waited[p]
            BY <2>3, <3>4 DEF Statuses, lock, unlock
        <3> QED
            BY <1>5, <1>6, <1>7, <3>1, <3>5, <3>6, <3>7, ObeysSame
    <2> QED
        BY <2>5, <2>6
<1> QED
    BY <1>8, <1>9

LEMMA ObedientNext ==
    ASSUME StopsWithOne, Typed, Orderly, Known, AsConfigured, HaltedAwait, NoStatusYet, Again,
           Obedient, [Next]_vars
    PROVE  Obedient'
<1>1. CASE Reset
    <2>1. ASSUME NEW p \in Ids, NEW q \in Ids, StopsWith(p, q)' PROVE FALSE
        <3>1. StopsWith(p, q)
            BY <2>1, StepsAre DEF StopsWith, Of
        <3>2. ~conf.autoReset
            BY <3>1, StopsOf DEF Typed
        <3>3. Head(todo).profile \in Ids /\ On("reset", Head(todo).profile) \in InProgress
            BY <1>1, ResetMakes, MakesOf
        <3> QED
            BY <3>2, <3>3 DEF Again, Resetting
    <2> QED
        BY <2>1 DEF Obedient
<1> QED
    BY <1>1, ObedientConfigure, ObedientEmission, ObedientHears, ObedientAside, NextIs

-----------------------------------------------------------------------------
(* How profiles come to begin: activations, who awaits them, who is polled. *)

\* Announcements wait for their turn.
LEMMA EmitsStay ==
    ASSUME Typed, [Next]_vars, ~Emission
    PROVE  \A x \in InProgress : x.op = "emit" => x \in InProgress'
<1>1. ASSUME NEW D, Makes(D), Head(todo).op # "emit"
      PROVE  \A x \in InProgress : x.op = "emit" => x \in InProgress'
    BY <1>1, MakesOf
<1>2. CASE Configure
    BY <1>1, <1>2, ConfigureMakes, OpsOf
<1>3. CASE Reset
    BY <1>1, <1>3, ResetMakes
<1>4. ASSUME NEW C, Silent(C) PROVE \A x \in InProgress : x.op = "emit" => x \in InProgress'
    BY <1>1, <1>4 DEF Silent
<1>5. ASSUME NEW p \in Ids, NEW C, Ending(p, C)
      PROVE  \A x \in InProgress : x.op = "emit" => x \in InProgress'
    BY <1>1, <1>5 DEF Ending
<1>6. ASSUME NEW c, Begins(c) PROVE InProgress = {}
    BY <1>6, BeginsOf
<1>7. CASE Stays
    BY <1>7 DEF Stays, InProgress
<1> QED
    BY <1>2, <1>3, <1>4, <1>5, <1>6, <1>7, StepsAre

\* A profile that is asked and sends no longer waits for others.
LEMMA ActiveOf ==
    ASSUME Typed, AtEnd, NEW p \in Ids, Master(p), Active(p)
    PROVE  ~Waiting(waited[p], "PROFILE") /\ ~halted[p] /\ ~terminated[p]
<1>1. ~Locked(p) /\ ~Ended(p)
    BY DEF Active
<1>2. ~terminated[p]
    BY <1>1 DEF AtEnd
<1> QED
    BY <1>1, <1>2 DEF Locked, Terminates

LEMMA StartedNext ==
    ASSUME Rooted, Typed, AtEnd, [Next]_vars, NEW p \in Ids, Partners(p) # {}, Sends(p),
           Waiting(waited'[p], "PROFILE"), started'[p]
    PROVE  started[p]
<1>1. CASE started' = started
    BY <1>1
<1>2. CASE Configure \/ Reset
    <2> DEFINE r == Head(todo).profile
    <2>1. /\ r \in Ids /\ waited' = [waited EXCEPT ![r] = Of(r).waits]
          /\ started' = [started EXCEPT ![r] = Free(r) /\ Master(r)]
        <3>1. r \in Ids
            BY <1>2, ConfigureMakes, ResetMakes
        <3>2. CASE Configure
            BY <3>1, <3>2 DEF Configure, Free, Master
        <3>3. CASE Reset
            BY <3>1, <3>3 DEF Reset, RetainedWaits, Free, Master
        <3> QED
            BY <1>2, <3>1, <3>2, <3>3
    <2> HIDE DEF r
    <2>2. CASE p = r
        <3>1. waited'[p] = Of(p).waits /\ started'[p] => Free(p)
            BY <2>1, <2>2 DEF Typed
        <3>2. waited'[p] = Of(p).waits
            BY <2>1, <2>2 DEF Typed
        <3> QED
            BY <3>1, <3>2 DEF Free
    <2>3. CASE p # r
        BY <2>1, <2>3 DEF Typed
    <2> QED
        BY <2>2, <2>3
<1>3. CASE MasterSends \/ MasterRefused
    <2> DEFINE r == Polled
    <2>1. r \in Ids /\ Master(r) /\ Active(r) /\ started' = [started EXCEPT ![r] = TRUE] /\ waited' = waited
        BY <1>3, MasterSendsMakes, MasterRefusedMakes
        DEF MasterSends, MasterRefused, Activated, busVars, Master
    <2>2. ~Waiting(waited[r], "PROFILE")
        BY <2>1, ActiveOf
    <2> HIDE DEF r
    <2> QED
        BY <2>1, <2>2 DEF Typed
<1>4. CASE DelaySend
    <2> DEFINE r == Polled
    <2>1. r \in Ids /\ started' = [started EXCEPT ![r] = DelayBegun(r)] /\ waited' = waited
        BY <1>4, DelaySendMakes DEF DelaySend, busVars, DelayBegun
    <2> HIDE DEF r
    <2> QED
        BY <2>1 DEF Typed, DelayBegun
<1>5. ASSUME NEW r \in Ids, ActivateStream(r) PROVE started[p]
    <2>1. r \in conf.roots /\ started' = [started EXCEPT ![r] = TRUE] /\ conf \in Configs
        BY <1>5 DEF ActivateStream, Typed
    <2>2. Partners(r) = {}
        BY <2>1 DEF Rooted, Partners, Of
    <2> QED
        BY <2>1, <2>2 DEF Typed
<1>6. ASSUME NEW r \in Ids, MasterHears(r) PROVE started[p]
    <2> DEFINE A == AwaitedBy(r, Head(todo).event)
    <2>1. /\ waited' = [waited EXCEPT ![r] = A]
          /\ started' = [started EXCEPT ![r] = @ \/ Starts(r, A)]
        BY <1>6 DEF MasterHears
    <2> HIDE DEF A
    <2>2. CASE p = r
        <3>1. waited'[p] = A /\ (started'[p] => started[p] \/ Starts(p, A))
            BY <2>1, <2>2 DEF Typed
        <3> QED
            BY <3>1 DEF Starts
    <2>3. CASE p # r
        BY <2>1, <2>3 DEF Typed
    <2> QED
        BY <2>2, <2>3
<1>7. \/ started' = started \/ Configure \/ Reset \/ MasterSends \/ MasterRefused \/ DelaySend
      \/ \E r \in Ids : ActivateStream(r) \/ MasterHears(r)
    <2>1. CASE Emission \/ StreamCacheUpdate \/ Delivered \/ AllAsked \/ EndWalk
        BY <2>1 DEF Emission, StreamCacheUpdate, Delivered, AllAsked, EndWalk, profileVars
    <2>2. CASE MasterIdle \/ CheckerSkipped \/ Answered \/ Poll \/ UNCHANGED vars
        BY <2>2 DEF MasterIdle, CheckerSkipped, Answered, Poll, vars, profileVars
    <2>3. ASSUME NEW r \in Ids, \/ OtherHears(r) \/ CheckerRecords(r) \/ AskStream(r) \/ Answer(r) \/ Discard(r)
          PROVE  started' = started
        BY <2>3 DEF OtherHears, CheckerRecords, AskStream, Answer, Discard, profileVars
    <2> QED
        BY <2>1, <2>2, <2>3 DEF Next, Step
<1> QED
    BY <1>1, <1>2, <1>3, <1>4, <1>5, <1>6, <1>7

\* Who hears the last of what it waited for announces its activation.
LEMMA HearingStarts ==
    ASSUME Typed, NEW p \in Ids, MasterHears(p) \/ OtherHears(p)
    PROVE  /\ \A r \in Ids : Emit("ACTIVATION", r) \in InProgress' /\ Emit("ACTIVATION", r) \notin InProgress =>
                 r = p /\ ~Waiting(waited'[p], "PROFILE") /\ (Master(p) => ~started[p])
           /\ Sends(p) /\ ~started[p] /\ ~Waiting(waited'[p], "PROFILE") =>
                 Emit("ACTIVATION", p) \in InProgress'
           /\ waited'[p] = AfterHearing(p) /\ \A r \in Ids \ {p} : waited'[r] = waited[r]
           /\ Waiting(waited'[p], "PROFILE") => Waiting(waited[p], "PROFILE")
<1> DEFINE ev == Head(todo).event
           to == Head(todo).to
           A == AfterHearing(p)
           b == IF Master(p) THEN Starts(p, A) ELSE Of(p).role = "delay" /\ ~Waiting(A, "PROFILE")
           e == Emit("ACTIVATION", p)
<1>1. waited' = [waited EXCEPT ![p] = A] /\ ev \in Events
    BY HearingOf, HearsOf
<1>2. Makes((IF b THEN {e} ELSE {}) \cup {Notify(ev, to \ {p})})
    <2>1. CASE MasterHears(p)
        <3>1. Master(p) /\ A = AwaitedBy(p, ev)
            BY <2>1 DEF MasterHears, Master, AfterHearing
        <3> QED
            BY <2>1, <3>1, MasterHearsMakes
    <2>2. CASE OtherHears(p)
        <3>1. ~Master(p) /\ A = StillWaited(p, ev)
            BY <2>2 DEF OtherHears, Master, AfterHearing
        <3> QED
            BY <2>2, <3>1, OtherHearsMakes
    <2> QED
        BY <2>1, <2>2
<1>3. InProgress' = (IF b THEN {e} ELSE {}) \cup {Notify(ev, to \ {p})} \cup Rest
      /\ InProgress = {Head(todo)} \cup Rest
    BY <1>2, MakesOf
<1>4. waited'[p] = A /\ \A r \in Ids \ {p} : waited'[r] = waited[r]
    BY <1>1 DEF Typed
<1>5. Waiting(A, "PROFILE") => Waiting(waited[p], "PROFILE")
    <2> SUFFICES ASSUME NEW w \in A, Category(w.type) = "PROFILE" PROVE w \in waited[p]
        BY DEF Waiting
    <2>1. CASE w \in StillWaited(p, ev)
        BY <2>1 DEF StillWaited
    <2>2. CASE w \notin StillWaited(p, ev)
        <3>1. Flips(p, ev) /\ w = Opposite(ev)
            BY <2>2 DEF AfterHearing, AwaitedBy
        <3> QED
            BY <1>1, <3>1, OppositeOf DEF Flips
    <2> QED
        BY <2>1, <2>2
<1>6. \A r : Emit("ACTIVATION", r) = e => r = p
    BY DEF Emit
<1>7. Sends(p) /\ ~Master(p) => Of(p).role = "delay"
    BY ConfOf DEF Typed, Sends, Master, Roles
<1> HIDE DEF A, e, ev
<1>8. b => ~Waiting(A, "PROFILE") /\ (Master(p) => ~started[p])
    BY DEF Starts
<1>9. Sends(p) /\ ~started[p] /\ ~Waiting(A, "PROFILE") => b
    BY <1>7 DEF Starts
<1> HIDE DEF b
<1>10. ASSUME NEW r \in Ids, Emit("ACTIVATION", r) \in InProgress', Emit("ACTIVATION", r) \notin InProgress
       PROVE  r = p /\ b
    BY <1>3, <1>6, <1>10, OpsOf
<1>11. b => e \in InProgress'
    BY <1>3
<1> QED
    BY <1>4, <1>5, <1>8, <1>9, <1>10, <1>11 DEF e, A

\* How a profile comes to announce its activation.
RisesBy(r) ==
    \/ Configure /\ Head(todo) = On("configure", r) /\ Free(r)
    \/ Reset /\ Head(todo) = On("reset", r) /\ Free(r)
    \/ (MasterHears(r) \/ OtherHears(r)) /\ ~Waiting(waited'[r], "PROFILE") /\ (Master(r) => ~started[r])
    \/ Head(todo).op = "walk" /\ r \in ToSet(activeList) /\ ~started[r] /\ ~Waiting(waited[r], "PROFILE")
    \/ ActivateStream(r)

LEMMA RisesOf ==
    ASSUME Typed, AtEnd, [Next]_vars, NEW r \in Ids,
           Emit("ACTIVATION", r) \in InProgress', Emit("ACTIVATION", r) \notin InProgress
    PROVE  RisesBy(r)
<1> DEFINE e == Emit("ACTIVATION", r)
<1>0. /\ e \in InProgress' /\ e \notin InProgress
      /\ e.op = "emit" /\ e.type = "ACTIVATION" /\ \A t, p : e = Emit(t, p) <=> t = "ACTIVATION" /\ p = r
    BY DEF Emit
<1>00. \A x : x.op # "emit" => x # e
    BY <1>0
<1> HIDE DEF e
<1>1. ASSUME NEW D, Makes(D) PROVE e \in D /\ e # Head(todo)
    BY <1>0, <1>1, MakesOf
<1>2. CASE Configure
    <2> DEFINE p == Head(todo).profile
    <2>1. Head(todo) = On("configure", p) /\ Makes(IF Free(p) THEN {Emit("ACTIVATION", p)} ELSE {})
        BY <1>2, ConfigureMakes
    <2>2. e \in IF Free(p) THEN {Emit("ACTIVATION", p)} ELSE {}
        BY <1>1, <2>1
    <2> QED
        BY <1>0, <1>2, <2>1, <2>2 DEF RisesBy
<1>3. CASE Reset
    <2> DEFINE p == Head(todo).profile
    <2>1. Head(todo) = On("reset", p) /\
          Makes({On("reset", c) : c \in CheckersOf(p)} \cup (IF Free(p) THEN {Emit("ACTIVATION", p)} ELSE {}))
        BY <1>3, ResetMakes
    <2>2. e \in {On("reset", c) : c \in CheckersOf(p)} \cup (IF Free(p) THEN {Emit("ACTIVATION", p)} ELSE {})
        BY <1>1, <2>1
    <2>3. e \in IF Free(p) THEN {Emit("ACTIVATION", p)} ELSE {}
        BY <1>00, <2>2, OpsOf
    <2> QED
        BY <1>0, <1>3, <2>1, <2>3 DEF RisesBy
<1>4. ASSUME NEW p \in Ids, MasterHears(p) \/ OtherHears(p) PROVE RisesBy(r)
    <2>1. r = p /\ ~Waiting(waited'[p], "PROFILE") /\ (Master(p) => ~started[p])
        BY <1>0, <1>4, HearingStarts DEF e
    <2> QED
        BY <1>4, <2>1 DEF RisesBy
<1>5. CASE Emission
    <2>1. /\ InProgress = {Head(todo)} \cup Rest
          /\ InProgress' = Rest \/ \E v, U : InProgress' = {Notify(v, U)} \cup Rest
        BY <1>5, EmittingOf
    <2> QED
        BY <1>0, <1>00, <2>1, OpsOf
<1>6. CASE StreamCacheUpdate \/ Delivered \/ AllAsked
    BY <1>1, <1>6, EndsMake DEF Delivered
<1>7. CASE EndWalk \/ CheckerSkipped
    <2>1. CASE EndWalk
        BY <1>00, <1>1, <2>1, EndWalkMakes, OpsOf
    <2>2. CASE CheckerSkipped
        <3>1. PICK n : e \in {Walk(n)}
            BY <1>1, <2>2, CheckerSkippedMakes
        <3> QED
            BY <1>00, <3>1, OpsOf
    <2> QED
        BY <1>7, <2>1, <2>2
<1>8. CASE MasterSends
    <2> DEFINE p == Polled
    <2>1. /\ p \in ToSet(activeList) /\ Head(todo).op = "walk"
          /\ Master(p) /\ Active(p) /\ p \in Ids
        BY <1>8, PollsOf, MasterSendsMakes DEF MasterSends, Master
    <2>2. ~Waiting(waited[p], "PROFILE")
        BY <2>1, ActiveOf
    <2>3. e \in (IF ~started[p] THEN {Emit("ACTIVATION", p)} ELSE {})
                    \cup {Emit("PROFILE_UNLOCKED", p)}
                    \cup (IF CheckersOf(p) = {} THEN {} ELSE {Check("send", CheckersOf(p))})
                    \cup {Head(todo)}
        BY <1>1, <1>8, MasterSendsMakes
    <2> HIDE DEF p
    <2>4. e \in (IF ~started[p] THEN {Emit("ACTIVATION", p)} ELSE {})
        BY <1>0, <1>00, <2>1, <2>3, OpsOf
    <2> QED
        BY <1>0, <2>1, <2>2, <2>4 DEF RisesBy
<1>9. CASE MasterRefused
    <2> DEFINE p == Polled
    <2>1. /\ p \in ToSet(activeList) /\ Head(todo).op = "walk"
          /\ Master(p) /\ Active(p) /\ p \in Ids
        BY <1>9, PollsOf, MasterRefusedMakes DEF MasterRefused, Master
    <2>2. ~Waiting(waited[p], "PROFILE")
        BY <2>1, ActiveOf
    <2>3. PICK n : e \in (IF ~started[p] THEN {Emit("ACTIVATION", p)} ELSE {})
                    \cup {Emit("PROFILE_LOCKED", p)} \cup {Walk(n)}
        BY <1>1, <1>9, MasterRefusedMakes
    <2> HIDE DEF p
    <2>4. e \in (IF ~started[p] THEN {Emit("ACTIVATION", p)} ELSE {})
        BY <1>0, <1>00, <2>1, <2>3, OpsOf
    <2> QED
        BY <1>0, <2>1, <2>2, <2>4 DEF RisesBy
<1>10. CASE MasterIdle
    <2> DEFINE p == Polled
               b == Terminates(p, ot[p])
    <2>1. PICK n : e \in (IF b THEN {Emit("TERMINATION", p)}
                          ELSE IF terminated[p] THEN {} ELSE {Emit("PROFILE_LOCKED", p)}) \cup {Walk(n)}
        BY <1>1, <1>10, MasterIdleMakes
    <2> HIDE DEF p, b
    <2> QED
        BY <1>0, <1>00, <2>1, OpsOf
<1>11. CASE DelaySend
    <2> DEFINE p == Polled
               b == DelayEnds(p)
    <2>1. /\ p \in ToSet(activeList) /\ Head(todo).op = "walk" /\ p \in Ids
        BY <1>11, PollsOf, DelaySendMakes DEF DelaySend
    <2>2. PICK n : e \in (IF DelayBegun(p) /\ ~started[p] THEN {Emit("ACTIVATION", p)} ELSE {})
                       \cup (IF b THEN {Emit("TERMINATION", p)} ELSE {}) \cup {Walk(n)}
        BY <1>1, <1>11, DelaySendMakes
    <2> HIDE DEF p, b
    <2>3. e \in IF DelayBegun(p) /\ ~started[p] THEN {Emit("ACTIVATION", p)} ELSE {}
        BY <1>0, <1>00, <2>2, OpsOf
    <2> QED
        BY <1>0, <2>1, <2>3 DEF RisesBy, DelayBegun
<1>12. ASSUME NEW c \in Ids, CheckerRecords(c) PROVE RisesBy(r)
    <2> DEFINE k == Head(todo).kind
               to == Head(todo).to
               b == waited[c] = {} /\ ~terminated[c]
    <2>1. e \in (IF b THEN {Emit("TERMINATION", c)} ELSE {})
                    \cup (IF to \ {c} = {} THEN {} ELSE {Check(k, to \ {c})})
        BY <1>1, <1>12, CheckerRecordsMakes
    <2> HIDE DEF b
    <2> QED
        BY <1>0, <1>00, <2>1, OpsOf
<1>13. ASSUME NEW s \in Ids, AskStream(s) PROVE RisesBy(r)
    <2>1. e \in {On("reset", p) : p \in ResetNow(s)} \cup {Ask(Head(todo).left \ {s})}
        BY <1>1, <1>13, AskStreamMakes
    <2> QED
        BY <1>00, <2>1, OpsOf
<1>14. CASE Answered
    <2> DEFINE p == Head(todo).profile
               b == Terminates(p, ot[p])
    <2>1. e \in (IF b THEN {Emit("TERMINATION", p)} ELSE {})
                    \cup (IF CheckersOf(p) = {} THEN {} ELSE {Check("receive", CheckersOf(p))})
        BY <1>1, <1>14, AnsweredMakes
    <2> HIDE DEF b
    <2> QED
        BY <1>0, <1>00, <2>1, OpsOf
<1>15. CASE Poll \/ \E p \in Ids : Answer(p)
    <2>1. \E x : todo' = <<x>> /\ x.op # "emit"
        BY <1>15, OpsOf DEF Poll, Answer
    <2>2. PICK x : todo' = <<x>> /\ x.op # "emit"
        BY <2>1
    <2>3. InProgress' = {x}
        <3>1. DOMAIN <<x>> = {1} /\ <<x>>[1] = x
            OBVIOUS
        <3> QED
            BY <2>2, <3>1 DEF InProgress
    <2> QED
        BY <1>0, <1>00, <2>2, <2>3
<1>16. ASSUME NEW p \in Ids, ActivateStream(p) PROVE RisesBy(r)
    <2>1. todo' = <<Emit("ACTIVATION", p)>>
        BY <1>16 DEF ActivateStream
    <2>2. InProgress' = {Emit("ACTIVATION", p)}
        <3> DEFINE x == Emit("ACTIVATION", p)
        <3> HIDE DEF x
        <3>1. DOMAIN <<x>> = {1} /\ <<x>>[1] = x
            OBVIOUS
        <3> QED
            BY <2>1, <3>1 DEF InProgress, x
    <2>3. p = r
        BY <1>0, <2>2
    <2> QED
        BY <1>16, <2>3 DEF RisesBy
<1>17. CASE UNCHANGED vars \/ \E p \in Ids : Discard(p)
    <2>1. todo' = todo
        BY <1>17 DEF vars, Discard
    <2> QED
        BY <1>0, <2>1 DEF InProgress
<1> QED
    BY <1>2, <1>3, <1>4, <1>5, <1>6, <1>7, <1>8, <1>9, <1>10, <1>11, <1>12, <1>13, <1>14, <1>15, <1>16, <1>17
    DEF Next, Step

LEMMA PresentGrows ==
    ASSUME Typed, [Next]_vars
    PROVE  /\ Present \subseteq Present' /\ conf' = conf
           /\ \A p \in Ids : Of(p)' = Of(p) /\ Partners(p)' = Partners(p) /\ Sends(p)' = Sends(p)
<1>1. conf' = conf
    BY StepsAre
<1>2. CASE Configure
    <2> DEFINE p == Head(todo).profile
    <2>1. Makes(IF Free(p) THEN {Emit("ACTIVATION", p)} ELSE {})
        BY <1>2, ConfigureMakes
    <2>2. \A x \in IF Free(p) THEN {Emit("ACTIVATION", p)} ELSE {} : x.op # "configure"
        BY ConcernedOf
    <2>3. Present \subseteq Present'
        BY <1>1, <2>1, <2>2, PresentStays
    <2> QED
        BY <1>1, <2>3 DEF Of, Partners, Sends
<1>3. CASE ~Configure
    BY <1>1, <1>3, PresentNext DEF Of, Partners, Sends
<1> QED
    BY <1>2, <1>3

\* A profile that is yet to be configured has announced nothing.
Unheard == \A p \in Ids \ Present : emitted[p]["PROFILE"].type = "NONE"

LEMMA UnheardNext ==
    ASSUME Typed, Known, Unheard, [Next]_vars
    PROVE  Unheard'
<1> SUFFICES ASSUME NEW p \in Ids, p \notin Present' PROVE emitted'[p]["PROFILE"].type = "NONE"
    BY DEF Unheard
<1>1. p \notin Present /\ emitted[p]["PROFILE"].type = "NONE"
    BY PresentGrows DEF Unheard
<1>2. CASE Emission
    <2> DEFINE r == Head(todo).profile
               type == Head(todo).type
    <2>1. /\ r \in Ids /\ type \in Types /\ Head(todo) = Emit(type, r) /\ Head(todo) \in InProgress
          /\ MayEmit(type, r) =>
                emitted' = [emitted EXCEPT ![r][Category(type)] =
                        [type |-> type, time |-> IF Category(type) = "PROFILE" THEN 0 ELSE time]]
          /\ ~MayEmit(type, r) => emitted' = emitted
        BY <1>2, EmittingOf
    <2>2. r \in Present
        BY <2>1, ConcernedOf DEF Known
    <2>3. CASE ~MayEmit(type, r)
        BY <1>1, <2>1, <2>3
    <2>4. CASE MayEmit(type, r)
        <3>1. "PROFILE" \in Categories /\ Category(type) \in Categories
            BY <2>1, CategoryOf DEF Categories
        <3>2. emitted'[p]["PROFILE"] = emitted[p]["PROFILE"]
            BY <1>1, <2>1, <2>2, <2>4, <3>1, EmittedNow
        <3> QED
            BY <1>1, <3>2
    <2> QED
        BY <2>3, <2>4
<1>3. CASE Reset
    <2>1. emitted' = [emitted EXCEPT ![Head(todo).profile] = [c \in Categories |-> NoneSent]]
        BY <1>3 DEF Reset
    <2>2. emitted'[p] = emitted[p] \/ emitted'[p] = [c \in Categories |-> NoneSent]
        BY <2>1 DEF Typed
    <2> QED
        BY <1>1, <2>2 DEF Categories, NoneSent
<1>4. CASE Configure
    BY <1>1, <1>4 DEF Configure
<1>5. CASE (\E h \in Ids : MasterHears(h) \/ OtherHears(h)) \/ Aside
    <2>1. emitted' = emitted
        BY <1>5, HearingOf DEF Aside
    <2> QED
        BY <1>1, <2>1
<1> QED
    BY <1>2, <1>3, <1>4, <1>5, NextIs

\* Who awaits an activation is polled from the start.
Waiters == \A p \in Present :
    (\E w \in Of(p).waits : w.type = "ACTIVATION") => p \in ToSet(activeList)

LEMMA WaitersNext ==
    ASSUME Typed, Orderly, Known, Waiters, [Next]_vars
    PROVE  Waiters'
<1> SUFFICES ASSUME NEW p \in Ids, p \in Present', \E w \in Of(p)'.waits : w.type = "ACTIVATION"
             PROVE  p \in ToSet(activeList')
    BY DEF Waiters, Present
<1>1. \E w \in Of(p).waits : w.type = "ACTIVATION"
    BY PresentGrows
<1>2. CASE p \in Present
    BY <1>1, <1>2, ListGrows DEF Waiters
<1>3. CASE p \notin Present
    <2>1. Configure
        BY <1>3, PresentNext
    <2>2. p = Head(todo).profile
        BY <1>3, <2>1, ConfiguringOf
    <2>3. activeList' = activeList \o Listed(Of(p).waits, p)
        BY <2>1, <2>2 DEF Configure
    <2>4. Of(p).waits \in SUBSET Events
        BY ConfOf DEF Typed
    <2> QED
        BY <1>1, <2>3, <2>4, ListedOf, IdsAssumption DEF Typed
<1> QED
    BY <1>2, <1>3

\* A master or a delay that awaits terminations has not begun while it does.
Unbegun == \A p \in Ids :
    Sends(p) /\ Waiting(waited[p], "PROFILE") /\ Partners(p) # {} =>
        /\ ~started[p] /\ emitted[p]["PROFILE"].type # "ACTIVATION"
        /\ Emit("ACTIVATION", p) \notin InProgress

\* An activation is announced once it has been in progress, and forgotten by a reset.
LEMMA ActivatedNext ==
    ASSUME Typed, [Next]_vars, NEW p \in Ids,
           emitted'[p]["PROFILE"].type = "ACTIVATION"
    PROVE  \/ emitted[p]["PROFILE"].type = "ACTIVATION"
           \/ Emission /\ Head(todo) = Emit("ACTIVATION", p) /\ Emit("ACTIVATION", p) \in InProgress
              /\ MayEmit("ACTIVATION", p)
<1>2. CASE Emission
    <2> DEFINE r == Head(todo).profile
               type == Head(todo).type
               e == [type |-> type, time |-> IF Category(type) = "PROFILE" THEN 0 ELSE time]
    <2>1. /\ r \in Ids /\ type \in Types /\ Head(todo) = Emit(type, r) /\ Head(todo) \in InProgress
          /\ MayEmit(type, r) => emitted' = [emitted EXCEPT ![r][Category(type)] = e]
          /\ ~MayEmit(type, r) => emitted' = emitted
        BY <1>2, EmittingOf
    <2>2. e.type = type
        OBVIOUS
    <2>3. CASE ~MayEmit(type, r)
        BY <2>1, <2>3
    <2>4. CASE MayEmit(type, r)
        <3>0. emitted' = [emitted EXCEPT ![r][Category(type)] = e]
            BY <2>1, <2>4
        <3> HIDE DEF e, r, type
        <3>1. "PROFILE" \in Categories /\ Category(type) \in Categories
            BY <2>1, CategoryOf DEF Categories
        <3>2. /\ emitted'[r][Category(type)] = e
              /\ \A q \in Ids, d \in Categories : q # r \/ d # Category(type) => emitted'[q][d] = emitted[q][d]
            <4> DEFINE c == Category(type)
            <4>1. r \in Ids /\ c \in Categories /\ emitted' = [emitted EXCEPT ![r][c] = e]
                BY <2>1, <3>0, <3>1
            <4> HIDE DEF c
            <4>2. /\ emitted'[r][c] = e
                  /\ \A q \in Ids, d \in Categories : q # r \/ d # c => emitted'[q][d] = emitted[q][d]
                <5>1. emitted \in [Ids -> [Categories -> [type : Types \cup {"NONE"}, time : Nat]]]
                    BY DEF Typed
                <5>2. emitted'[r] = [emitted[r] EXCEPT ![c] = e] /\ \A q \in Ids \ {r} : emitted'[q] = emitted[q]
                    BY <4>1, <5>1
                <5>3. DOMAIN emitted[r] = Categories
                    BY <4>1, <5>1
                <5> QED
                    BY <4>1, <5>2, <5>3
            <4> QED
                BY <4>2 DEF c
        <3>3. CASE p = r /\ Category(type) = "PROFILE"
            <4>1. type = "ACTIVATION"
                BY <2>2, <3>2, <3>3
            <4> QED
                BY <1>2, <2>1, <2>4, <3>3, <4>1
        <3>4. CASE ~(p = r /\ Category(type) = "PROFILE")
            BY <3>1, <3>2, <3>4
        <3> QED
            BY <3>3, <3>4
    <2> QED
        BY <2>3, <2>4
<1>3. CASE Reset
    <2>1. emitted' = [emitted EXCEPT ![Head(todo).profile] = [c \in Categories |-> NoneSent]]
        BY <1>3 DEF Reset
    <2>2. emitted'[p] = emitted[p] \/ emitted'[p] = [c \in Categories |-> NoneSent]
        BY <2>1 DEF Typed
    <2> QED
        BY <2>2 DEF Categories, NoneSent
<1>4. CASE Configure
    BY <1>4 DEF Configure
<1>5. CASE (\E h \in Ids : MasterHears(h) \/ OtherHears(h)) \/ Aside
    <2>1. emitted' = emitted
        BY <1>5, HearingOf DEF Aside
    <2> QED
        BY <2>1
<1> QED
    BY <1>2, <1>3, <1>4, <1>5, NextIs

LEMMA UnbegunNext ==
    ASSUME Rooted, Typed, Orderly, Known, AtEnd, Unheard, Unbegun, [Next]_vars
    PROVE  Unbegun'
<1> SUFFICES ASSUME NEW p \in Ids, Sends(p)', Waiting(waited'[p], "PROFILE"), Partners(p)' # {}
             PROVE  /\ ~started'[p] /\ emitted'[p]["PROFILE"].type # "ACTIVATION"
                    /\ Emit("ACTIVATION", p) \notin InProgress'
    BY DEF Unbegun
<1>0. Sends(p) /\ Partners(p) # {} /\ ~Free(p)
    BY PresentGrows, FreeAlone
<1>1. CASE Waiting(waited[p], "PROFILE")
    <2>1. /\ ~started[p] /\ emitted[p]["PROFILE"].type # "ACTIVATION"
          /\ Emit("ACTIVATION", p) \notin InProgress
        BY <1>0, <1>1 DEF Unbegun
    <2>2. ~started'[p]
        BY <1>0, <2>1, StartedNext
    <2>3. emitted'[p]["PROFILE"].type # "ACTIVATION"
        BY <2>1, ActivatedNext
    <2>4. ~RisesBy(p)
        <3>1. ~ActivateStream(p)
            <4> SUFFICES ASSUME ActivateStream(p) PROVE FALSE
                OBVIOUS
            <4>1. p \in conf.roots /\ conf \in Configs
                BY DEF ActivateStream, Typed
            <4> QED
                BY <1>0, <4>1 DEF Rooted, Partners, Of
        <3> QED
            BY <1>0, <1>1, <3>1 DEF RisesBy
    <2>5. Emit("ACTIVATION", p) \notin InProgress'
        BY <2>1, <2>4, RisesOf
    <2> QED
        BY <2>2, <2>3, <2>5
<1>2. CASE Configure /\ ~Waiting(waited[p], "PROFILE")
    <2> DEFINE r == Head(todo).profile
    <2>1. /\ r \in Ids \ Present /\ Head(todo) = On("configure", r)
          /\ InProgress = {Head(todo)} \cup Rest
          /\ InProgress' = (IF Free(r) THEN {Emit("ACTIVATION", r)} ELSE {}) \cup Rest
        BY <1>2, ConfiguringOf
    <2>2. /\ waited' = [waited EXCEPT ![r] = Of(r).waits] /\ emitted' = emitted
          /\ started' = [started EXCEPT ![r] = Free(r) /\ Of(r).role = "master"]
        BY <1>2 DEF Configure, Free
    <2>3. p = r
        BY <1>2, <2>1, <2>2 DEF Typed
    <2>4. emitted[p]["PROFILE"].type = "NONE"
        BY <2>1, <2>3 DEF Unheard
    <2>5. Emit("ACTIVATION", p) \notin InProgress
        BY <2>1, <2>3, ConcernedOf DEF Known
    <2>6. ~started'[p]
        BY <1>0, <2>2, <2>3 DEF Typed
    <2> QED
        BY <1>0, <2>1, <2>2, <2>3, <2>4, <2>5, <2>6
<1>3. CASE Reset /\ ~Waiting(waited[p], "PROFILE")
    <2> DEFINE r == Head(todo).profile
    <2>1. /\ r \in Ids /\ Head(todo) = On("reset", r) /\ Head(todo).op = "reset"
          /\ Makes({On("reset", c) : c \in CheckersOf(r)}
                   \cup (IF Free(r) THEN {Emit("ACTIVATION", r)} ELSE {}))
        BY <1>3, ResetMakes
    <2>2. /\ waited' = [waited EXCEPT ![r] = Of(r).waits]
          /\ emitted' = [emitted EXCEPT ![r] = [c \in Categories |-> NoneSent]]
          /\ started' = [started EXCEPT ![r] = Of(r).role = "master" /\ Free(r)]
        BY <1>3 DEF Reset, Free, RetainedWaits
    <2>3. p = r
        BY <1>3, <2>1, <2>2 DEF Typed
    <2>4. emitted'[p]["PROFILE"].type # "ACTIVATION"
        BY <2>2, <2>3 DEF Typed, Categories, NoneSent
    <2>5. ~started'[p]
        BY <1>0, <2>2, <2>3 DEF Typed
    <2>6. Emit("ACTIVATION", p) \notin Rest
        <3> SUFFICES ASSUME Emit("ACTIVATION", p) \in Rest PROVE FALSE
            OBVIOUS
        <3>1. todo # <<>>
            BY <2>1 DEF Makes
        <3>2. FitsOver(Head(todo), Emit("ACTIVATION", p))
            BY <3>1, StackedOf DEF Orderly
        <3>3. FreeStart(Emit("ACTIVATION", p))
            BY <2>1, <3>2, OpsOf DEF FitsOver, Resets
        <3> QED
            BY <1>0, <3>3 DEF FreeStart, Emit
    <2>7. InProgress' = {On("reset", c) : c \in CheckersOf(r)} \cup Rest
        BY <1>0, <2>1, <2>3, MakesOf
    <2> QED
        BY <2>4, <2>5, <2>6, <2>7, OpsOf
<1>4. CASE ~Waiting(waited[p], "PROFILE") /\ ~Configure /\ ~Reset
    <2>1. CASE \E h \in Ids : MasterHears(h) \/ OtherHears(h)
        BY <1>4, <2>1, HearingStarts
    <2>2. CASE Emission
        BY <1>4, <2>2, EmittingOf
    <2>3. CASE Aside
        BY <1>4, <2>3 DEF Aside
    <2> QED
        BY <1>4, <2>1, <2>2, <2>3, NextIs
<1> QED
    BY <1>1, <1>2, <1>3, <1>4

\* An announcement of an activation that will be heard.
Rising(p) == Emit("ACTIVATION", p) \in InProgress /\ emitted[p]["PROFILE"].type # "ACTIVATION"

\* A master or a delay is polled, or awaits others, or is about to be polled.
Joining == \A p \in Present : Sends(p) =>
    p \in ToSet(activeList) \/ Waiting(waited[p], "PROFILE") \/ Rising(p)

LEMMA RisingMay ==
    ASSUME NEW p \in Ids
    PROVE  MayEmit("ACTIVATION", p) <=> emitted[p]["PROFILE"].type # "ACTIVATION"
BY DEF MayEmit, Category

\* Such an announcement is made when its turn comes, and its profile polled then.
LEMMA RisingNext ==
    ASSUME Typed, [Next]_vars, NEW p \in Ids, Rising(p)
    PROVE  Rising(p)' \/ (Emission /\ activeList' = Append(activeList, p) /\ p \in ToSet(activeList'))
<1>0. Emit("ACTIVATION", p) \in InProgress /\ emitted[p]["PROFILE"].type # "ACTIVATION"
    BY DEF Rising
<1>1. CASE ~Emission
    <2>1. Emit("ACTIVATION", p) \in InProgress'
        BY <1>0, <1>1, EmitsStay, OpsOf
    <2>2. emitted'[p]["PROFILE"].type # "ACTIVATION"
        BY <1>0, <1>1, ActivatedNext
    <2> QED
        BY <2>1, <2>2 DEF Rising
<1>2. CASE Emission
    <2> DEFINE r == Head(todo).profile
               type == Head(todo).type
    <2>1. /\ r \in Ids /\ type \in Types /\ Head(todo) = Emit(type, r)
          /\ InProgress = {Head(todo)} \cup Rest /\ Rest \subseteq InProgress'
          /\ MayEmit(type, r) => activeList' = IF type = "ACTIVATION" THEN Append(activeList, r) ELSE activeList
        BY <1>2, EmittingOf
    <2>2. CASE Head(todo) = Emit("ACTIVATION", p)
        <3>1. r = p /\ type = "ACTIVATION"
            BY <2>2 DEF Emit
        <3>2. activeList' = Append(activeList, p)
            BY <1>0, <2>1, <3>1, RisingMay
        <3> QED
            BY <1>2, <3>2, AppendOf DEF Typed
    <2>3. CASE Head(todo) # Emit("ACTIVATION", p)
        <3>1. Emit("ACTIVATION", p) \in InProgress'
            BY <1>0, <2>1, <2>3
        <3>2. emitted'[p]["PROFILE"].type # "ACTIVATION"
            BY <1>0, <2>3, ActivatedNext
        <3> QED
            BY <3>1, <3>2 DEF Rising
    <2> QED
        BY <2>2, <2>3
<1> QED
    BY <1>1, <1>2

LEMMA JoiningNext ==
    ASSUME Typed, Orderly, Known, AsConfigured, Unheard, Waiters, Unbegun, Joining, [Next]_vars
    PROVE  Joining'
<1> SUFFICES ASSUME NEW p \in Ids, p \in Present', Sends(p)', ~Waiting(waited'[p], "PROFILE"),
                    p \notin ToSet(activeList')
             PROVE  Rising(p)'
    BY DEF Joining, Present
<1>0. Sends(p)
    BY PresentGrows
<1>1. CASE Configure /\ p \notin Present
    <2>1. /\ p = Head(todo).profile
          /\ InProgress' = (IF Free(p) THEN {Emit("ACTIVATION", p)} ELSE {}) \cup Rest
        BY <1>1, ConfiguringOf
    <2>2. waited' = [waited EXCEPT ![p] = Of(p).waits] /\ emitted' = emitted
        BY <1>1, <2>1 DEF Configure
    <2>3. Free(p)
        BY <1>0, <2>2 DEF Free, Sends, Typed
    <2>4. emitted[p]["PROFILE"].type = "NONE"
        BY <1>1 DEF Unheard
    <2> QED
        BY <2>1, <2>2, <2>3, <2>4 DEF Rising
<1>2. CASE p \in Present
    <2>1. p \notin ToSet(activeList)
        BY ListGrows
    <2>2. CASE Rising(p)
        BY <2>2, RisingNext
    <2>3. CASE Waiting(waited[p], "PROFILE")
        <3>1. CASE Configure
            <4>1. p # Head(todo).profile
                BY <1>2, <3>1, ConfiguringOf
            <4>2. waited'[p] = waited[p]
                BY <3>1, <4>1 DEF Configure, Typed
            <4> QED
                BY <2>3, <4>2
        <3>2. CASE Reset
            <4> DEFINE r == Head(todo).profile
            <4>1. /\ r \in Ids
                  /\ Makes({On("reset", c) : c \in CheckersOf(r)}
                           \cup (IF Free(r) THEN {Emit("ACTIVATION", r)} ELSE {}))
                BY <3>2, ResetMakes
            <4>2. /\ waited' = [waited EXCEPT ![r] = Of(r).waits]
                  /\ emitted' = [emitted EXCEPT ![r] = [c \in Categories |-> NoneSent]]
                BY <3>2 DEF Reset, RetainedWaits
            <4>3. p = r
                BY <2>3, <4>1, <4>2 DEF Typed
            <4>4. emitted'[p]["PROFILE"].type # "ACTIVATION"
                BY <4>2, <4>3 DEF Typed, Categories, NoneSent
            <4>5. Free(r)
                BY <1>0, <4>2, <4>3 DEF Free, Sends, Typed
            <4>6. Emit("ACTIVATION", p) \in InProgress'
                BY <4>1, <4>3, <4>5, MakesOf
            <4> QED
                BY <4>4, <4>6 DEF Rising
        <3>3. CASE Emission
            BY <2>3, <3>3, EmittingOf
        <3>4. CASE Aside
            BY <2>3, <3>4 DEF Aside
        <3>5. ASSUME NEW h \in Ids, MasterHears(h) \/ OtherHears(h) PROVE Rising(p)'
            <4>1. h = p
                BY <2>3, <3>5, HearingStarts
            <4>2. ~\E w \in Of(p).waits : w.type = "ACTIVATION"
                BY <1>2, <2>1 DEF Waiters
            <4>3. PICK w \in waited[p] : Category(w.type) = "PROFILE"
                BY <2>3 DEF Waiting
            <4>4. w \in Events
                BY <4>3 DEF Typed
            <4>5. w \in Of(p).waits
                BY <4>3 DEF AsConfigured, Category
            <4>6. w.type = "TERMINATION"
                BY <4>2, <4>3, <4>4, <4>5, CategoryOf DEF Events
            <4>7. w = Event("TERMINATION", w.id) /\ w.id \in Ids
                BY <4>4, <4>6 DEF Event, Events
            <4>8. Partners(p) # {}
                BY <4>5, <4>7 DEF Partners
            <4>9. ~started[p] /\ emitted[p]["PROFILE"].type # "ACTIVATION"
                BY <1>0, <2>3, <4>8 DEF Unbegun
            <4>10. Emit("ACTIVATION", p) \in InProgress'
                BY <1>0, <3>5, <4>1, <4>9, HearingStarts
            <4>11. emitted' = emitted
                BY <3>5, HearingOf
            <4> QED
                BY <4>9, <4>10, <4>11 DEF Rising
        <3> QED
            BY <3>1, <3>2, <3>3, <3>4, <3>5, NextIs
    <2> QED
        BY <1>0, <1>2, <2>1, <2>2, <2>3 DEF Joining
<1> QED
    BY <1>1, <1>2, PresentNext

\* How the list grows.
GrowsBy(r) ==
    /\ Len(activeList) <= Len(activeList')
    /\ \A i \in 1..Len(activeList) : activeList'[i] = activeList[i]
    /\ \A i \in 1..Len(activeList') : i > Len(activeList) => activeList'[i] = r
    /\ \/ Configure /\ r = Head(todo).profile /\ \E w \in Of(r).waits : w.type = "ACTIVATION"
       \/ Reset /\ r = Head(todo).profile /\ \E w \in Of(r).waits : w.type = "ACTIVATION"
       \/ /\ Emission /\ Head(todo) = Emit("ACTIVATION", r) /\ MayEmit("ACTIVATION", r)
          /\ r \in ToSet(activeList')

LEMMA Repeated ==
    ASSUME NEW S, NEW r \in S, NEW n \in Nat
    PROVE  [i \in 1..n |-> r] \in Seq(S) /\ Len([i \in 1..n |-> r]) = n
<1> DEFINE f == [i \in 1..n |-> r]
<1>1. f \in [1..n -> S]
    OBVIOUS
<1>2. f \in Seq(S)
    BY <1>1, SeqDef
<1>3. DOMAIN f = 1..n
    OBVIOUS
<1> HIDE DEF f
<1>4. Len(f) = n
    BY <1>2, <1>3, LenProperties
<1> QED
    BY <1>2, <1>4 DEF f

LEMMA RunTogether ==
    ASSUME NEW S, NEW s \in Seq(S), NEW t \in Seq(S)
    PROVE  /\ Len(s \o t) = Len(s) + Len(t)
           /\ \A i \in 1..Len(s \o t) :
                 (s \o t)[i] = IF i <= Len(s) THEN s[i] ELSE t[i - Len(s)]
BY ConcatProperties

LEMMA ListedMore ==
    ASSUME IsFiniteSet(Ids), activeList \in Seq(Ids), NEW waits \in SUBSET Events, NEW r \in Ids,
           activeList' = activeList \o Listed(waits, r)
    PROVE  \/ activeList' = activeList
           \/ /\ \E w \in waits : w.type = "ACTIVATION"
              /\ Len(activeList) <= Len(activeList')
              /\ \A i \in 1..Len(activeList) : activeList'[i] = activeList[i]
              /\ \A i \in 1..Len(activeList') : i > Len(activeList) => activeList'[i] = r
<1> DEFINE A == {w \in waits : w.type = "ACTIVATION"}
           more == Listed(waits, r)
<1>1. IsFiniteSet(A) /\ Cardinality(A) \in Nat
    <2> DEFINE h == [p \in Ids |-> Event("ACTIVATION", p)]
    <2>1. IsFiniteSet({Event("ACTIVATION", p) : p \in Ids})
        <3>1. h \in Surjection(Ids, {Event("ACTIVATION", p) : p \in Ids})
            BY DEF Surjection
        <3> QED
            BY <3>1, FS_Surjection
    <2>2. A \subseteq {Event("ACTIVATION", p) : p \in Ids}
        BY DEF Events, Event
    <2> QED
        BY <2>1, <2>2, FS_Subset, FS_CardinalityType
<1>2. more = [i \in 1..Cardinality(A) |-> r] /\ more \in Seq(Ids) /\ Len(more) = Cardinality(A)
    BY <1>1, Repeated DEF Listed
<1>3. CASE A = {}
    <2>1. Cardinality(A) = 0
        BY <1>3, FS_EmptySet
    <2>2. more = <<>>
        BY <1>2, <2>1
    <2>3. activeList' = activeList
        BY <2>2
    <2> QED
        BY <2>3
<1>4. CASE A # {}
    <2> HIDE DEF more
    <2>1. activeList' = activeList \o more
        BY DEF more
    <2>2. \A i \in 1..Len(more) : more[i] = r
        BY <1>2
    <2>3. Len(more) \in Nat /\ Len(activeList) \in Nat
        BY <1>1, <1>2
    <2>4. /\ Len(activeList') = Len(activeList) + Len(more)
          /\ \A i \in 1..Len(activeList') :
                activeList'[i] = IF i <= Len(activeList) THEN activeList[i] ELSE more[i - Len(activeList)]
        <3> DEFINE u == activeList \o more
        <3>1. /\ Len(u) = Len(activeList) + Len(more)
              /\ \A i \in 1..Len(u) :
                    u[i] = IF i <= Len(activeList) THEN activeList[i] ELSE more[i - Len(activeList)]
            BY <1>2, RunTogether
        <3>2. activeList' = u
            BY <2>1
        <3> HIDE DEF u
        <3> QED
            BY <3>1, <3>2
    <2>5. Len(activeList) <= Len(activeList')
        BY <2>3, <2>4
    <2>6. \A i \in 1..Len(activeList) : activeList'[i] = activeList[i]
        BY <2>3, <2>4
    <2>7. ASSUME NEW i \in 1..Len(activeList'), i > Len(activeList) PROVE activeList'[i] = r
        <3>1. ~(i <= Len(activeList)) /\ i - Len(activeList) \in 1..Len(more)
            BY <2>3, <2>4, <2>7
        <3> QED
            BY <2>2, <2>4, <2>7, <3>1
    <2> QED
        BY <1>4, <2>5, <2>6, <2>7
<1> QED
    BY <1>3, <1>4

LEMMA ListNext ==
    ASSUME Typed, [Next]_vars
    PROVE  activeList' = activeList \/ \E r \in Ids : GrowsBy(r)
<1>0. activeList \in Seq(Ids) /\ IsFiniteSet(Ids) /\ Len(activeList) \in Nat
    BY IdsAssumption DEF Typed
<1>1. CASE Configure \/ Reset
    <2> DEFINE r == Head(todo).profile
    <2>1. r \in Ids /\ Of(r).waits \in SUBSET Events
        BY <1>1, ConfigureMakes, ResetMakes, ConfOf DEF Typed
    <2>2. activeList' = activeList \o Listed(Of(r).waits, r)
        BY <1>1 DEF Configure, Reset, RetainedWaits
    <2> HIDE DEF r
    <2>3. CASE activeList' # activeList
        <3>1. /\ \E w \in Of(r).waits : w.type = "ACTIVATION"
              /\ Len(activeList) <= Len(activeList')
              /\ \A i \in 1..Len(activeList) : activeList'[i] = activeList[i]
              /\ \A i \in 1..Len(activeList') : i > Len(activeList) => activeList'[i] = r
            BY <1>0, <2>1, <2>2, <2>3, ListedMore
        <3> QED
            BY <1>1, <2>1, <3>1 DEF GrowsBy, r
    <2> QED
        BY <2>3
<1>2. CASE Emission
    <2> DEFINE r == Head(todo).profile
               type == Head(todo).type
    <2>1. /\ r \in Ids /\ type \in Types /\ Head(todo) = Emit(type, r)
          /\ MayEmit(type, r) => activeList' = IF type = "ACTIVATION" THEN Append(activeList, r) ELSE activeList
          /\ ~MayEmit(type, r) => activeList' = activeList
        BY <1>2, EmittingOf
    <2> HIDE DEF r, type
    <2>2. CASE activeList' # activeList
        <3>1. MayEmit(type, r) /\ type = "ACTIVATION" /\ activeList' = Append(activeList, r)
            BY <2>1, <2>2
        <3>2. /\ Len(activeList') = Len(activeList) + 1
              /\ \A i \in 1..Len(activeList) : activeList'[i] = activeList[i]
              /\ activeList'[Len(activeList) + 1] = r
            BY <1>0, <2>1, <3>1
        <3>3. Len(activeList) <= Len(activeList')
            BY <1>0, <3>2
        <3>4. ASSUME NEW i \in 1..Len(activeList'), i > Len(activeList) PROVE activeList'[i] = r
            <4>1. i = Len(activeList) + 1
                BY <1>0, <3>2, <3>4
            <4> QED
                BY <3>2, <4>1
        <3>5. r \in ToSet(activeList')
            BY <1>0, <2>1, <3>1, AppendOf
        <3> QED
            BY <1>2, <2>1, <3>1, <3>2, <3>3, <3>4, <3>5 DEF GrowsBy
    <2> QED
        BY <2>2
<1>3. CASE (\E h \in Ids : MasterHears(h) \/ OtherHears(h)) \/ Aside
    BY <1>3, HearingOf DEF Aside
<1> QED
    BY <1>1, <1>2, <1>3, NextIs

-----------------------------------------------------------------------------
(* A partner is polled before those that stop with it. *)

\* A profile has started for good, but for a reset.
LEMMA StartedStays ==
    ASSUME Typed, [Next]_vars, ~Reset, NEW q \in Ids, Head(todo) # On("configure", q), started[q]
    PROVE  started'[q]
<1>1. CASE Configure
    <2>1. Head(todo) = On("configure", Head(todo).profile)
        BY <1>1, ConfigureMakes
    <2>2. q # Head(todo).profile
        BY <2>1
    <2> QED
        BY <1>1, <2>2 DEF Configure, Typed
<1>2. CASE StreamCacheUpdate \/ EndWalk \/ AllAsked \/ Answered \/ Poll \/ CheckerSkipped \/ MasterIdle
    BY <1>2 DEF StreamCacheUpdate, EndWalk, AllAsked, Answered, Poll, CheckerSkipped, MasterIdle, profileVars
<1>3. CASE Emission \/ Delivered
    BY <1>3 DEF Emission, Delivered, profileVars
<1>4. ASSUME NEW p \in Ids, MasterHears(p) PROVE started'[q]
    BY <1>4 DEF MasterHears, Typed
<1>5. ASSUME NEW p \in Ids, OtherHears(p) \/ CheckerRecords(p) \/ AskStream(p) \/ Answer(p) \/ Discard(p)
      PROVE started'[q]
    BY <1>5 DEF OtherHears, CheckerRecords, AskStream, Answer, Discard, profileVars
<1>6. ASSUME NEW p \in Ids, ActivateStream(p) PROVE started'[q]
    BY <1>6 DEF ActivateStream, Typed
<1>7. CASE MasterSends \/ MasterRefused
    BY <1>7 DEF MasterSends, MasterRefused, Activated, Typed
<1>8. CASE DelaySend
    <2>1. \E b \in BOOLEAN : started' = [started EXCEPT ![Polled] = started[Polled] \/ b]
        BY <1>8 DEF DelaySend
    <2> QED
        BY <2>1 DEF Typed
<1>9. CASE UNCHANGED vars
    BY <1>9 DEF vars, profileVars
<1> QED
    BY <1>1, <1>2, <1>3, <1>4, <1>5, <1>6, <1>7, <1>8, <1>9 DEF Next, Step

\* A partner that others stop with.
LEMMA PartnerOf ==
    ASSUME StopsWithOne, PartnerAhead, Typed, AsConfigured, Again,
           NEW p \in Ids, NEW q \in Ids, StopsWith(p, q)
    PROVE  /\ Master(p) /\ Master(q) /\ Of(q).waits = {} /\ waited[q] = {} /\ p # q
           /\ Precedes(conf, q, p) /\ ~Reset /\ ~conf.autoReset
           /\ Free(q) /\ q \notin conf.roots /\ ~Waiting(waited[q], "PROFILE")
           /\ Sends(p) /\ Sends(q)
<1>1. conf \in Configs
    BY DEF Typed
<1>2. Master(p) /\ ~conf.autoReset
    BY <1>1, StopsOf
<1>3. Master(q) /\ Of(q).waits = {} /\ Precedes(conf, q, p)
    BY <1>1 DEF PartnerAhead, StopsWith, Of, Master
<1>4. p # q
    BY <1>3 DEF StopsWith
<1>5. waited[q] = {}
    BY <1>3 DEF AsConfigured, StopsWith
<1>6. ~Reset
    <2> SUFFICES ASSUME Reset PROVE FALSE
        OBVIOUS
    <2> DEFINE r == Head(todo).profile
    <2>1. r \in Ids /\ Head(todo) = On("reset", r) /\ Head(todo) \in InProgress
        BY ResetMakes, MakesOf
    <2> QED
        BY <1>2, <2>1 DEF Again, Resetting
<1>7. q \notin conf.roots
    BY <1>1, <1>3, RootOf
<1> QED
    BY <1>2, <1>3, <1>4, <1>5, <1>6, <1>7 DEF Free, Waiting, Master, Sends

\* A described profile is described once.
LEMMA PrecedesOnce ==
    ASSUME conf \in Configs, NEW p \in Ids, NEW q \in Ids, Precedes(conf, p, q)
    PROVE  ~Precedes(conf, q, p) /\ Described(p) /\ Described(q)
<1>0. conf.files \in Seq(Seq(Ids))
    BY ConfOf
<1>1. PICK f \in DOMAIN conf.files, g \in DOMAIN conf.files :
         \E i \in DOMAIN conf.files[f], j \in DOMAIN conf.files[g] :
            conf.files[f][i] = p /\ conf.files[g][j] = q /\ (f < g \/ (f = g /\ i < j))
    BY DEF Precedes
<1>2. PICK i \in DOMAIN conf.files[f], j \in DOMAIN conf.files[g] :
            conf.files[f][i] = p /\ conf.files[g][j] = q /\ (f < g \/ (f = g /\ i < j))
    BY <1>1
<1>3. Described(p) /\ Described(q)
    BY <1>0, <1>2 DEF Described, ToSet
<1>4. ASSUME Precedes(conf, q, p) PROVE FALSE
    <2>1. PICK ff \in DOMAIN conf.files, gg \in DOMAIN conf.files :
             \E ii \in DOMAIN conf.files[ff], jj \in DOMAIN conf.files[gg] :
                conf.files[ff][ii] = q /\ conf.files[gg][jj] = p /\ (ff < gg \/ (ff = gg /\ ii < jj))
        BY <1>4 DEF Precedes
    <2>2. PICK ii \in DOMAIN conf.files[ff], jj \in DOMAIN conf.files[gg] :
                conf.files[ff][ii] = q /\ conf.files[gg][jj] = p /\ (ff < gg \/ (ff = gg /\ ii < jj))
        BY <2>1
    <2>3. ff = g /\ ii = j
        BY <1>2, <2>2, ConfigsAssumption
    <2>4. gg = f /\ jj = i
        BY <1>2, <2>2, ConfigsAssumption
    <2>5. f \in Nat /\ g \in Nat /\ conf.files[f] \in Seq(Ids) /\ conf.files[g] \in Seq(Ids)
        <3> DEFINE F == conf.files
        <3>1. F \in Seq(Seq(Ids)) /\ f \in DOMAIN F /\ g \in DOMAIN F
            BY <1>0, <1>1
        <3> HIDE DEF F
        <3>2. f \in Nat /\ g \in Nat /\ F[f] \in Seq(Ids) /\ F[g] \in Seq(Ids)
            BY <3>1, LenProperties
        <3> QED
            BY <3>2 DEF F
    <2>6. i \in Nat /\ j \in Nat
        BY <2>5
    <2> QED
        BY <1>2, <2>2, <2>3, <2>4, <2>5, <2>6
<1> QED
    BY <1>3, <1>4

\* A partner is polled, and polled before, whenever the one it stops is there.
Leads(p, q) ==
    /\ p \in Present => q \in ToSet(activeList)
    /\ \A i, j \in DOMAIN activeList : activeList[i] = q /\ activeList[j] = p => i < j
    /\ Rising(q) => q \notin ToSet(activeList)
    /\ q \in Present => started[q]
Leading == \A p, q \in Ids : StopsWith(p, q) => Leads(p, q)

LEMMA LeadsStarted ==
    ASSUME StopsWithOne, PartnerAhead, Typed, Orderly, Known, AsConfigured, Again,
           NEW p \in Ids, NEW q \in Ids, StopsWith(p, q), Leads(p, q), [Next]_vars
    PROVE  q \in Present' => started'[q]
<1>0. /\ ~Reset /\ Master(q) /\ Free(q)
    BY PartnerOf
<1>1. CASE q \in Present
    <2>1. started[q]
        BY <1>1 DEF Leads
    <2>2. CASE Head(todo) # On("configure", q)
        BY <1>0, <2>1, <2>2, StartedStays
    <2>3. CASE Head(todo) = On("configure", q) /\ Configure
        <3>1. Head(todo).profile = q
            BY <2>3 DEF On
        <3> QED
            BY <1>1, <2>3, <3>1, ConfiguringOf
    <2>4. CASE ~Configure /\ Head(todo) = On("configure", q)
        <3>1. CASE Quiet
            <4>1. Head(todo) # On("configure", q) \/ todo = <<>>
                BY <3>1 DEF Quiet
            <4>2. ~Step
                <5> SUFFICES ASSUME Step PROVE FALSE
                    OBVIOUS
                <5> QED
                    BY <3>1, CallsNext DEF Quiet
            <4>3. Poll \/ UNCHANGED vars \/ \E r \in Ids : Answer(r) \/ Discard(r) \/ ActivateStream(r)
                BY <4>2 DEF Next
            <4>4. started' = started \/ \E r \in Ids : started' = [started EXCEPT ![r] = TRUE]
                BY <4>3 DEF Poll, vars, Answer, Discard, ActivateStream, profileVars
            <4> QED
                BY <2>1, <4>4 DEF Typed
        <3>2. CASE ~Quiet
            <4>1. Head(todo) \in InProgress
                <5>1. todo \in Seq(Calls) /\ todo # <<>>
                    BY <3>2 DEF Quiet, Typed
                <5>2. Head(todo) \in ToSet(todo)
                    BY <5>1, TailOf
                <5> QED
                    BY <5>2 DEF InProgress, ToSet
            <4> QED
                BY <1>1, <2>4, <4>1 DEF Present, Configured
        <3> QED
            BY <3>1, <3>2
    <2> QED
        BY <2>2, <2>3, <2>4
<1>2. CASE q \notin Present /\ q \in Present'
    <2>1. Configure
        BY <1>2, PresentNext
    <2>2. q = Head(todo).profile
        BY <1>2, <2>1, ConfiguringOf
    <2> QED
        BY <1>0, <2>1, <2>2 DEF Configure, Master, Free, Typed
<1> QED
    BY <1>1, <1>2

LEMMA LeadsListed ==
    ASSUME StopsWithOne, PartnerAhead, Typed, Orderly, Known, AsConfigured, Again, Joining,
           NEW p \in Ids, NEW q \in Ids, StopsWith(p, q), Leads(p, q), [Next]_vars, p \in Present'
    PROVE  q \in ToSet(activeList')
<1>1. CASE p \in Present
    BY <1>1, ListGrows DEF Leads
<1>2. CASE p \notin Present
    <2>0. /\ Precedes(conf, q, p) /\ conf \in Configs /\ p # q /\ Sends(q)
          /\ ~Waiting(waited[q], "PROFILE")
        BY PartnerOf DEF Typed
    <2>1. Configure
        BY <1>2, PresentNext
    <2>2. /\ p = Head(todo).profile /\ Head(todo) = On("configure", p)
          /\ InProgress = {Head(todo)} \cup Rest
          /\ \A c \in Rest : Load(c) /\ FitsOver(Head(todo), c)
        BY <1>2, <2>1, ConfiguringOf
    <2>3. q \in Present
        <3> SUFFICES ASSUME q \notin Present PROVE FALSE
            OBVIOUS
        <3>1. On("configure", q) \in InProgress
            BY <2>0, PrecedesOnce DEF Present, Configured, Described
        <3>2. On("configure", q) # Head(todo)
            BY <2>0, <2>2 DEF On
        <3>3. FitsOver(Head(todo), On("configure", q))
            BY <2>2, <3>1, <3>2
        <3>4. Precedes(conf, p, q)
            BY <2>2, <3>3 DEF FitsOver, On
        <3> QED
            BY <2>0, <3>4, PrecedesOnce
    <2>4. ~Rising(q)
        <3>1. \A c \in InProgress : c.op \in {"configure", "cache"}
            BY <2>2, OpsOf DEF Load
        <3> QED
            BY <3>1, OpsOf DEF Rising
    <2>5. q \in ToSet(activeList)
        BY <2>0, <2>3, <2>4 DEF Joining
    <2> QED
        BY <2>5, ListGrows
<1> QED
    BY <1>1, <1>2

LEMMA LeadsInOrder ==
    ASSUME StopsWithOne, PartnerAhead, Typed, Known, AsConfigured, Again,
           NEW p \in Ids, NEW q \in Ids, StopsWith(p, q), Leads(p, q), [Next]_vars,
           NEW i \in DOMAIN activeList', NEW j \in DOMAIN activeList',
           activeList'[i] = q, activeList'[j] = p
    PROVE  i < j
<1>0. p # q /\ Of(q).waits = {}
    BY PartnerOf
<1>1. CASE activeList' = activeList
    BY <1>1 DEF Leads
<1>2. ASSUME NEW r \in Ids, GrowsBy(r) PROVE i < j
    <2>0. /\ DOMAIN activeList = 1..Len(activeList) /\ Len(activeList) \in Nat
          /\ DOMAIN activeList' = 1..Len(activeList') /\ Len(activeList') \in Nat
          /\ Len(activeList) <= Len(activeList')
        <3>1. activeList \in Seq(Ids)
            BY DEF Typed
        <3>2. activeList' \in Seq(Ids)
            BY TypedNext DEF Typed
        <3>3. Len(activeList) <= Len(activeList')
            BY <1>2 DEF GrowsBy
        <3> QED
            BY <3>1, <3>2, <3>3
    <2>1. CASE i <= Len(activeList) /\ j <= Len(activeList)
        <3>1. i \in DOMAIN activeList /\ j \in DOMAIN activeList
            BY <2>0, <2>1
        <3>2. activeList[i] = q /\ activeList[j] = p
            BY <1>2, <2>0, <3>1 DEF GrowsBy
        <3> QED
            BY <3>1, <3>2 DEF Leads
    <2>2. CASE i <= Len(activeList) /\ j > Len(activeList)
        BY <2>0, <2>2
    <2>3. CASE i > Len(activeList)
        <3>1. r = q
            BY <1>2, <2>0, <2>3 DEF GrowsBy
        <3>2. Emission /\ Head(todo) = Emit("ACTIVATION", q) /\ MayEmit("ACTIVATION", q)
            BY <1>0, <1>2, <3>1 DEF GrowsBy
        <3>3. Rising(q)
            <4>1. Emit("ACTIVATION", q) \in InProgress
                BY <3>2, EmittingOf
            <4> QED
                BY <3>2, <4>1, RisingMay DEF Rising
        <3>4. p \notin Present
            BY <3>3 DEF Leads
        <3>5. p \notin ToSet(activeList)
            BY <3>4 DEF Known
        <3>6. CASE j <= Len(activeList)
            <4>1. j \in DOMAIN activeList /\ activeList[j] = p
                BY <1>2, <2>0, <3>6 DEF GrowsBy
            <4> QED
                BY <3>5, <4>1 DEF ToSet
        <3>7. CASE j > Len(activeList)
            <4>1. p = r
                BY <1>2, <2>0, <3>7 DEF GrowsBy
            <4> QED
                BY <1>0, <3>1, <4>1
        <3> QED
            BY <2>0, <3>6, <3>7
    <2> QED
        BY <2>0, <2>1, <2>2, <2>3
<1> QED
    BY <1>1, <1>2, ListNext

LEMMA LeadsRising ==
    ASSUME StopsWithOne, PartnerAhead, Typed, Orderly, Known, AtEnd, AsConfigured, Again,
           NEW p \in Ids, NEW q \in Ids, StopsWith(p, q), Leads(p, q), [Next]_vars, Rising(q)'
    PROVE  q \notin ToSet(activeList')
<1>0. /\ ~Reset /\ Of(q).waits = {} /\ q \notin conf.roots /\ Master(q)
    BY PartnerOf
<1>1. Emit("ACTIVATION", q) \in InProgress' /\ emitted'[q]["PROFILE"].type # "ACTIVATION"
    BY DEF Rising
<1>2. CASE Rising(q)
    <2>1. q \notin ToSet(activeList)
        BY <1>2 DEF Leads
    <2>2. CASE activeList' = activeList
        BY <2>1, <2>2
    <2>3. ASSUME NEW r \in Ids, GrowsBy(r), q \in ToSet(activeList') PROVE FALSE
        <3>0. /\ DOMAIN activeList = 1..Len(activeList) /\ Len(activeList) \in Nat
              /\ DOMAIN activeList' = 1..Len(activeList') /\ Len(activeList') \in Nat
              /\ Len(activeList) <= Len(activeList')
            <4>1. activeList \in Seq(Ids)
                BY DEF Typed
            <4>2. activeList' \in Seq(Ids)
                BY TypedNext DEF Typed
            <4>3. Len(activeList) <= Len(activeList')
                BY <2>3 DEF GrowsBy
            <4> QED
                BY <4>1, <4>2, <4>3
        <3>1. PICK i \in DOMAIN activeList' : activeList'[i] = q
            BY <2>3 DEF ToSet
        <3>2. ~(i <= Len(activeList))
            <4> SUFFICES ASSUME i <= Len(activeList) PROVE FALSE
                OBVIOUS
            <4>1. i \in DOMAIN activeList /\ activeList[i] = q
                BY <2>3, <3>0, <3>1 DEF GrowsBy
            <4> QED
                BY <2>1, <4>1 DEF ToSet
        <3>3. r = q
            BY <2>3, <3>0, <3>1, <3>2 DEF GrowsBy
        <3>4. Emission /\ Head(todo) = Emit("ACTIVATION", q) /\ MayEmit("ACTIVATION", q)
            BY <1>0, <2>3, <3>3 DEF GrowsBy
        <3>5. /\ emitted' = [emitted EXCEPT ![q]["PROFILE"] = [type |-> "ACTIVATION", time |-> 0]]
            <4>1. Head(todo).profile = q /\ Head(todo).type = "ACTIVATION" /\ Category("ACTIVATION") = "PROFILE"
                BY <3>4 DEF Emit, Category
            <4> QED
                BY <3>4, <4>1, EmittingOf
        <3>6. emitted'[q]["PROFILE"].type = "ACTIVATION"
            BY <3>5 DEF Typed, Categories
        <3> QED
            BY <1>1, <3>6
    <2> QED
        BY <2>2, <2>3, ListNext
<1>3. CASE Emit("ACTIVATION", q) \in InProgress /\ ~Rising(q)
    <2>1. emitted[q]["PROFILE"].type = "ACTIVATION"
        BY <1>3 DEF Rising
    <2>2. emitted'[q]["PROFILE"] # emitted[q]["PROFILE"]
        BY <1>1, <2>1
    <2>3. Emission
        <3>1. CASE Configure
            BY <2>2, <3>1 DEF Configure
        <3>2. CASE (\E h \in Ids : MasterHears(h) \/ OtherHears(h)) \/ Aside
            BY <2>2, <3>2, HearingOf DEF Aside
        <3> QED
            BY <1>0, <3>1, <3>2, NextIs
    <2> DEFINE r == Head(todo).profile
               type == Head(todo).type
    <2>4. /\ r \in Ids /\ type \in Types /\ Head(todo) = Emit(type, r) /\ todo # <<>>
          /\ InProgress = {Head(todo)} \cup Rest
          /\ MayEmit(type, r) =>
                 /\ emitted' = [emitted EXCEPT ![r][Category(type)] =
                        [type |-> type, time |-> IF Category(type) = "PROFILE" THEN 0 ELSE time]]
                 /\ InProgress' = {Notify(Event(type, r), Listeners(Event(type, r)))} \cup Rest
          /\ ~MayEmit(type, r) => emitted' = emitted
        BY <2>3, EmittingOf
    <2>5. MayEmit(type, r)
        BY <2>2, <2>4
    <2>6. Emit("ACTIVATION", q) \in Rest
        BY <1>1, <2>4, <2>5, OpsOf
    <2>7. FitsOver(Head(todo), Emit("ACTIVATION", q))
        BY <2>4, <2>6, StackedOf DEF Orderly
    <2>8. type = "ACTIVATION"
        <3>1. Head(todo).op = "emit" /\ Emit("ACTIVATION", q).op = "emit"
            BY <2>4, OpsOf
        <3> QED
            BY <2>7, <3>1 DEF FitsOver, Speaks
    <2>9. r = q
        <3> DEFINE e == [type |-> type, time |-> IF Category(type) = "PROFILE" THEN 0 ELSE time]
        <3>0. emitted' = [emitted EXCEPT ![r][Category(type)] = e]
            BY <2>4, <2>5
        <3>1. Category(type) \in Categories /\ "PROFILE" \in Categories
            BY <2>4, CategoryOf DEF Categories
        <3> HIDE DEF e, r, type
        <3>2. \A x \in Ids, d \in Categories : x # r \/ d # Category(type) => emitted'[x][d] = emitted[x][d]
            BY <2>4, <3>0, <3>1, EmittedNow
        <3> QED
            BY <2>2, <3>1, <3>2
    <2>10. FALSE
        <3>1. ~MayEmit("ACTIVATION", q)
            BY <2>1, RisingMay
        <3> QED
            BY <2>5, <2>8, <2>9, <3>1
    <2> QED
        BY <2>10
<1>4. CASE Emit("ACTIVATION", q) \notin InProgress
    <2>1. RisesBy(q)
        BY <1>1, <1>4, RisesOf
    <2>2. CASE Configure /\ Head(todo) = On("configure", q)
        <3>1. Head(todo).profile = q
            BY <2>2 DEF On
        <3>2. q \notin Present
            BY <2>2, <3>1, ConfiguringOf
        <3>3. q \notin ToSet(activeList)
            BY <3>2 DEF Known
        <3>4. ~\E r \in Ids : GrowsBy(r)
            <4>1. ~Emission /\ ~Reset
                BY <1>0, <2>2, <3>1, EmittingOf, OpsOf
            <4> QED
                BY <1>0, <3>1, <4>1 DEF GrowsBy
        <3> QED
            BY <3>3, <3>4, ListNext
    <2>3. CASE (MasterHears(q) \/ OtherHears(q)) /\ ~started[q]
        <3>1. Head(todo).op = "notify" /\ Head(todo) \in InProgress /\ q \in Head(todo).to
            BY <2>3, HearsOf
        <3>2. q \in Present
            BY <3>1 DEF Known, Concerned
        <3> QED
            BY <2>3, <3>2 DEF Leads
    <2>4. CASE q \in ToSet(activeList) /\ ~started[q]
        <3>1. q \in Present
            BY <2>4 DEF Known
        <3> QED
            BY <2>4, <3>1 DEF Leads
    <2>5. CASE ActivateStream(q)
        BY <1>0, <2>5 DEF ActivateStream
    <2> QED
        BY <1>0, <2>1, <2>2, <2>3, <2>4, <2>5 DEF RisesBy
<1> QED
    BY <1>2, <1>3, <1>4

LEMMA LeadingNext ==
    ASSUME StopsWithOne, PartnerAhead, Typed, Orderly, Known, AtEnd, AsConfigured, Again, Joining,
           Leading, [Next]_vars
    PROVE  Leading'
<1> SUFFICES ASSUME NEW p \in Ids, NEW q \in Ids, StopsWith(p, q)' PROVE Leads(p, q)'
    BY DEF Leading
<1>1. StopsWith(p, q) /\ Leads(p, q)
    BY PresentGrows DEF Leading, StopsWith
<1>2. p \in Present' => q \in ToSet(activeList')
    BY <1>1, LeadsListed
<1>3. \A i, j \in DOMAIN activeList' : activeList'[i] = q /\ activeList'[j] = p => i < j
    BY <1>1, LeadsInOrder
<1>4. Rising(q)' => q \notin ToSet(activeList')
    BY <1>1, LeadsRising
<1>5. q \in Present' => started'[q]
    BY <1>1, LeadsStarted
<1> QED
    BY <1>2, <1>3, <1>4, <1>5 DEF Leads

-----------------------------------------------------------------------------
(* The walk of the active list, and the update that is scheduled after it. *)

Walking == \E c \in InProgress : c.op = "walk"

\* When an update is scheduled, and when the scheduled one is made.
LEMMA DueNext ==
    ASSUME Typed, [Next]_vars
    PROVE  \/ EndWalk
           \/ Step /\ ~EndWalk /\ due' = due
           \/ Poll /\ due' = Never /\ InProgress = {} /\ InProgress' = {Walk(1)} /\ nextTimes' = {}
              /\ UNCHANGED <<conf, activeList, waited, emitted, terminated, started, halted, ot>>
           \/ due' # Never /\ InProgress = {} /\ \E x : InProgress' = {x} /\ x.op \in {"answered", "emit"}
           \/ UNCHANGED <<due, todo, nextTimes, locked, conf, activeList, waited, emitted, terminated,
                          started, halted, ot>>
<1>0. \A x : todo' = <<x>> => InProgress' = {x}
    <2> TAKE x
    <2>1. DOMAIN <<x>> = {1} /\ <<x>>[1] = x
        OBVIOUS
    <2> QED
        BY <2>1 DEF InProgress
<1>00. Quiet => InProgress = {}
    <2>1. DOMAIN <<>> = {}
        OBVIOUS
    <2> QED
        BY <2>1 DEF Quiet, InProgress
<1>1. CASE Configure \/ StreamCacheUpdate \/ Emission \/ Delivered \/ MasterSends \/ MasterRefused
           \/ MasterIdle \/ DelaySend \/ CheckerSkipped \/ AllAsked \/ Reset \/ Answered
    <2>1. due' = due
        BY <1>1 DEF Configure, StreamCacheUpdate, Emission, Delivered, MasterSends, MasterRefused, MasterIdle,
           DelaySend, CheckerSkipped, AllAsked, Reset, Answered, poll
    <2> QED
        BY <1>1, <2>1 DEF Step
<1>2. ASSUME NEW p \in Ids, MasterHears(p) \/ OtherHears(p) \/ CheckerRecords(p) \/ AskStream(p)
      PROVE  Step /\ due' = due
    BY <1>2 DEF Step, MasterHears, OtherHears, CheckerRecords, AskStream, poll
<1>3. CASE Poll
    BY <1>0, <1>00, <1>3 DEF Poll, busVars, profileVars
<1>4. ASSUME NEW p \in Ids, Answer(p) \/ ActivateStream(p)
      PROVE  due' # Never /\ InProgress = {} /\ \E x : InProgress' = {x} /\ x.op \in {"answered", "emit"}
    <2>1. PICK t \in Instants : due' = t
        BY <1>4 DEF Answer, ActivateStream
    <2>2. due' # Never
        BY <2>1, InstantsOf DEF Never
    <2>3. \E x : todo' = <<x>> /\ x.op \in {"answered", "emit"}
        BY <1>4, OpsOf DEF Answer, ActivateStream
    <2>4. Quiet
        BY <1>4 DEF Answer, ActivateStream
    <2> QED
        BY <1>0, <1>00, <2>2, <2>3, <2>4
<1>5. ASSUME UNCHANGED vars \/ \E p \in Ids : Discard(p)
      PROVE  UNCHANGED <<due, todo, nextTimes, locked, conf, activeList, waited, emitted, terminated,
                         started, halted, ot>>
    BY <1>5 DEF vars, Discard, busVars, profileVars, poll
<1> HIDE DEF Never
<1>6. CASE ~EndWalk /\ Step
    BY <1>1, <1>2, <1>6 DEF Step
<1>7. CASE ~Step
    BY <1>3, <1>4, <1>5, <1>7 DEF Next
<1> QED
    BY <1>6, <1>7

\* One step of the walk.
LEMMA WalkingOf ==
    ASSUME Typed, Orderly, Step, Head(todo).op = "walk"
    PROVE  LET at == Head(todo).at IN
           /\ UNCHANGED <<conf, activeList, waited, emitted, waitEventMap>>
           /\ InProgress = {Head(todo)} /\ Head(todo) \in InProgress /\ at \in Nat \ {0} /\ Head(todo) = Walk(at)
           /\ \/ EndWalk /\ at > Len(activeList) /\ InProgress' = {Ask(activeStreams)}
              \/ /\ at <= Len(activeList) /\ ~EndWalk /\ Polled \in Ids
                 /\ \E n : /\ n = at \/ (n = at + 1 /\ (MasterRefused \/ MasterIdle \/ DelaySend \/ CheckerSkipped))
                           /\ Walk(n) \in InProgress' /\ \A x \in InProgress' : x.op = "walk" => x = Walk(n)
<1> DEFINE at == Head(todo).at
<1>1. MasterSends \/ MasterRefused \/ MasterIdle \/ DelaySend \/ CheckerSkipped \/ EndWalk
    <2>1. todo # <<>> => ~Running("configure") /\ ~Running("cache") /\ ~Running("emit") /\ ~Running("notify")
                         /\ ~Running("check") /\ ~Running("streams") /\ ~Running("reset") /\ ~Running("answered")
        BY DEF Running
    <2>2. todo # <<>>
        BY CallsNext
    <2> QED
        BY <2>1, <2>2 DEF Step, Configure, StreamCacheUpdate, Emission, EmitEvent, Delivered, AllHeard,
           MasterHears, OtherHears, Hears, CheckerRecords, AskStream, AllAsked, Reset, Answered
<1>2. UNCHANGED <<conf, activeList, waited, emitted, waitEventMap>>
    BY <1>1, AsideWalk
<1>3. /\ InProgress = {Head(todo)} /\ Head(todo) \in InProgress /\ todo # <<>>
      /\ \A D : Makes(D) => InProgress' = D
    <2>1. todo # <<>> /\ Head(todo) \in InProgress
        BY CallsNext
    <2> QED
        BY <2>1, WalksAlone
<1>4. CASE EndWalk
    <2>1. at > Len(activeList)
        BY <1>4 DEF EndWalk
    <2>2. InProgress' = {Ask(activeStreams)}
        BY <1>3, <1>4, EndWalkMakes
    <2>3. Head(todo) \in Calls
        BY <1>3, RunningOf DEF Running, Typed
    <2>4. at \in Nat \ {0} /\ Head(todo) = Walk(at)
        BY <2>3, CallsAre DEF Calls, Walk, Cache
    <2> QED
        BY <1>2, <1>3, <1>4, <2>1, <2>2, <2>4
<1>5. CASE ~EndWalk
    <2>1. PICK role : Polls(role)
        BY <1>1, <1>5 DEF MasterSends, MasterRefused, MasterIdle, DelaySend, CheckerSkipped
    <2>2. at \in Nat \ {0} /\ Head(todo) = Walk(at) /\ Polled \in Ids
        BY <2>1, PollsOf
    <2>3. at <= Len(activeList)
        BY <2>1 DEF Polls
    <2>4. \E n : /\ n = at \/ (n = at + 1 /\ (MasterRefused \/ MasterIdle \/ DelaySend \/ CheckerSkipped))
                 /\ \E D : Makes(D) /\ Walk(n) \in D /\ \A x \in D : x.op = "walk" => x = Walk(n)
        <3> DEFINE p == Polled
                   b1 == Terminates(p, ot[p])
                   b2 == DelayBegun(p) /\ ~started[p]
                   b3 == DelayEnds(p)
                   C == CheckersOf(p)
        <3>1. CASE MasterSends
            <4> DEFINE D == (IF ~started[p] THEN {Emit("ACTIVATION", p)} ELSE {})
                    \cup {Emit("PROFILE_UNLOCKED", p)}
                    \cup (IF C = {} THEN {} ELSE {Check("send", C)})
                    \cup {Head(todo)}
            <4>1. Makes(D)
                BY <3>1, MasterSendsMakes
            <4> HIDE DEF p, C
            <4>2. Walk(at) \in D /\ \A x \in D : x.op = "walk" => x = Walk(at)
                BY <2>2, OpsOf
            <4> HIDE DEF D
            <4> QED
                BY <3>1, <4>1, <4>2
        <3>2. CASE MasterRefused
            <4>1. PICK n : n = at + 1 /\ Makes((IF ~started[p] THEN {Emit("ACTIVATION", p)} ELSE {})
                       \cup {Emit("PROFILE_LOCKED", p)} \cup {Walk(n)})
                BY <3>2, MasterRefusedMakes
            <4> DEFINE D == (IF ~started[p] THEN {Emit("ACTIVATION", p)} ELSE {})
                       \cup {Emit("PROFILE_LOCKED", p)} \cup {Walk(n)}
            <4> HIDE DEF p
            <4>2. Walk(n) \in D /\ \A x \in D : x.op = "walk" => x = Walk(n)
                BY OpsOf
            <4>3. Makes(D)
                BY <4>1
            <4> HIDE DEF D
            <4> QED
                BY <3>2, <4>1, <4>2, <4>3
        <3>3. CASE MasterIdle
            <4>1. PICK n : n = at + 1 /\ Makes((IF b1 THEN {Emit("TERMINATION", p)}
                        ELSE IF terminated[p] THEN {} ELSE {Emit("PROFILE_LOCKED", p)}) \cup {Walk(n)})
                BY <3>3, MasterIdleMakes
            <4> DEFINE D == (IF b1 THEN {Emit("TERMINATION", p)}
                        ELSE IF terminated[p] THEN {} ELSE {Emit("PROFILE_LOCKED", p)}) \cup {Walk(n)}
            <4> HIDE DEF p, b1
            <4>2. Walk(n) \in D /\ \A x \in D : x.op = "walk" => x = Walk(n)
                BY OpsOf
            <4>3. Makes(D)
                BY <4>1
            <4> HIDE DEF D
            <4> QED
                BY <3>3, <4>1, <4>2, <4>3
        <3>4. CASE DelaySend
            <4>1. PICK n : n = at + 1 /\ Makes((IF b2 THEN {Emit("ACTIVATION", p)} ELSE {})
                       \cup (IF b3 THEN {Emit("TERMINATION", p)} ELSE {}) \cup {Walk(n)})
                BY <3>4, DelaySendMakes
            <4> DEFINE D == (IF b2 THEN {Emit("ACTIVATION", p)} ELSE {})
                       \cup (IF b3 THEN {Emit("TERMINATION", p)} ELSE {}) \cup {Walk(n)}
            <4> HIDE DEF p, b2, b3
            <4>2. Walk(n) \in D /\ \A x \in D : x.op = "walk" => x = Walk(n)
                BY OpsOf
            <4>3. Makes(D)
                BY <4>1
            <4> HIDE DEF D
            <4> QED
                BY <3>4, <4>1, <4>2, <4>3
        <3>5. CASE CheckerSkipped
            <4>1. PICK n : n = at + 1 /\ Makes({Walk(n)})
                BY <3>5, CheckerSkippedMakes
            <4> QED
                BY <3>5, <4>1
        <3> QED
            BY <1>1, <1>5, <3>1, <3>2, <3>3, <3>4, <3>5
    <2>5. \E n : /\ n = at \/ (n = at + 1 /\ (MasterRefused \/ MasterIdle \/ DelaySend \/ CheckerSkipped))
                 /\ Walk(n) \in InProgress' /\ \A x \in InProgress' : x.op = "walk" => x = Walk(n)
        BY <1>3, <2>4
    <2> QED
        BY <1>2, <1>3, <1>5, <2>2, <2>3, <2>5
<1> QED
    BY <1>4, <1>5

\* The walk goes on until its end, and another is not begun meanwhile.
LEMMA WalkingNext ==
    ASSUME Typed, Orderly, Step, ~EndWalk
    PROVE  /\ Walking' <=> Walking
           /\ Head(todo).op # "walk" => \A c \in InProgress : c.op = "walk" => c \in InProgress'
<1>1. Head(todo).op # "walk" => \A c \in InProgress : c.op = "walk" => c \in InProgress'
    BY CallsNext
<1>2. CASE Head(todo).op = "walk"
    <2>1. PICK n : Walk(n) \in InProgress'
        BY <1>2, WalkingOf
    <2>2. Walk(n).op = "walk" /\ Head(todo) \in InProgress
        BY CallsNext, OpsOf
    <2> QED
        BY <1>2, <2>1, <2>2 DEF Walking
<1>3. CASE Head(todo).op # "walk"
    <2>1. Walking => Walking'
        BY <1>1, <1>3 DEF Walking
    <2>2. Walking' => Walking
        BY <1>3, CallsNext DEF Walking, Caused
    <2> QED
        BY <1>1, <2>1, <2>2
<1> QED
    BY <1>1, <1>2, <1>3

\* Without an update scheduled, all calls are those of a walk, or ask streams.
Calling ==
    /\ due = Never =>
         \A x \in InProgress : /\ x.op \notin {"configure", "cache", "answered"}
                               /\ x.op \in {"emit", "notify", "check"} => Walking
    /\ Walking => due = Never

LEMMA CallingNext ==
    ASSUME Typed, Orderly, Again, Calling, [Next]_vars
    PROVE  Calling'
<1>1. CASE EndWalk
    <2>1. InProgress' = {Ask(activeStreams)}
        BY <1>1, WalkingOf DEF Step, EndWalk, Running
    <2> QED
        BY <2>1, OpsOf DEF Calling, Walking
<1>2. CASE Step /\ ~EndWalk /\ due' = due
    <2>1. Walking' <=> Walking
        BY <1>2, WalkingNext
    <2>2. ASSUME due' = Never, NEW x \in InProgress'
          PROVE  /\ x.op \notin {"configure", "cache", "answered"}
                 /\ x.op \in {"emit", "notify", "check"} => Walking
        <3>1. due = Never
            BY <1>2, <2>2
        <3>2. CASE x \in Rest
            <4>1. x \in InProgress
                BY <1>2, <3>2, CallsNext
            <4> QED
                BY <3>1, <4>1 DEF Calling
        <3>3. CASE Caused(x)
            <4>1. x.op \notin {"configure", "cache", "answered"}
                BY <3>3 DEF Caused
            <4>2. ASSUME x.op \in {"emit", "notify", "check"} PROVE Walking
                <5>1. Head(todo) \in InProgress /\ todo # <<>>
                    BY <1>2, CallsNext
                <5>2. Head(todo) \in Calls
                    BY <5>1, RunningOf DEF Running, Typed
                <5>3. Head(todo).op \notin {"configure", "cache", "answered", "streams"}
                    BY <3>1, <3>3, <4>2, <5>1 DEF Calling, Caused
                <5>4. Head(todo).op # "reset"
                    <6> SUFFICES ASSUME Head(todo).op = "reset" PROVE FALSE
                        OBVIOUS
                    <6>1. Free(Head(todo).profile)
                        BY <3>3, <4>2 DEF Caused
                    <6>2. Head(todo).profile \in Ids /\ Head(todo) = On("reset", Head(todo).profile)
                        BY <5>2, CallsAre
                    <6> QED
                        BY <5>1, <6>1, <6>2 DEF Again, Resetting
                <5>5. Head(todo).op \in {"emit", "notify", "check", "walk"}
                    BY <5>2, <5>3, <5>4, CallsAre
                <5> QED
                    BY <3>1, <5>1, <5>5 DEF Calling, Walking
            <4> QED
                BY <4>1, <4>2
        <3> QED
            BY <1>2, <3>2, <3>3, CallsNext
    <2>3. Walking' => due' = Never
        BY <1>2, <2>1 DEF Calling
    <2> QED
        BY <2>1, <2>2, <2>3 DEF Calling
<1>3. CASE InProgress' = {Walk(1)} /\ due' = Never
    BY <1>3, OpsOf DEF Calling
<1>4. CASE due' # Never /\ \E x : InProgress' = {x} /\ x.op \in {"answered", "emit"}
    BY <1>4 DEF Calling, Walking
<1>5. CASE UNCHANGED <<due, todo>>
    BY <1>5 DEF Calling, Walking, InProgress
<1> QED
    BY <1>1, <1>2, <1>3, <1>4, <1>5, DueNext

LEMMA LenGrows ==
    ASSUME Typed, [Next]_vars
    PROVE  /\ Len(activeList) \in Nat /\ Len(activeList') \in Nat /\ Len(activeList) <= Len(activeList')
           /\ DOMAIN activeList = 1..Len(activeList) /\ DOMAIN activeList' = 1..Len(activeList')
           /\ \A i \in 1..Len(activeList) : activeList'[i] = activeList[i]
<1>1. activeList \in Seq(Ids) /\ activeList' \in Seq(Ids)
    <2>1. activeList \in Seq(Ids)
        BY DEF Typed
    <2>2. activeList' \in Seq(Ids)
        BY TypedNext DEF Typed
    <2> QED
        BY <2>1, <2>2
<1>2. Len(activeList) \in Nat /\ Len(activeList') \in Nat
    BY <1>1
<1>3. DOMAIN activeList = 1..Len(activeList) /\ DOMAIN activeList' = 1..Len(activeList')
    BY <1>1
<1>4. CASE activeList' = activeList
    BY <1>2, <1>3, <1>4
<1>5. ASSUME NEW r \in Ids, GrowsBy(r)
      PROVE  /\ Len(activeList) <= Len(activeList')
             /\ \A i \in 1..Len(activeList) : activeList'[i] = activeList[i]
    BY <1>5 DEF GrowsBy
<1> QED
    BY <1>2, <1>3, <1>4, <1>5, ListNext

\* The walk is at the end at most.
Within == \A x \in InProgress : x.op = "walk" => x.at <= Len(activeList) + 1

LEMMA WithinNext ==
    ASSUME Typed, Orderly, Within, [Next]_vars
    PROVE  Within'
<1>0. Len(activeList) \in Nat /\ Len(activeList') \in Nat /\ Len(activeList) <= Len(activeList')
    BY LenGrows
<1>1. CASE EndWalk
    <2>1. InProgress' = {Ask(activeStreams)}
        BY <1>1, WalkingOf DEF Step, EndWalk, Running
    <2> QED
        BY <2>1, OpsOf DEF Within
<1>2. CASE Step /\ ~EndWalk
    <2> SUFFICES ASSUME NEW x \in InProgress', x.op = "walk" PROVE x.at <= Len(activeList') + 1
        BY DEF Within
    <2>1. CASE Head(todo).op = "walk"
        <3> DEFINE at == Head(todo).at
        <3>1. /\ at <= Len(activeList) /\ at \in Nat
              /\ \E n : /\ n = at \/ n = at + 1
                        /\ x = Walk(n)
            BY <1>2, <2>1, WalkingOf
        <3>2. x.at = at \/ x.at = at + 1
            BY <3>1 DEF Walk
        <3> HIDE DEF at
        <3>3. x.at <= Len(activeList) + 1
            BY <1>0, <3>1, <3>2
        <3>4. x.at \in Nat
            BY <3>1, <3>2
        <3> QED
            BY <1>0, <3>3, <3>4
    <2>2. CASE Head(todo).op # "walk"
        <3>1. x \in InProgress
            BY <1>2, <2>2, CallsNext DEF Caused
        <3>2. x.at <= Len(activeList) + 1
            BY <3>1 DEF Within
        <3>3. x \in Calls
            BY <3>1 DEF InProgress, Typed
        <3>4. x.at \in Nat
            BY <3>3, CallsAre
        <3> QED
            BY <1>0, <3>2, <3>4
    <2> QED
        BY <2>1, <2>2
<1>3. CASE InProgress' = {Walk(1)}
    BY <1>0, <1>3 DEF Within, Walk
<1>4. CASE \E x : InProgress' = {x} /\ x.op \in {"answered", "emit"}
    BY <1>4 DEF Within
<1>5. CASE UNCHANGED <<activeList, todo>>
    BY <1>5 DEF Within, InProgress
<1> QED
    BY <1>1, <1>2, <1>3, <1>4, <1>5, DueNext

\* Without an update scheduled, and the walk at its end, no time was collected.
Collected == due = Never => nextTimes = {} \/ Walking

LEMMA CollectedNext ==
    ASSUME Typed, Orderly, Collected, [Next]_vars
    PROVE  Collected'
<1>1. CASE EndWalk
    <2>1. due' = (IF nextTimes = {} THEN Never ELSE Min(nextTimes)) /\ nextTimes' = nextTimes
        BY <1>1 DEF EndWalk
    <2>2. nextTimes # {} => Min(nextTimes) \in Nat
        BY MinOf DEF Typed
    <2> QED
        BY <2>1, <2>2 DEF Collected, Never
<1>2. CASE Step /\ ~EndWalk /\ due' = due
    <2>1. Walking' <=> Walking
        BY <1>2, WalkingNext
    <2>2. CASE MasterRefused \/ DelaySend
        <3>1. Head(todo).op = "walk" /\ Head(todo) \in InProgress
            BY <1>2, <2>2, CallsNext DEF MasterRefused, DelaySend, Polls, Running
        <3> QED
            BY <2>1, <3>1 DEF Collected, Walking
    <2>3. CASE ~MasterRefused /\ ~DelaySend
        <3>1. nextTimes' = nextTimes
            BY <1>2, <2>3 DEF Step, Configure, StreamCacheUpdate, Emission, Delivered, MasterSends, MasterIdle,
               CheckerSkipped, AllAsked, Reset, Answered, poll, MasterHears, OtherHears, CheckerRecords, AskStream
        <3> QED
            BY <1>2, <2>1, <3>1 DEF Collected
    <2> QED
        BY <2>2, <2>3
<1>3. CASE nextTimes' = {}
    BY <1>3 DEF Collected
<1>4. CASE due' # Never
    BY <1>4 DEF Collected
<1>5. CASE UNCHANGED <<due, nextTimes, todo>>
    BY <1>5 DEF Collected, Walking, InProgress
<1> QED
    BY <1>1, <1>2, <1>3, <1>4, <1>5, DueNext

\* The walk has not passed the profile by more than k.
Reached(k, p) == \E c \in InProgress : c.op = "walk" /\ \E i \in DOMAIN activeList :
    activeList[i] = p /\ c.at <= i + k
PollAhead(p) == Reached(0, p)

LEMMA ReachedStays ==
    ASSUME Typed, Orderly, Step, Head(todo).op # "walk", NEW k, NEW p, Reached(k, p)
    PROVE  Reached(k, p)'
<1>0. [Next]_vars
    BY DEF Next
<1>1. PICK c \in InProgress : c.op = "walk" /\ \E i \in DOMAIN activeList : activeList[i] = p /\ c.at <= i + k
    BY DEF Reached
<1>2. PICK i \in DOMAIN activeList : activeList[i] = p /\ c.at <= i + k
    BY <1>1
<1>3. ~EndWalk
    BY DEF EndWalk, Running
<1>4. c \in InProgress'
    BY <1>1, <1>3, WalkingNext
<1>5. i \in DOMAIN activeList' /\ activeList'[i] = p
    BY <1>0, <1>2, LenGrows
<1> QED
    BY <1>1, <1>2, <1>4, <1>5 DEF Reached

\* A walk in progress reaches what is added to the list.
LEMMA ReachedNew ==
    ASSUME Typed, Orderly, Within, Emission, Walking, NEW p \in Ids, activeList' = Append(activeList, p)
    PROVE  PollAhead(p)'
<1>0. [Next]_vars /\ Step /\ Head(todo).op # "walk"
    BY DEF Next, Step, Emission, EmitEvent, Running
<1>1. PICK c \in InProgress : c.op = "walk"
    BY DEF Walking
<1>2. c.at <= Len(activeList) + 1
    BY <1>1 DEF Within
<1>3. c \in InProgress'
    BY <1>0, <1>1, CallsNext
<1>4. Len(activeList) \in Nat /\ activeList \in Seq(Ids) /\ c.at \in Nat
    <2>1. Len(activeList) \in Nat
        BY <1>0, LenGrows
    <2>2. c \in Calls
        BY <1>1 DEF InProgress, Typed
    <2> QED
        BY <1>1, <2>1, <2>2, CallsAre DEF Typed
<1>5. Len(activeList) + 1 \in DOMAIN activeList' /\ activeList'[Len(activeList) + 1] = p
    BY <1>4
<1>6. c.at <= (Len(activeList) + 1) + 0
    BY <1>2, <1>4
<1> QED
    BY <1>1, <1>3, <1>5, <1>6 DEF PollAhead, Reached

\* The walk goes on to the profile after it has been at another.
LEMMA ReachedWalks ==
    ASSUME Typed, Orderly, Step, Head(todo).op = "walk", NEW p, PollAhead(p)
    PROVE  /\ ~EndWalk
           /\ \/ PollAhead(p)'
              \/ p = Polled /\ (MasterRefused \/ MasterIdle \/ DelaySend \/ CheckerSkipped)
<1> DEFINE at == Head(todo).at
<1>0. /\ UNCHANGED <<conf, activeList, waited, emitted, waitEventMap>>
      /\ InProgress = {Head(todo)} /\ at \in Nat \ {0}
      /\ \/ EndWalk /\ at > Len(activeList) /\ InProgress' = {Ask(activeStreams)}
         \/ /\ at <= Len(activeList) /\ ~EndWalk /\ Polled \in Ids
            /\ \E n : /\ n = at \/ (n = at + 1 /\ (MasterRefused \/ MasterIdle \/ DelaySend \/ CheckerSkipped))
                      /\ Walk(n) \in InProgress' /\ \A x \in InProgress' : x.op = "walk" => x = Walk(n)
    BY WalkingOf
<1>1. PICK i \in DOMAIN activeList : activeList[i] = p /\ at <= i + 0
    BY <1>0 DEF PollAhead, Reached
<1>2. i \in Nat /\ i <= Len(activeList) /\ Len(activeList) \in Nat
    <2>1. activeList \in Seq(Ids)
        BY DEF Typed
    <2>2. DOMAIN activeList = 1..Len(activeList) /\ Len(activeList) \in Nat
        BY <2>1
    <2> QED
        BY <1>1, <2>2
<1>3. ~(at > Len(activeList))
    BY <1>0, <1>1, <1>2
<1>4. PICK n : /\ n = at \/ (n = at + 1 /\ (MasterRefused \/ MasterIdle \/ DelaySend \/ CheckerSkipped))
               /\ Walk(n) \in InProgress'
    BY <1>0, <1>3
<1>5. CASE n <= i + 0
    BY <1>0, <1>1, <1>4, <1>5 DEF PollAhead, Reached, Walk
<1>6. CASE ~(n <= i + 0)
    <2>1. i = at /\ n = at + 1
        BY <1>0, <1>1, <1>2, <1>4, <1>6
    <2> QED
        BY <1>0, <1>1, <1>3, <1>4, <2>1 DEF Polled
<1> QED
    BY <1>0, <1>3, <1>5, <1>6

\* What is said of a profile during a walk is said when it has been reached.
Sourced == due = Never => \A q \in Ids, x \in InProgress : Sends(q) /\ SpeaksFor(x, q) => Reached(1, q)

LEMMA SourcedNext ==
    ASSUME Typed, Orderly, Checkers, Calling, Sourced, [Next]_vars
    PROVE  Sourced'
<1>1. CASE EndWalk
    <2>1. InProgress' = {Ask(activeStreams)}
        BY <1>1, WalkingOf DEF Step, EndWalk, Running
    <2> QED
        BY <2>1, OpsOf DEF Sourced, SpeaksFor
<1>2. CASE Step /\ ~EndWalk /\ due' = due
    <2> SUFFICES ASSUME due' = Never, NEW q \in Ids, NEW x \in InProgress', Sends(q)', SpeaksFor(x, q)
                 PROVE  Reached(1, q)'
        BY DEF Sourced, SpeaksFor
    <2>0. due = Never /\ Sends(q) /\ Head(todo) \in InProgress /\ todo # <<>>
        BY <1>2, PresentGrows, CallsNext
    <2>1. ASSUME NEW y \in InProgress, SpeaksFor(y, q) PROVE Reached(1, q)'
        <3>1. Reached(1, q)
            BY <2>0, <2>1 DEF Sourced
        <3>2. Head(todo).op # "walk"
            <4> SUFFICES ASSUME Head(todo).op = "walk" PROVE FALSE
                OBVIOUS
            <4>1. y = Head(todo)
                BY <2>0, <2>1, WalksAlone
            <4> QED
                BY <2>1, <4>1 DEF SpeaksFor
        <3> QED
            BY <1>2, <3>1, <3>2, ReachedStays
    <2>2. CASE x \in Rest
        <3>1. x \in InProgress
            BY <1>2, <2>2, CallsNext
        <3> QED
            BY <2>1, <3>1
    <2>3. CASE Caused(x)
        <3>1. SpeaksFor(Head(todo), q) \/ Speaker(q)
            BY <2>3 DEF Caused, Prompts
        <3>2. CASE SpeaksFor(Head(todo), q)
            BY <2>0, <2>1, <3>2
        <3>3. CASE Head(todo).op = "answered"
            BY <2>0, <3>3 DEF Calling
        <3>4. CASE Head(todo).op = "walk" /\ q = Polled
            <4> DEFINE at == Head(todo).at
            <4>1. /\ activeList' = activeList /\ at \in Nat \ {0} /\ at <= Len(activeList)
                  /\ \E n : (n = at \/ n = at + 1) /\ Walk(n) \in InProgress'
                BY <1>2, <3>4, WalkingOf
            <4>2. PICK n : (n = at \/ n = at + 1) /\ Walk(n) \in InProgress'
                BY <4>1
            <4>3. n <= at + 1 /\ at \in 1..Len(activeList)
                BY <4>1, <4>2
            <4>4. at \in DOMAIN activeList' /\ activeList'[at] = q
                BY <3>4, <4>1, <4>3 DEF Polled, Typed
            <4> HIDE DEF at
            <4> QED
                BY <4>2, <4>3, <4>4 DEF Reached, Walk
        <3>5. CASE Head(todo).op = "check" /\ q \in Head(todo).to
            BY <2>0, <3>5 DEF Checkers, Sends
        <3> QED
            BY <3>1, <3>2, <3>3, <3>4, <3>5 DEF Speaker
    <2> QED
        BY <1>2, <2>2, <2>3, CallsNext
<1>3. CASE InProgress' = {Walk(1)}
    BY <1>3, OpsOf DEF Sourced, SpeaksFor
<1>4. CASE due' # Never
    BY <1>4 DEF Sourced
<1>5. CASE UNCHANGED <<due, todo, conf, activeList>>
    BY <1>5 DEF Sourced, InProgress, Sends, Of, Reached, SpeaksFor
<1> QED
    BY <1>1, <1>2, <1>3, <1>4, <1>5, DueNext

\* An activation that is being told is that of a profile to be polled.
Woken == due = Never => \A p \in Ids, x \in InProgress :
    x.op = "notify" /\ x.event = Event("ACTIVATION", p) => PollAhead(p)

\* Who says something: an emission, or a listener that leaves the others to hear it.
LEMMA SaysNext ==
    ASSUME Typed, [Next]_vars, NEW x \in InProgress', x.op = "notify", x \notin InProgress
    PROVE  \/ /\ Emission /\ MayEmit(Head(todo).type, Head(todo).profile)
              /\ x.event = Event(Head(todo).type, Head(todo).profile)
           \/ /\ \E h \in Ids : MasterHears(h) \/ OtherHears(h)
              /\ x.event = Head(todo).event /\ Head(todo) \in InProgress /\ Head(todo).op = "notify"
<1>1. CASE Configure
    <2> DEFINE r == Head(todo).profile
               C == IF Free(r) THEN {Emit("ACTIVATION", r)} ELSE {}
    <2>1. Makes(C)
        BY <1>1, ConfigureMakes
    <2>2. \A y \in C : y.op # "notify"
        BY OpsOf
    <2> HIDE DEF C
    <2> QED
        BY <2>1, <2>2, MakesOf
<1>2. CASE Reset
    <2> DEFINE r == Head(todo).profile
               C == {On("reset", c) : c \in CheckersOf(r)} \cup (IF Free(r) THEN {Emit("ACTIVATION", r)} ELSE {})
    <2>1. Makes(C)
        BY <1>2, ResetMakes
    <2>2. \A y \in C : y.op # "notify"
        BY OpsOf
    <2> HIDE DEF C
    <2> QED
        BY <2>1, <2>2, MakesOf
<1>3. CASE Emission
    <2> DEFINE r == Head(todo).profile
               type == Head(todo).type
    <2>1. /\ InProgress = {Head(todo)} \cup Rest
          /\ MayEmit(type, r) => InProgress' = {Notify(Event(type, r), Listeners(Event(type, r)))} \cup Rest
          /\ ~MayEmit(type, r) => InProgress' = Rest
        BY <1>3, EmittingOf
    <2>2. MayEmit(type, r) /\ x = Notify(Event(type, r), Listeners(Event(type, r)))
        BY <2>1
    <2> QED
        BY <1>3, <2>2, NotifyIs
<1>4. ASSUME NEW h \in Ids, MasterHears(h) \/ OtherHears(h)
      PROVE  x.event = Head(todo).event /\ Head(todo) \in InProgress /\ Head(todo).op = "notify"
    <2> DEFINE ev == Head(todo).event
    <2>1. /\ Head(todo).op = "notify" /\ Head(todo) \in InProgress /\ InProgress = {Head(todo)} \cup Rest
          /\ \E C : /\ InProgress' = C \cup {Notify(ev, Head(todo).to \ {h})} \cup Rest
                    /\ C = {} \/ C = {Emit("ACTIVATION", h)}
        BY <1>4, HearsOf
    <2>2. x = Notify(ev, Head(todo).to \ {h})
        BY <2>1, OpsOf
    <2> QED
        BY <2>1, <2>2, NotifyIs
<1>5. CASE Aside
    BY <1>5 DEF Aside
<1> QED
    BY <1>1, <1>2, <1>3, <1>4, <1>5, NextIs

LEMMA WokenNext ==
    ASSUME Typed, Orderly, Calling, Within, Woken, [Next]_vars
    PROVE  Woken'
<1>1. CASE EndWalk
    <2>1. InProgress' = {Ask(activeStreams)}
        BY <1>1, WalkingOf DEF Step, EndWalk, Running
    <2> QED
        BY <2>1, OpsOf DEF Woken
<1>2. CASE Step /\ ~EndWalk /\ due' = due
    <2> SUFFICES ASSUME due' = Never, NEW p \in Ids, NEW x \in InProgress', x.op = "notify",
                        x.event = Event("ACTIVATION", p)
                 PROVE  PollAhead(p)'
        BY DEF Woken
    <2>0. due = Never /\ Head(todo) \in InProgress /\ todo # <<>>
        BY <1>2, CallsNext
    <2>1. ASSUME NEW y \in InProgress, y.op = "notify", y.event = Event("ACTIVATION", p) PROVE PollAhead(p)'
        <3>1. PollAhead(p)
            BY <2>0, <2>1 DEF Woken
        <3>2. Head(todo).op # "walk"
            BY <2>0, <2>1, WalksAlone
        <3> QED
            BY <1>2, <3>1, <3>2, ReachedStays DEF PollAhead
    <2>2. CASE x \in InProgress
        BY <2>1, <2>2
    <2>3. CASE x \notin InProgress
        <3>1. CASE x.event = Head(todo).event /\ Head(todo).op = "notify"
            BY <2>0, <2>1, <3>1
        <3>2. CASE /\ Emission /\ MayEmit(Head(todo).type, Head(todo).profile)
                   /\ x.event = Event(Head(todo).type, Head(todo).profile)
            <4>1. Head(todo).type = "ACTIVATION" /\ Head(todo).profile = p
                BY <3>2 DEF Event
            <4>2. activeList' = Append(activeList, p)
                BY <3>2, <4>1, EmittingOf
            <4>3. Head(todo).op = "emit"
                BY <3>2 DEF Emission, EmitEvent, Running
            <4>4. Walking
                BY <2>0, <4>3 DEF Calling
            <4> QED
                BY <3>2, <4>2, <4>4, ReachedNew
        <3> QED
            BY <2>3, <3>1, <3>2, SaysNext
    <2> QED
        BY <2>2, <2>3
<1>3. CASE InProgress' = {Walk(1)}
    BY <1>3, OpsOf DEF Woken
<1>4. CASE due' # Never
    BY <1>4 DEF Woken
<1>5. CASE UNCHANGED <<due, todo, activeList>>
    BY <1>5 DEF Woken, InProgress, PollAhead, Reached
<1> QED
    BY <1>1, <1>2, <1>3, <1>4, <1>5, DueNext

-----------------------------------------------------------------------------
(* Without an update scheduled, each profile that is polled has a reason to rest. *)

\* What keeps a listed profile from being polled now: it awaits others, and was locked
\* or has been reset; a time was collected; an answer is owed; its partner halts it.
Resting(p) ==
    \/ Waiting(waited[p], "PROFILE") /\ (locked \/ (conf.autoReset /\ ~started[p]))
    \/ nextTimes # {} \/ (Master(p) /\ ot[p] > 0) \/ (halted[p] /\ locked)
Excused(p) == terminated[p] \/ PollAhead(p) \/ Rising(p) \/ Resting(p)
Unstalled == due = Never => \A p \in ToSet(activeList) : Sends(p) => Excused(p)

\* No profile starts while it awaits others, but by the adapter.
LEMMA StartedStep ==
    ASSUME Typed, AtEnd, Step, NEW p \in Ids, Sends(p), Waiting(waited'[p], "PROFILE"), started'[p],
           Head(todo).op \notin {"configure", "reset"}
    PROVE  started[p]
<1>0. [Next]_vars
    BY DEF Next
<1>1. CASE StreamCacheUpdate \/ EndWalk \/ AllAsked \/ Answered \/ CheckerSkipped \/ MasterIdle
    BY <1>1 DEF StreamCacheUpdate, EndWalk, AllAsked, Answered, CheckerSkipped, MasterIdle, profileVars
<1>2. CASE Emission \/ Delivered
    BY <1>2 DEF Emission, Delivered, profileVars
<1>3. ASSUME NEW h \in Ids, MasterHears(h) PROVE started[p]
    <2> DEFINE waits == AwaitedBy(h, Head(todo).event)
    <2>1. waited' = [waited EXCEPT ![h] = waits]
          /\ started' = [started EXCEPT ![h] = started[h] \/ Starts(h, waits)]
        BY <1>3 DEF MasterHears
    <2> HIDE DEF waits
    <2> QED
        BY <2>1 DEF Typed, Starts
<1>4. ASSUME NEW h \in Ids, OtherHears(h) \/ CheckerRecords(h) \/ AskStream(h) PROVE started[p]
    BY <1>4 DEF OtherHears, CheckerRecords, AskStream, profileVars
<1>5. CASE MasterSends \/ MasterRefused
    <2> DEFINE r == Polled
    <2>1. r \in Ids /\ Master(r) /\ Active(r) /\ waited' = waited
        BY <1>5, MasterSendsMakes, MasterRefusedMakes, AsideWalk DEF MasterSends, MasterRefused, Master
    <2>2. started' = [started EXCEPT ![r] = TRUE]
        BY <1>5 DEF MasterSends, MasterRefused, Activated
    <2> HIDE DEF r
    <2>3. ~Waiting(waited[r], "PROFILE")
        BY <2>1, ActiveOf
    <2> QED
        BY <2>1, <2>2, <2>3 DEF Typed
<1>6. CASE DelaySend
    <2> DEFINE r == Polled
    <2>1. r \in Ids /\ waited' = waited
        BY <1>6, DelaySendMakes, AsideWalk
    <2>2. started' = [started EXCEPT ![r] = started[r] \/ ~Waiting(waited[r], "PROFILE")]
        BY <1>6 DEF DelaySend
    <2> HIDE DEF r
    <2> QED
        BY <2>1, <2>2 DEF Typed
<1>7. ~Configure /\ ~Reset
    BY DEF Configure, Reset, Running
<1> QED
    BY <1>1, <1>2, <1>3, <1>4, <1>5, <1>6, <1>7 DEF Step

\* What grows during a step: what was locked, collected, terminated, and owed.
LEMMA LockedStep ==
    ASSUME Typed, Step
    PROVE  (locked => locked') /\ nextTimes \subseteq nextTimes'
<1>1. CASE MasterRefused
    BY <1>1 DEF MasterRefused
<1>2. CASE MasterIdle
    BY <1>2 DEF MasterIdle
<1>3. CASE DelaySend
    BY <1>3 DEF DelaySend
<1>4. CASE ~MasterRefused /\ ~MasterIdle /\ ~DelaySend
    <2>1. CASE Configure \/ StreamCacheUpdate \/ Emission \/ Delivered \/ MasterSends \/ EndWalk
               \/ CheckerSkipped \/ AllAsked \/ Reset \/ Answered
        <3>1. locked' = locked /\ nextTimes' = nextTimes
            BY <2>1 DEF Configure, StreamCacheUpdate, Emission, Delivered, MasterSends, EndWalk,
               CheckerSkipped, AllAsked, Reset, Answered, poll
        <3> QED
            BY <3>1
    <2>2. ASSUME NEW h \in Ids, MasterHears(h) \/ OtherHears(h) \/ CheckerRecords(h) \/ AskStream(h)
          PROVE  locked' = locked /\ nextTimes' = nextTimes
        BY <2>2 DEF MasterHears, OtherHears, CheckerRecords, AskStream, poll
    <2> QED
        BY <1>4, <2>1, <2>2 DEF Step
<1> QED
    BY <1>1, <1>2, <1>3, <1>4

LEMMA OwedStep ==
    ASSUME Typed, Checkers, Step, NEW p \in Ids, Master(p), ot[p] > 0, Head(todo) # On("reset", p)
    PROVE  ot'[p] > 0
<1>1. CASE MasterSends
    <2>1. ot' = ot \/ ot' = [ot EXCEPT ![Polled] = ot[Polled] + 1]
        BY <1>1 DEF MasterSends, memory
    <2>2. ot[p] \in Int
        BY DEF Typed
    <2>3. ot'[p] = ot[p] \/ ot'[p] = ot[p] + 1
        BY <2>1 DEF Typed
    <2> QED
        BY <2>2, <2>3
<1>2. ASSUME NEW c \in Ids, CheckerRecords(c) PROVE ot'[p] > 0
    <2>1. Head(todo) \in InProgress
        BY CallsNext
    <2>2. c # p
        BY <1>2, <2>1 DEF CheckerRecords, Running, Checkers, Master
    <2>3. \E n : ot' = [ot EXCEPT ![c] = n]
        BY <1>2, RecordsOf
    <2> QED
        BY <2>2, <2>3 DEF Typed
<1>3. CASE Reset
    <2>1. Head(todo) = On("reset", Head(todo).profile)
        BY <1>3, ResetMakes
    <2>2. Head(todo).profile # p
        BY <2>1
    <2>3. ot' = [ot EXCEPT ![Head(todo).profile] = 0]
        BY <1>3 DEF Reset
    <2> QED
        BY <2>2, <2>3 DEF Typed
<1>4. ASSUME ~MasterSends, ~Reset, \A c \in Ids : ~CheckerRecords(c) PROVE ot' = ot
    BY <1>4 DEF Step, Configure, StreamCacheUpdate, Emission, Delivered, MasterRefused, EndWalk, MasterIdle, DelaySend,
       CheckerSkipped, AllAsked, Answered, poll, profileVars, MasterHears, OtherHears, AskStream
<1> QED
    BY <1>1, <1>2, <1>3, <1>4

LEMMA TerminatedStep ==
    ASSUME Typed, Orderly, Step, NEW p \in Ids, terminated[p], Head(todo) # On("reset", p)
    PROVE  terminated'[p]
<1>0. [Next]_vars
    BY DEF Next
<1>1. CASE Reset
    <2>1. Head(todo) = On("reset", Head(todo).profile)
        BY <1>1, ResetMakes
    <2>2. Head(todo).profile # p
        BY <2>1
    <2>3. terminated' = [terminated EXCEPT ![Head(todo).profile] = FALSE]
        BY <1>1 DEF Reset
    <2> QED
        BY <2>2, <2>3 DEF Typed
<1>2. CASE ~Reset
    BY <1>0, <1>2, UnsettledNext
<1> QED
    BY <1>1, <1>2

\* After its poll a profile has terminated, or has a reason to rest.
LEMMA PolledRests ==
    ASSUME Typed, Orderly, Owed, MasterRefused \/ MasterIdle \/ DelaySend \/ CheckerSkipped,
           NEW p \in Ids, p = Polled, Sends(p)
    PROVE  Excused(p)'
<1>0. Step /\ [Next]_vars
    BY DEF Step, Next
<1>1. conf' = conf /\ waited' = waited /\ Of(p)' = Of(p)
    BY <1>0, AsideWalk, PresentGrows
<1>2. CASE MasterRefused
    <2>1. Master(p) /\ ot' = ot
        BY <1>2 DEF MasterRefused, Polls, Master
    <2>2. nextTimes' # {} \/ ot[p] > 0
        BY <1>2 DEF MasterRefused
    <2> QED
        BY <1>1, <2>1, <2>2 DEF Excused, Resting, Master
<1>3. CASE MasterIdle
    <2> DEFINE ends == Terminates(p, ot[p])
    <2>1. /\ Master(p) /\ ot' = ot /\ ~Active(p)
          /\ terminated' = [terminated EXCEPT ![p] = terminated[p] \/ ends]
          /\ halted' = [halted EXCEPT ![p] = halted[p] /\ ~ends]
          /\ locked' = (locked \/ Locked(p))
        BY <1>3 DEF MasterIdle, Polls, Master
    <2>2. CASE terminated[p] \/ ends
        BY <2>1, <2>2 DEF Excused, Typed
    <2>3. CASE ~terminated[p] /\ ~ends
        <3>1. ot[p] = waitedResponse[p] /\ waitedResponse[p] \in Nat
            BY <2>1 DEF Owed, Typed
        <3>2. CASE Ended(p)
            <4>1. ot[p] # 0
                BY <2>3, <3>2 DEF Terminates
            <4>2. ot'[p] > 0
                BY <2>1, <3>1, <4>1
            <4> QED
                BY <1>1, <2>1, <4>2 DEF Excused, Resting, Master
        <3>3. CASE ~Ended(p)
            <4>1. Locked(p)
                BY <2>1, <3>3 DEF Active
            <4>2. locked'
                BY <2>1, <4>1
            <4>3. CASE Waiting(waited[p], "PROFILE")
                BY <1>1, <4>2, <4>3 DEF Excused, Resting
            <4>4. CASE halted[p]
                <5>1. halted'[p]
                    BY <2>1, <2>3, <4>4 DEF Typed
                <5> QED
                    BY <4>2, <5>1 DEF Excused, Resting
            <4>5. CASE Of(p).maxOt > 0 /\ ot[p] >= Of(p).maxOt
                <5>1. Of(p).maxOt \in Nat
                    BY ConfOf DEF Typed
                <5>2. ot'[p] > 0
                    BY <2>1, <3>1, <4>5, <5>1
                <5> QED
                    BY <1>1, <2>1, <5>2 DEF Excused, Resting, Master
            <4> QED
                BY <3>3, <4>1, <4>3, <4>4, <4>5 DEF Locked
        <3> QED
            BY <3>2, <3>3
    <2> QED
        BY <2>2, <2>3
<1>4. CASE DelaySend
    <2> DEFINE waits == Waiting(waited[p], "PROFILE")
               from == IF started[p] THEN startTime[p] ELSE time
               expired == (started[p] \/ ~waits) /\ time >= from + Of(p).delay
               ends == expired /\ ~terminated[p]
    <2>1. /\ terminated' = [terminated EXCEPT ![p] = terminated[p] \/ ends]
          /\ locked' = (locked \/ waits)
          /\ nextTimes' = nextTimes \cup IF ~waits /\ ~expired THEN {from + Of(p).delay} ELSE {}
        BY <1>4 DEF DelaySend
    <2> HIDE DEF expired, from
    <2>2. CASE waits
        BY <1>1, <2>1, <2>2 DEF Excused, Resting
    <2>3. CASE ~waits /\ ~expired
        BY <2>1, <2>3 DEF Excused, Resting
    <2>4. CASE expired
        <3>1. terminated[p] \/ ends
            BY <2>4
        <3>2. terminated'[p]
            BY <2>1, <3>1 DEF Typed
        <3> QED
            BY <3>2 DEF Excused
    <2> QED
        BY <2>2, <2>3, <2>4
<1>5. CASE CheckerSkipped
    BY <1>5 DEF CheckerSkipped, Polls, Sends
<1> QED
    BY <1>2, <1>3, <1>4, <1>5

\* Who is added to the list is reached, or awaits to be activated again.
LEMMA ListedExcused ==
    ASSUME Typed, Orderly, Again, Calling, Within, Step, due = Never, NEW p \in Ids,
           p \in ToSet(activeList'), p \notin ToSet(activeList), Head(todo) # On("reset", p)
    PROVE  PollAhead(p)'
<1>0. [Next]_vars /\ Head(todo) \in InProgress /\ todo # <<>>
    BY CallsNext DEF Next
<1>1. PICK r \in Ids : GrowsBy(r)
    BY <1>0, ListNext
<1>2. p = r
    <2>1. /\ DOMAIN activeList = 1..Len(activeList) /\ Len(activeList) \in Nat
          /\ DOMAIN activeList' = 1..Len(activeList') /\ Len(activeList') \in Nat
          /\ \A i \in 1..Len(activeList) : activeList'[i] = activeList[i]
        BY <1>0, LenGrows
    <2>2. PICK i \in DOMAIN activeList' : activeList'[i] = p
        BY DEF ToSet
    <2>3. ~(i <= Len(activeList))
        <3> SUFFICES ASSUME i <= Len(activeList) PROVE FALSE
            OBVIOUS
        <3>1. i \in DOMAIN activeList /\ activeList[i] = p
            BY <2>1, <2>2
        <3> QED
            BY <3>1 DEF ToSet
    <2>4. i > Len(activeList) /\ i \in 1..Len(activeList')
        BY <2>1, <2>2, <2>3
    <2> QED
        BY <1>1, <2>2, <2>4 DEF GrowsBy
<1>3. ~Configure
    BY <1>0 DEF Configure, Running, Calling
<1>4. ~(Reset /\ r = Head(todo).profile)
    BY <1>2, ResetMakes
<1>5. Emission /\ Head(todo) = Emit("ACTIVATION", r) /\ MayEmit("ACTIVATION", r)
    BY <1>1, <1>3, <1>4 DEF GrowsBy
<1>6. activeList' = Append(activeList, r)
    <2>1. Head(todo).profile = r /\ Head(todo).type = "ACTIVATION"
        BY <1>5 DEF Emit
    <2> QED
        BY <1>5, <2>1, EmittingOf
<1>7. Walking
    BY <1>0, <1>5, OpsOf DEF Calling
<1> QED
    BY <1>2, <1>5, <1>6, <1>7, ReachedNew

\* A stream is reset to wait again.
LEMMA ResetExcused ==
    ASSUME Typed, Orderly, Again, Reset, NEW p \in Ids, Head(todo) = On("reset", p), Sends(p)
    PROVE  Excused(p)'
<1>0. [Next]_vars /\ Head(todo) \in InProgress
    BY CallsNext DEF Next, Step
<1>1. conf.autoReset /\ ~Free(p)
    BY <1>0 DEF Again, Resetting
<1>2. Waiting(Of(p).waits, "PROFILE")
    BY <1>1 DEF Free, Sends
<1>3. Head(todo).profile = p
    BY DEF On
<1>4. /\ waited' = [waited EXCEPT ![p] = Of(p).waits]
      /\ started' = [started EXCEPT ![p] = Of(p).role = "master" /\ Free(p)]
      /\ conf' = conf
    BY <1>3 DEF Reset, RetainedWaits, Free
<1>5. waited'[p] = Of(p).waits /\ ~started'[p]
    BY <1>1, <1>4 DEF Typed
<1> QED
    BY <1>1, <1>2, <1>4, <1>5 DEF Excused, Resting

\* What a halted master awaits is the status of the one it starts and stops with.
LEMMA HaltedBySome ==
    ASSUME StopsWithOne, Typed, AsConfigured, HaltedAwait, NEW p \in Ids, halted[p]
    PROVE  /\ Master(p) /\ \E w \in waited[p] : Category(w.type) = "SEND_STATUS"
           /\ \A w \in waited[p] : Category(w.type) = "SEND_STATUS" => w \in Events /\ w.id \in Ids /\ StopsWith(p, w.id)
<1>1. Master(p) /\ \E w \in waited[p] : Category(w.type) = "SEND_STATUS"
    BY DEF HaltedAwait, Waiting
<1>2. ASSUME NEW w \in waited[p], Category(w.type) = "SEND_STATUS"
      PROVE  w \in Events /\ w.id \in Ids /\ StopsWith(p, w.id)
    <2>1. w \in Events /\ w.id \in Ids
        BY DEF Typed, Events
    <2>2. CASE w \in Of(p).waits
        <3>1. w.type = "PROFILE_LOCKED"
            BY <1>2, <2>2 DEF StopsWithOne, Typed, Of
        <3>2. w = Event("PROFILE_LOCKED", w.id)
            BY <2>1, <3>1 DEF Events, Event
        <3> QED
            BY <2>1, <2>2, <3>2 DEF StopsWith
    <2> QED
        BY <2>1, <2>2 DEF AsConfigured
<1> QED
    BY <1>1, <1>2

\* A halted master is released before the walk has passed it.
LEMMA ReleasedAhead ==
    ASSUME StopsWithOne, PartnerAhead, Typed, Orderly, AsConfigured, HaltedAwait, Again, Leading, Sourced,
           due = Never, NEW p \in Ids, MasterHears(p), halted[p], ~halted'[p], p \in ToSet(activeList)
    PROVE  PollAhead(p)'
<1> DEFINE ev == Head(todo).event
<1>0. /\ todo # <<>> /\ Head(todo).op = "notify" /\ ev \in Events /\ p \in Head(todo).to
      /\ Head(todo) \in InProgress /\ Master(p) /\ [Next]_vars /\ Step
    BY HearsOf DEF MasterHears, Master, Next, Step
<1>1. waited[p] \subseteq Events
    BY DEF Typed
<1>2. \/ ~Waiting(AwaitedBy(p, ev), "SEND_STATUS")
      \/ Flips(p, ev)
    <2>1. halted' = [halted EXCEPT ![p] = HaltedBy(p, ev)]
        BY DEF MasterHears
    <2>2. ~HaltedBy(p, ev)
        BY <2>1 DEF Typed
    <2> QED
        BY <2>2 DEF HaltedBy
<1>3. PICK w \in waited[p] : Category(w.type) = "SEND_STATUS" /\ ev.id = w.id /\ ev.type # "ACTIVATION"
    <2>1. CASE Flips(p, ev)
        BY <1>0, <2>1, CategoryOf DEF Flips, Events
    <2>2. CASE ~Flips(p, ev) /\ ~Waiting(AwaitedBy(p, ev), "SEND_STATUS")
        <3>1. PICK w \in waited[p] : Category(w.type) = "SEND_STATUS"
            BY HaltedBySome
        <3>2. w \notin StillWaited(p, ev)
            BY <2>2, <3>1 DEF AwaitedBy, Waiting
        <3>3. CASE ev.type = "TERMINATION"
            BY <3>1, <3>2, <3>3 DEF StillWaited
        <3>4. CASE ev.type # "TERMINATION"
            <4>1. w = ev
                BY <3>2, <3>4 DEF StillWaited
            <4> QED
                BY <2>2, <3>1, <4>1 DEF Flips
        <3> QED
            BY <3>1, <3>3, <3>4
    <2> QED
        BY <1>2, <2>1, <2>2
<1> DEFINE q == w.id
<1>4. q \in Ids /\ StopsWith(p, q)
    BY <1>3, HaltedBySome
<1>5. Sends(q)
    BY <1>4, PartnerOf
<1>6. Reached(1, q)
    BY <1>0, <1>3, <1>4, <1>5 DEF Sourced, SpeaksFor
<1>7. PICK c \in InProgress : c.op = "walk" /\ \E i \in DOMAIN activeList : activeList[i] = q /\ c.at <= i + 1
    BY <1>6 DEF Reached
<1>8. PICK i \in DOMAIN activeList : activeList[i] = q /\ c.at <= i + 1
    BY <1>7
<1>9. PICK j \in DOMAIN activeList : activeList[j] = p
    BY DEF ToSet
<1>10. i < j
    BY <1>4, <1>8, <1>9 DEF Leading, Leads
<1>11. c.at <= j + 0
    <2>1. i \in Nat /\ j \in Nat
        BY <1>0, <1>8, <1>9, LenGrows
    <2>2. c.at \in Nat
        <3>1. c \in Calls
            BY <1>7 DEF InProgress, Typed
        <3> QED
            BY <1>7, <3>1, CallsAre
    <2> QED
        BY <1>8, <1>10, <2>1, <2>2
<1>12. PollAhead(p)
    BY <1>7, <1>9, <1>11 DEF PollAhead, Reached
<1> QED
    BY <1>0, <1>12, ReachedStays DEF PollAhead

\* Who no longer awaits others is about to be polled.
LEMMA HeardAhead ==
    ASSUME StartsAlone, Typed, Orderly, AsConfigured, Unbegun, Woken, due = Never,
           NEW p \in Ids, MasterHears(p) \/ OtherHears(p), Sends(p),
           Waiting(waited[p], "PROFILE"), ~Waiting(waited'[p], "PROFILE")
    PROVE  Excused(p)'
<1> DEFINE ev == Head(todo).event
<1>0. /\ todo # <<>> /\ Head(todo).op = "notify" /\ ev \in Events /\ p \in Head(todo).to
      /\ Head(todo) \in InProgress /\ [Next]_vars /\ Step
    BY HearsOf DEF Next, Step
<1>1. PICK w \in waited[p] : Category(w.type) = "PROFILE"
    BY DEF Waiting
<1>2. w \in Events /\ w.id \in Ids /\ w \in Of(p).waits
    <2>1. w \in Events
        BY DEF Typed
    <2> QED
        BY <1>1, <2>1 DEF AsConfigured, Category, Events
<1>3. w.type \in {"ACTIVATION", "TERMINATION"}
    BY <1>1, <1>2, CategoryOf DEF Events
<1>4. CASE w.type = "TERMINATION"
    <2>1. w = Event("TERMINATION", w.id)
        BY <1>2, <1>4 DEF Events, Event
    <2>2. Partners(p) # {}
        BY <1>2, <2>1 DEF Partners
    <2>3. ~started[p] /\ emitted[p]["PROFILE"].type # "ACTIVATION"
        BY <2>2 DEF Unbegun
    <2>4. Emit("ACTIVATION", p) \in InProgress'
        BY <2>3, HearingStarts
    <2>5. emitted' = emitted
        BY HearingOf
    <2> QED
        BY <2>3, <2>4, <2>5 DEF Excused, Rising
<1>5. CASE w.type = "ACTIVATION"
    <2>1. w = Event("ACTIVATION", p)
        <3>1. w \in conf.profile[p].waits /\ conf \in Configs /\ conf.profile[p].role # "checker"
            BY <1>2 DEF Sends, Of, Typed
        <3>2. w.id = p
            BY <1>5, <3>1 DEF StartsAlone
        <3> QED
            BY <1>2, <1>5, <3>2 DEF Events, Event
    <2>2. w \notin StillWaited(p, ev)
        <3>1. w \notin waited'[p]
            BY <1>1 DEF Waiting
        <3>2. waited'[p] = AfterHearing(p)
            BY HearingStarts
        <3> QED
            BY <3>1, <3>2 DEF AfterHearing, AwaitedBy
    <2>3. CASE ev.type # "TERMINATION"
        <3>1. ev = Event("ACTIVATION", p)
            BY <2>1, <2>2, <2>3 DEF StillWaited
        <3>2. PollAhead(p)
            BY <1>0, <3>1 DEF Woken
        <3> QED
            BY <1>0, <3>2, ReachedStays DEF Excused, PollAhead
    <2>4. CASE ev.type = "TERMINATION"
        <3>1. ev.id = p
            BY <2>1, <2>2, <2>4 DEF StillWaited, Event
        <3>2. ev = Event("TERMINATION", p)
            BY <1>0, <2>4, <3>1 DEF Events, Event
        <3>3. terminated[p]
            BY <1>0, <3>2 DEF Orderly, Announced, Tells
        <3>4. terminated' = terminated
            BY HearingOf
        <3> QED
            BY <3>3, <3>4 DEF Excused
    <2> QED
        BY <2>3, <2>4
<1> QED
    BY <1>3, <1>4, <1>5

LEMMA RestingStep ==
    ASSUME StopsWithOne, PartnerAhead, StartsAlone, Typed, Orderly, AtEnd, Checkers, AsConfigured, HaltedAwait,
           Again, Unbegun, Leading, Calling, Sourced, Woken, due = Never, Step,
           NEW p \in ToSet(activeList), Sends(p), Head(todo) # On("reset", p), Resting(p)
    PROVE  Excused(p)'
<1>0. [Next]_vars /\ Head(todo) \in InProgress /\ todo # <<>> /\ p \in Ids
    BY CallsNext, ToSetOf DEF Next, Typed
<1>1. conf' = conf /\ (locked => locked') /\ nextTimes \subseteq nextTimes' /\ (Master(p)' <=> Master(p))
    BY <1>0, LockedStep, PresentGrows DEF Master
<1>2. ~Configure
    BY <1>0 DEF Configure, Running, Calling
<1>3. Reset => Head(todo).profile # p
    BY ResetMakes
<1>4. CASE Waiting(waited[p], "PROFILE") /\ (locked \/ (conf.autoReset /\ ~started[p]))
    <2>1. CASE Waiting(waited'[p], "PROFILE")
        <3>1. CASE locked
            BY <1>1, <2>1, <3>1 DEF Excused, Resting
        <3>2. CASE conf.autoReset /\ ~started[p]
            <4>1. CASE Head(todo).op # "reset"
                <5>1. Head(todo).op # "configure"
                    BY <1>0 DEF Calling
                <5>2. ~started'[p]
                    BY <1>0, <2>1, <3>2, <4>1, <5>1, StartedStep
                <5> QED
                    BY <1>1, <2>1, <3>2, <5>2 DEF Excused, Resting
            <4>2. CASE Head(todo).op = "reset"
                <5>1. Reset
                    BY <4>2 DEF Step, Configure, StreamCacheUpdate, Emission, EmitEvent, Delivered, AllHeard,
                       MasterHears, OtherHears, Hears, CheckerRecords, AskStream, AllAsked, Answered, MasterSends,
                       MasterRefused, MasterIdle, DelaySend, CheckerSkipped, Polls, EndWalk, Running
                <5>2. \E b : started' = [started EXCEPT ![Head(todo).profile] = b]
                    BY <5>1 DEF Reset
                <5>3. started'[p] = started[p]
                    BY <1>0, <1>3, <5>1, <5>2 DEF Typed
                <5> QED
                    BY <1>1, <2>1, <3>2, <5>3 DEF Excused, Resting
            <4> QED
                BY <4>1, <4>2
        <3> QED
            BY <1>4, <3>1, <3>2
    <2>2. CASE ~Waiting(waited'[p], "PROFILE")
        <3>1. waited'[p] # waited[p]
            BY <1>4, <2>2
        <3>2. MasterHears(p) \/ OtherHears(p)
            <4>1. CASE Reset
                <5>1. waited' = [waited EXCEPT ![Head(todo).profile] = Of(Head(todo).profile).waits]
                    BY <4>1 DEF Reset, RetainedWaits
                <5> QED
                    BY <1>0, <1>3, <3>1, <4>1, <5>1 DEF Typed
            <4>2. CASE Emission
                BY <3>1, <4>2, EmittingOf
            <4>3. CASE Aside
                BY <3>1, <4>3 DEF Aside
            <4>4. ASSUME NEW h \in Ids, MasterHears(h) \/ OtherHears(h) PROVE h = p
                BY <1>0, <3>1, <4>4, HearingStarts
            <4> QED
                BY <1>0, <1>2, <4>1, <4>2, <4>3, <4>4, NextIs
        <3> QED
            BY <1>0, <1>4, <2>2, <3>2, HeardAhead
    <2> QED
        BY <2>1, <2>2
<1>5. CASE nextTimes # {}
    BY <1>1, <1>5 DEF Excused, Resting
<1>6. CASE Master(p) /\ ot[p] > 0
    <2>1. ot'[p] > 0
        BY <1>0, <1>6, OwedStep
    <2> QED
        BY <1>1, <1>6, <2>1 DEF Excused, Resting
<1>7. CASE halted[p] /\ locked
    <2>1. CASE halted'[p]
        BY <1>1, <1>7, <2>1 DEF Excused, Resting
    <2>2. CASE ~halted'[p]
        <3>1. ~Reset
            <4> SUFFICES ASSUME Reset PROVE FALSE
                OBVIOUS
            <4>1. halted' = [halted EXCEPT ![Head(todo).profile] = FALSE]
                BY DEF Reset
            <4> QED
                BY <1>0, <1>3, <1>7, <2>2, <4>1 DEF Typed
        <3>2. CASE Emission
            BY <1>7, <2>2, <3>2, EmittingOf
        <3>3. CASE Aside
            BY <1>0, <1>7, <2>2, <3>3 DEF Aside, Excused
        <3>4. ASSUME NEW h \in Ids, MasterHears(h) \/ OtherHears(h) PROVE Excused(p)'
            <4>1. halted' = IF Master(h) THEN [halted EXCEPT ![h] = HaltedBy(h, Head(todo).event)] ELSE halted
                BY <3>4, HearingOf
            <4>2. h = p /\ Master(p)
                BY <1>0, <1>7, <2>2, <4>1 DEF Typed
            <4>3. MasterHears(p)
                BY <3>4, <4>2 DEF OtherHears, Master
            <4> QED
                BY <1>0, <1>7, <2>2, <4>3, ReleasedAhead DEF Excused
        <3> QED
            BY <1>0, <1>2, <3>1, <3>2, <3>3, <3>4, NextIs
    <2> QED
        BY <2>1, <2>2
<1> QED
    BY <1>4, <1>5, <1>6, <1>7 DEF Resting

LEMMA ExcusedStep ==
    ASSUME StopsWithOne, PartnerAhead, StartsAlone, Typed, Orderly, AtEnd, Owed, Checkers, AsConfigured,
           HaltedAwait, Again, Unbegun, Leading, Calling, Within, Sourced, Woken, due = Never, Step, ~EndWalk,
           NEW p \in ToSet(activeList), Sends(p), Excused(p)
    PROVE  Excused(p)'
<1>0. [Next]_vars /\ Head(todo) \in InProgress /\ todo # <<>> /\ p \in Ids
    BY CallsNext, ToSetOf DEF Next, Typed
<1>1. CASE Head(todo) = On("reset", p)
    <2>1. Reset
        <3>1. Head(todo).op = "reset"
            BY <1>1, OpsOf
        <3> QED
            BY <3>1 DEF Step, Configure, StreamCacheUpdate, Emission, EmitEvent, Delivered, AllHeard,
               MasterHears, OtherHears, Hears, CheckerRecords, AskStream, AllAsked, Answered, MasterSends,
               MasterRefused, MasterIdle, DelaySend, CheckerSkipped, Polls, EndWalk, Running
    <2> QED
        BY <1>0, <1>1, <2>1, ResetExcused
<1>2. CASE Head(todo) # On("reset", p)
    <2>1. CASE terminated[p]
        BY <1>0, <1>2, <2>1, TerminatedStep DEF Excused
    <2>2. CASE PollAhead(p)
        <3>1. CASE Head(todo).op # "walk"
            BY <2>2, <3>1, ReachedStays DEF PollAhead, Excused
        <3>2. CASE Head(todo).op = "walk"
            <4>1. CASE PollAhead(p)'
                BY <4>1 DEF Excused
            <4>2. CASE p = Polled /\ (MasterRefused \/ MasterIdle \/ DelaySend \/ CheckerSkipped)
                BY <1>0, <4>2, PolledRests
            <4> QED
                BY <2>2, <3>2, <4>1, <4>2, ReachedWalks
        <3> QED
            BY <3>1, <3>2
    <2>3. CASE Rising(p)
        <3>1. CASE Rising(p)'
            BY <3>1 DEF Excused
        <3>2. CASE Emission /\ activeList' = Append(activeList, p)
            <4>1. Walking
                <5>1. Emit("ACTIVATION", p) \in InProgress
                    BY <2>3 DEF Rising
                <5> QED
                    BY <5>1, OpsOf DEF Calling
            <4> QED
                BY <1>0, <3>2, <4>1, ReachedNew DEF Excused
        <3> QED
            BY <1>0, <2>3, <3>1, <3>2, RisingNext
    <2>4. CASE Resting(p)
        BY <1>2, <2>4, RestingStep
    <2> QED
        BY <2>1, <2>2, <2>3, <2>4 DEF Excused
<1> QED
    BY <1>1, <1>2

LEMMA UnstalledNext ==
    ASSUME StopsWithOne, PartnerAhead, StartsAlone, Typed, Orderly, AtEnd, Owed, Checkers, AsConfigured,
           HaltedAwait, Again, Unbegun, Leading, Calling, Within, Sourced, Woken, Unstalled, [Next]_vars
    PROVE  Unstalled'
<1> SUFFICES ASSUME due' = Never, NEW p, p \in ToSet(activeList'), Sends(p)'
             PROVE  Excused(p)'
    BY DEF Unstalled
<1>0. p \in Ids /\ Sends(p)
    <2>1. p \in Ids
        BY TypedNext, ToSetOf DEF Typed
    <2> QED
        BY <2>1, PresentGrows
<1>1. CASE EndWalk
    <2>1. /\ UNCHANGED <<conf, activeList, waited, emitted, terminated, started, halted, ot, locked, nextTimes>>
          /\ Head(todo).op = "walk" /\ todo # <<>>
        BY <1>1 DEF EndWalk, busVars, profileVars, Running
    <2>2. Step
        BY <1>1 DEF Step
    <2>3. InProgress = {Head(todo)}
        BY <2>1, <2>2, WalkingOf
    <2>4. Walking
        BY <2>1, <2>3 DEF Walking
    <2>5. due = Never
        BY <2>4 DEF Calling
    <2>6. ~PollAhead(p)
        BY <1>1, <2>1, <2>2, ReachedWalks
    <2>7. ~Rising(p)
        BY <2>1, <2>3, OpsOf DEF Rising
    <2>8. terminated[p] \/ Resting(p)
        BY <1>0, <2>1, <2>5, <2>6, <2>7 DEF Unstalled, Excused
    <2> QED
        BY <2>1, <2>8 DEF Excused, Resting, Master, Of
<1>2. CASE Step /\ ~EndWalk /\ due' = due
    <2>1. due = Never
        BY <1>2
    <2>2. CASE p \in ToSet(activeList)
        BY <1>0, <1>2, <2>1, <2>2, ExcusedStep DEF Unstalled
    <2>3. CASE p \notin ToSet(activeList) /\ Head(todo) # On("reset", p)
        BY <1>0, <1>2, <2>1, <2>3, ListedExcused DEF Excused
    <2>4. CASE Head(todo) = On("reset", p)
        <3>1. Reset
            <4>1. Head(todo).op = "reset"
                BY <2>4, OpsOf
            <4> QED
                BY <1>2, <4>1 DEF Step, Configure, StreamCacheUpdate, Emission, EmitEvent, Delivered, AllHeard,
                   MasterHears, OtherHears, Hears, CheckerRecords, AskStream, AllAsked, Answered, MasterSends,
                   MasterRefused, MasterIdle, DelaySend, CheckerSkipped, Polls, EndWalk, Running
        <3> QED
            BY <1>0, <2>4, <3>1, ResetExcused
    <2> QED
        BY <2>2, <2>3, <2>4
<1>3. CASE InProgress' = {Walk(1)}
    <2>1. PICK i \in DOMAIN activeList' : activeList'[i] = p
        BY DEF ToSet
    <2>2. i \in Nat /\ 1 <= i
        BY <2>1, LenGrows
    <2>3. 1 <= i + 0
        BY <2>2
    <2>4. PollAhead(p)'
        BY <1>3, <2>1, <2>3, OpsOf DEF PollAhead, Reached, Walk
    <2> QED
        BY <2>4 DEF Excused
<1>4. CASE UNCHANGED <<due, todo, nextTimes, locked, conf, activeList, waited, emitted, terminated,
                       started, halted, ot>>
    BY <1>0, <1>4 DEF Unstalled, Excused, Resting, Rising, PollAhead, Reached, InProgress, Master, Of
<1> QED
    BY <1>1, <1>2, <1>3, <1>4, DueNext

-----------------------------------------------------------------------------
(* Nothing is left behind. *)

\* All that is in progress at the end of a call is awaited, polled or terminated.
Attended ==
    /\ NoLostWait /\ AsConfigured /\ HaltedAwait /\ NoStatusYet /\ Again /\ Released /\ Obedient
    /\ Unheard /\ Waiters /\ Unbegun /\ Joining /\ Leading
    /\ Calling /\ Within /\ Collected /\ Sourced /\ Woken /\ Unstalled

LEMMA AttendedInit == Init => Attended
<1> SUFFICES ASSUME Init PROVE Attended
    OBVIOUS
<1>1. conf.files \in Seq(Seq(Ids)) /\ Typed
    BY ConfigsAssumption, TypedInit DEF Init, Configuration
<1>2. \A c \in InProgress : c.op \in {"configure", "cache"}
    <2>1. InProgress = ToSet(Loading(conf.files))
        BY DEF InProgress, ToSet, Init
    <2>2. ToSet(Loading(conf.files)) = UNION {{On("configure", p) : p \in ToSet(conf.files[f])} \cup {Cache} :
                                             f \in DOMAIN conf.files}
        BY <1>1, LoadingOf
    <2> QED
        BY <2>1, <2>2 DEF On, Cache
<1>3. Present = {}
    <2>1. InProgress = ToSet(Loading(conf.files))
        BY DEF InProgress, ToSet, Init
    <2>2. ToSet(Loading(conf.files)) = UNION {{On("configure", p) : p \in ToSet(conf.files[f])} \cup {Cache} :
                                             f \in DOMAIN conf.files}
        BY <1>1, LoadingOf
    <2> QED
        BY <2>1, <2>2 DEF Present, Configured
<1>4. /\ \A p \in Ids : /\ waited[p] = {} /\ ~halted[p] /\ ToSet(streamCache[p].nodes) = {}
                        /\ emitted[p] = [c \in Categories |-> NoneSent]
      /\ ToSet(activeList) = {} /\ DOMAIN activeList = {} /\ activeStreams = {} /\ due # Never
    <2>1. ToSet(<<>>) = {} /\ DOMAIN <<>> = {}
        BY NoneOf
    <2>2. activeList = <<>> /\ activeStreams = {} /\ due = 0
        BY DEF Init
    <2>3. ASSUME NEW p \in Ids
          PROVE  /\ waited[p] = {} /\ ~halted[p] /\ streamCache[p].nodes = <<>>
                 /\ emitted[p] = [c \in Categories |-> NoneSent]
        BY <2>3 DEF Init
    <2> QED
        BY <2>1, <2>2, <2>3 DEF Never
<1>5. ~Walking /\ Resetting = {} /\ \A p \in Ids : ~Rising(p)
    BY <1>2, OpsOf DEF Walking, Resetting, Rising
<1>6. \A q \in Ids : Status(q) = "NONE" /\ emitted[q]["PROFILE"].type = "NONE"
    BY <1>4 DEF Status, Categories, NoneSent
<1>7. NoLostWait /\ AsConfigured /\ HaltedAwait /\ NoStatusYet /\ Released
    BY <1>4, <1>6 DEF NoLostWait, AsConfigured, HaltedAwait, NoStatusYet, Released
<1>8. Again
    BY <1>2, <1>4, <1>5 DEF Again
<1>9. Obedient /\ Waiters /\ Joining
    BY <1>3 DEF Obedient, Waiters, Joining
<1>10. Unheard /\ Unbegun
    BY <1>4, <1>6 DEF Unheard, Unbegun, Waiting
<1>11. Leading
    BY <1>3, <1>4, <1>5 DEF Leading, Leads
<1>12. Calling /\ Within /\ Collected /\ Sourced /\ Woken /\ Unstalled
    BY <1>2, <1>4, <1>5 DEF Calling, Within, Collected, Sourced, Woken, Unstalled
<1> QED
    BY <1>7, <1>8, <1>9, <1>10, <1>11, <1>12 DEF Attended

LEMMA AttendedNext ==
    ASSUME Rooted, StopsWithOne, PartnerAhead, StartsAlone, Steady, Attended, [Next]_vars
    PROVE  Attended'
<1>1. /\ Typed /\ Orderly /\ Known /\ AtEnd /\ Owed /\ Checkers /\ Subscribers
      /\ NoLostWait /\ AsConfigured /\ HaltedAwait /\ NoStatusYet /\ Again /\ Released /\ Obedient
      /\ Unheard /\ Waiters /\ Unbegun /\ Joining /\ Leading
      /\ Calling /\ Within /\ Collected /\ Sourced /\ Woken /\ Unstalled
    BY DEF Steady, Sound, Settled, Attended
<1>2. NoLostWait' /\ AsConfigured' /\ HaltedAwait' /\ NoStatusYet'
    BY <1>1, NoLostWaitNext, AsConfiguredNext, HaltedAwaitNext, NoStatusYetNext
<1>3. Again' /\ Released' /\ Obedient'
    BY <1>1, AgainNext, ReleasedNext, ObedientNext
<1>4. Unheard' /\ Waiters' /\ Unbegun' /\ Joining'
    BY <1>1, UnheardNext, WaitersNext, UnbegunNext, JoiningNext
<1>5. Leading' /\ Calling' /\ Within' /\ Collected'
    BY <1>1, LeadingNext, CallingNext, WithinNext, CollectedNext
<1>6. Sourced' /\ Woken' /\ Unstalled'
    BY <1>1, SourcedNext, WokenNext, UnstalledNext
<1> QED
    BY <1>2, <1>3, <1>4, <1>5, <1>6 DEF Attended

LEMMA QuietIs ==
    ASSUME Quiet
    PROVE  InProgress = {}
<1>1. DOMAIN <<>> = {}
    OBVIOUS
<1> QED
    BY <1>1 DEF Quiet, InProgress

LEMMA HaltsFollow ==
    ASSUME Typed, Attended
    PROVE  HaltFollowsPartner
<1> SUFFICES ASSUME NEW p \in Ids, NEW q \in Ids, Quiet, Event("PROFILE_LOCKED", q) \in Of(p).waits,
                    Configured(p), ~terminated[p], ~terminated[q]
             PROVE  halted[p] = (emitted[q]["SEND_STATUS"].type = "PROFILE_LOCKED")
    BY DEF HaltFollowsPartner
<1>1. InProgress = {}
    BY QuietIs
<1>2. Obeys(p, q)
    BY DEF Attended, Obedient, StopsWith, Present, Unsettled
<1>3. ~BeingTold(p, q)
    BY <1>1 DEF BeingTold
<1>4. halted[p] <=> Status(q) = "PROFILE_LOCKED"
    BY <1>2, <1>3 DEF Obeys
<1>5. halted[p] \in BOOLEAN
    BY DEF Typed
<1> QED
    BY <1>4, <1>5 DEF Status

\* The end of a call, with no update scheduled and no answer awaited.
Still == Quiet /\ due = Never /\ \A p \in Ids : waitedResponse[p] = 0

\* Then who is polled has terminated, awaits others, or is halted.
LEMMA StillResting ==
    ASSUME Steady, Attended, Still, NEW p \in ToSet(activeList), Sends(p)
    PROVE  \/ terminated[p] \/ (halted[p] /\ locked)
           \/ Waiting(waited[p], "PROFILE") /\ (locked \/ (conf.autoReset /\ ~started[p]))
<1>1. InProgress = {} /\ due = Never /\ nextTimes = {}
    <2>1. InProgress = {} /\ due = Never
        BY QuietIs DEF Still
    <2> QED
        BY <2>1 DEF Attended, Collected, Walking
<1>2. p \in Ids
    BY DEF Steady, Sound, Known, Present
<1>3. ~PollAhead(p) /\ ~Rising(p)
    BY <1>1 DEF PollAhead, Reached, Rising
<1>4. Master(p) => ot[p] = 0
    BY <1>2 DEF Still, Steady, Settled, Owed
<1>5. Excused(p)
    BY <1>1 DEF Attended, Unstalled
<1> QED
    BY <1>1, <1>3, <1>4, <1>5 DEF Excused, Resting

\* And nobody is halted who is not terminated: a partner is polled, halted by none
\* and awaits none, hence would have terminated and released whom it halts.
LEMMA StillHalted ==
    ASSUME StopsWithOne, PartnerAhead, Steady, Attended, Still, NEW p \in ToSet(activeList)
    PROVE  ~halted[p]
<1> SUFFICES ASSUME halted[p] PROVE FALSE
    OBVIOUS
<1>1. Typed /\ AsConfigured /\ HaltedAwait /\ Again /\ Released /\ Leading
    BY DEF Steady, Sound, Attended
<1>2. p \in Ids /\ p \in Present
    BY DEF Steady, Sound, Known, Present
<1>3. PICK w \in waited[p] : StopsWith(p, w.id) /\ w.id \in Ids
    BY <1>1, <1>2, HaltedBySome
<1> DEFINE q == w.id
<1>4. Master(q) /\ waited[q] = {} /\ ~conf.autoReset /\ Sends(q) /\ q \in Ids
    BY <1>1, <1>2, <1>3, PartnerOf
<1>5. q \in ToSet(activeList)
    BY <1>1, <1>2, <1>3, <1>4 DEF Leading, Leads
<1>6. ~halted[q] /\ ~Waiting(waited[q], "PROFILE")
    BY <1>1, <1>4 DEF HaltedAwait, Waiting
<1>7. terminated[q]
    BY <1>4, <1>5, <1>6, StillResting
<1>8. InProgress = {}
    BY QuietIs DEF Still
<1>9. Unsettled(q)
    BY <1>1, <1>2, <1>3, <1>4, <1>8 DEF Released
<1> QED
    BY <1>7, <1>8, <1>9 DEF Unsettled

LEMMA NoneStalls ==
    ASSUME StopsWithOne, PartnerAhead, Steady, Attended
    PROVE  NoStall
<1> SUFFICES ASSUME Still, NEW p \in ToSet(activeList), Sends(p)
             PROVE  terminated[p] \/ Waiting(waited[p], "PROFILE")
    BY DEF NoStall, Still, Sends
<1> QED
    BY StillHalted, StillResting

\* A sender that is not polled awaits the end of another, that has not come.
LEMMA UnlistedAwaits ==
    ASSUME AfterSenders, Steady, Attended, Still, NEW p \in Present, Sends(p),
           p \notin ToSet(activeList)
    PROVE  /\ Partners(p) # {} /\ Waiting(waited[p], "PROFILE")
           /\ ~conf.autoReset => \E q \in Partners(p) : q \in Present /\ Sends(q) /\ ~terminated[q]
<1>1. /\ Typed /\ AsConfigured /\ Released /\ Joining /\ Waiters
      /\ conf \in Configs /\ InProgress = {} /\ p \in Ids
    BY QuietIs DEF Steady, Sound, Attended, Still, Typed, Present
<1>2. Waiting(waited[p], "PROFILE")
    BY <1>1 DEF Joining, Rising
<1>3. PICK w \in waited[p] : Category(w.type) = "PROFILE"
    BY <1>2 DEF Waiting
<1>4. w \in Events /\ w.type \in Types /\ w.id \in Ids
    BY <1>1, <1>3 DEF Typed, Events
<1>5. w.type \in {"ACTIVATION", "TERMINATION"}
    BY <1>3, <1>4, CategoryOf
<1>6. w \in Of(p).waits
    BY <1>1, <1>3, <1>5 DEF AsConfigured
<1>7. w.type # "ACTIVATION"
    BY <1>1, <1>6 DEF Waiters
<1>8. w = Event("TERMINATION", w.id)
    BY <1>4, <1>5, <1>7 DEF Events, Event
<1>9. w.id \in Partners(p)
    BY <1>4, <1>6, <1>8 DEF Partners
<1>10. /\ conf.profile[p].role # "checker"
       /\ Event("TERMINATION", w.id) \in conf.profile[p].waits
    BY <1>6, <1>8 DEF Sends, Of
<1>11. conf.profile[w.id].role # "checker" /\ \E f \in DOMAIN conf.files : w.id \in ToSet(conf.files[f])
    BY <1>1, <1>4, <1>10 DEF AfterSenders
<1>12. Sends(w.id) /\ w.id \in Present
    BY <1>1, <1>4, <1>11 DEF Sends, Of, Present, Configured
<1>13. ~conf.autoReset => ~terminated[w.id]
    BY <1>1, <1>3 DEF Released, Unsettled
<1> QED
    BY <1>2, <1>9, <1>12, <1>13

\* Without resets, nobody is left then: of those that have not terminated, one
\* that no other is behind of would be polled.
LEMMA NobodyLeft ==
    ASSUME Acyclic, StopsWithOne, PartnerAhead, AfterSenders, Steady, Attended, Still, ~locked,
           ~conf.autoReset, NEW p \in Present, Sends(p)
    PROVE  terminated[p]
<1> SUFFICES ASSUME ~terminated[p] PROVE FALSE
    OBVIOUS
<1> DEFINE N == Cardinality(Ids)
           T == {x \in Present : Sends(x) /\ ~terminated[x]}
<1>1. PICK behind \in [Ids -> 0..N] : \A x, y \in Ids :
          Event("TERMINATION", y) \in Of(x).waits => behind[x] < behind[y]
    <2>1. conf \in Configs
        BY DEF Steady, Sound, Typed
    <2> QED
        BY <2>1 DEF Acyclic, Of
<1>2. N \in Nat
    BY FS_CardinalityType, IdsAssumption
<1>3. T \subseteq Ids
    BY DEF Present
<1> DEFINE R == {N - behind[x] : x \in T}
<1>4. \A x \in Ids : behind[x] \in 0..N
    BY <1>1
<1> HIDE DEF N
<1>5. \A x \in Ids : N - behind[x] \in Nat
    BY <1>2, <1>4
<1>6. R \in SUBSET Nat /\ R # {}
    BY <1>3, <1>5
<1>7. PICK k \in R : \A y \in R : k <= y
    BY <1>6, LeastOf
<1>8. PICK x \in T : k = N - behind[x]
    BY <1>7
<1>9. x \in Present /\ Sends(x) /\ ~terminated[x] /\ x \in Ids
    BY <1>3, <1>8
<1>10. x \notin ToSet(activeList)
    BY <1>9, StillResting
<1>11. PICK y \in Partners(x) : y \in Present /\ Sends(y) /\ ~terminated[y]
    BY <1>9, <1>10, UnlistedAwaits
<1>12. y \in T /\ y \in Ids
    BY <1>3, <1>11
<1>13. behind[x] < behind[y]
    BY <1>1, <1>9, <1>11, <1>12 DEF Partners
<1>14. N - behind[x] <= N - behind[y]
    BY <1>7, <1>8, <1>12
<1>15. behind[x] \in Nat /\ behind[y] \in Nat
    BY <1>4, <1>9, <1>12
<1> HIDE DEF T, R
<1> QED
    BY <1>2, <1>13, <1>14, <1>15

LEMMA ExitsDone ==
    ASSUME Acyclic, StopsWithOne, PartnerAhead, AfterSenders, Steady, Attended
    PROVE  ExitMeansDone
<1> SUFFICES ASSUME Quiet, due = Never, ~locked, \A p \in Ids : waitedResponse[p] + discards[p] = 0,
                    NEW p \in Ids, Configured(p), Sends(p)
             PROVE  terminated[p] \/ (conf.autoReset /\ ~started[p])
    BY DEF ExitMeansDone, Sends
<1>1. p \in Present
    BY DEF Present
<1>2. Still
    <2>1. \A q \in Ids : waitedResponse[q] \in Nat /\ discards[q] \in Nat
        BY DEF Steady, Sound, Typed
    <2>2. \A q \in Ids : waitedResponse[q] = 0
        BY <2>1
    <2> QED
        BY <2>2 DEF Still
<1>3. CASE ~conf.autoReset
    BY <1>1, <1>2, <1>3, NobodyLeft
<1>4. CASE conf.autoReset /\ p \in ToSet(activeList)
    BY <1>2, <1>4, StillResting
<1>5. CASE conf.autoReset /\ p \notin ToSet(activeList)
    <2>1. Partners(p) # {} /\ Waiting(waited[p], "PROFILE")
        BY <1>1, <1>2, <1>5, UnlistedAwaits
    <2>2. ~started[p]
        BY <2>1 DEF Attended, Unbegun
    <2> QED
        BY <1>5, <2>2
<1> QED
    BY <1>3, <1>4, <1>5

\* Nothing is left behind: a master that starts and stops with a partner is halted
\* only by what the partner last announced, no profile waits for an update that the
\* adapter has not scheduled (nextTimes of send), and when the adapter stops the
\* simulation, all masters and delays have terminated, or were reset.
THEOREM NothingIsLeftBehind ==
    ASSUME OneFile, Rooted, Acyclic, StopsWithOne, PartnerAhead, StartsAlone, AfterSenders
    PROVE  Spec => []NothingLeftBehind
<1>1. Init => Attended
    BY AttendedInit
<1>2. Steady /\ Attended /\ [Next]_vars => Attended'
    BY AttendedNext
<1>3. Steady /\ Attended => NothingLeftBehind
    <2> SUFFICES ASSUME Steady, Attended PROVE NothingLeftBehind
        OBVIOUS
    <2>1. HaltFollowsPartner
        BY HaltsFollow DEF Steady, Sound
    <2> QED
        BY <2>1, NoneStalls, ExitsDone DEF NothingLeftBehind
<1>4. Spec => []Steady
    BY SteadyAlways
<1> QED
    BY <1>1, <1>2, <1>3, <1>4, PTL DEF Spec
=============================================================================
