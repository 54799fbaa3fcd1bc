------------------------------ MODULE Registry ------------------------------
(***************************************************************************)
(* The profiles a manager knows and how they refer to each other: loading  *)
(* of files whose profiles name profiles of later files (loadConfiguration,*)
(* configureProfile, createProfile), copies of a stream (cloneStream), the *)
(* cache of streams, the count of profiles at work, and the resets.        *)
(*                                                                         *)
(* A profile is its name: a base name and the number of the clone, 0 for   *)
(* what a file describes.  An ERROR ends the process.                      *)
(***************************************************************************)
EXTENDS Integers, FiniteSetsExt, SequencesExt

CONSTANTS
    Configs,    \* the configurations, see Configuration
    Bases,      \* base names
    MaxClones   \* bound: clones of each root

Types == {"ACTIVATION", "TERMINATION"}

\* files: the profiles each file describes; waits: what each awaits; checks: whom
\* a checker watches; resets: the manager may be reset.
Configuration ==
    [files : Seq(SUBSET Bases), waits : [Bases -> SUBSET [on : Bases, type : Types]],
     checks : [Bases -> SUBSET Bases], resets : BOOLEAN]

\* A root awaits its own ACTIVATION, which software gives it.
ASSUME ConfigsAssumption ==
    \A c \in Configs :
        /\ c \in Configuration
        /\ \A p \in Bases : \A w \in c.waits[p] : w.type = "ACTIVATION" => w.on = p

ASSUME BoundsAssumption == IsFiniteSet(Bases) /\ MaxClones \in Nat

VARIABLES
    conf,       \* the configuration, which never changes
    config,     \* how many of its files have been loaded
    toReload,   \* how many a reset loads again before it returns
    declared,   \* profileMap's names without a profile
    profiles,   \* those with one
    forwardDeclaredProfiles,
    checkedByMap,   \* pairs of the checked and the checker
    checkers,       \* the checkers registered with each profile, as pairs
    waitEventMap,   \* subscriptions
    activeList,
    streamCache,    \* the streams in the cache, by root
    clonedStreams,  \* the clones made of each root
    terminated,
    nonTerminatedProfiles,
    exited

tables == <<declared, profiles, forwardDeclaredProfiles, checkedByMap, checkers, waitEventMap,
            activeList, streamCache, clonedStreams, terminated, nonTerminatedProfiles>>
vars == <<conf, config, toReload, tables, exited>>

\* No reset is at work.
Ready == ~exited /\ config >= toReload

Names == Bases \X (0..MaxClones)
Base(p) == p[1]

\* (mutant) what a clone waits for is looked up under its own name
SuffixedNot(base, n) == <<base, 0>>

\* The name of the n-th clone of a profile (CloneSuffix).
Suffixed(base, n) == <<base, n>>

Originals(bases) == bases \X {0}

\* The events p awaits and the profiles it checks, whose TERMINATION it awaits.
Awaits(p) ==
    {[on |-> Suffixed(w.on, p[2]), type |-> w.type, by |-> p] : w \in conf.waits[Base(p)]}
    \cup {[on |-> Suffixed(b, p[2]), type |-> "TERMINATION", by |-> p] : b \in conf.checks[Base(p)]}

Checked(p) == {<<Suffixed(b, p[2]), p>> : b \in conf.checks[Base(p)]}

Union(op(_), S) == UNION {op(p) : p \in S}

\* The profiles of a set and those that await their TERMINATION.
Nearer(subscribed, near) ==
    near \cup {s.by : s \in {x \in subscribed : x.type = "TERMINATION" /\ x.on \in near}}

\* getStream: what TERMINATION subscriptions lead to.
Reached(subscribed, root) ==
    LET reach[k \in 0..Cardinality(Names)] ==
            IF k = 0 THEN {root} ELSE Nearer(subscribed, reach[k - 1])
    IN reach[Cardinality(Names)]

\* (mutant) what is in the cache is built anew
CachedAgain(cache, subscribed, roots) ==
    [r \in DOMAIN cache \cup roots |-> Reached(subscribed, r)]

\* A stream that is in the cache is not built again.
Cached(cache, subscribed, roots) ==
    [r \in DOMAIN cache \cup roots |->
        IF r \in DOMAIN cache THEN cache[r] ELSE Reached(subscribed, r)]

\* What configuring the profiles of a set does to the count of declared ones.
Forward(new, named) ==
    Cardinality(named \ (new \cup profiles \cup declared)) - Cardinality(new \cap declared)

-----------------------------------------------------------------------------
\* configureProfile of each, with the tables as they are: a duplicate name, or a
\* checker of a profile that is only declared, ends the process.
Configured(new) ==
    LET subscribed == waitEventMap \cup Union(Awaits, new)
        checked == checkedByMap \cup Union(Checked, new)
        named == {s.on : s \in Union(Awaits, new)}
    IN /\ profiles' = profiles \cup new
       /\ declared' = (declared \cup named) \ profiles'
       /\ forwardDeclaredProfiles' = forwardDeclaredProfiles + Forward(new, named)
       /\ waitEventMap' = subscribed
       /\ checkedByMap' = checked
       /\ checkers' = checked
       /\ nonTerminatedProfiles' = nonTerminatedProfiles + Cardinality(new)
       /\ activeList' = activeList \cup {p \in new : Awaits(p) = {} \/
              \E s \in Awaits(p) : s.type = "ACTIVATION"}
       /\ UNCHANGED terminated

Fails(new) ==
    \/ new \cap profiles # {}
    \/ \E c \in checkedByMap' : c[1] \notin profiles'

\* The next file.
LoadConfiguration ==
    /\ ~exited /\ config < Len(conf.files)
    /\ LET new == Originals(conf.files[config + 1]) IN
       /\ Configured(new)
       /\ exited' = Fails(new)
    /\ config' = config + 1
    /\ streamCache' = Cached(streamCache, waitEventMap', activeList')
    /\ UNCHANGED <<conf, toReload, clonedStreams>>

\* A copy of each profile of the stream as the cache has it, all of which refer to
\* each other.
CloneStream(root) ==
    /\ Ready /\ root \in profiles /\ root[2] = 0
    /\ clonedStreams[root] < MaxClones
    /\ LET n == clonedStreams[root] + 1
           cache == Cached(streamCache, waitEventMap, {root})
           new == {<<Base(p), n>> : p \in cache[root]}
       IN /\ Configured(new)
          /\ clonedStreams' = [clonedStreams EXCEPT ![root] = n]
          /\ streamCache' = Cached(cache, waitEventMap', {<<Base(root), n>>})
          /\ exited' = (Fails(new) \/ forwardDeclaredProfiles' > 0)
    /\ UNCHANGED <<conf, config, toReload>>

\* A root is activated by software.
Activate(root) ==
    /\ Ready /\ root \in profiles
    /\ LET s == [on |-> root, type |-> "ACTIVATION", by |-> root] IN
       /\ s \in waitEventMap
       /\ waitEventMap' = waitEventMap \ {s}
    /\ activeList' = activeList \cup {root}
    /\ UNCHANGED <<conf, config, toReload, declared, profiles, forwardDeclaredProfiles, checkedByMap, checkers,
                   streamCache, clonedStreams, terminated, nonTerminatedProfiles, exited>>

\* event(TERMINATION) of a profile that waits for nothing; the first poll has
\* found nothing declared and not created.
Terminate(p) ==
    /\ Ready /\ forwardDeclaredProfiles = 0
    /\ p \in profiles \ terminated
    /\ \A s \in waitEventMap : s.by # p
    /\ waitEventMap' = {s \in waitEventMap : s.on # p}
    /\ terminated' = terminated \cup {p}
    /\ nonTerminatedProfiles' = nonTerminatedProfiles - 1
    /\ UNCHANGED <<conf, config, toReload, declared, profiles, forwardDeclaredProfiles, checkedByMap, checkers,
                   activeList, streamCache, clonedStreams, exited>>

\* (mutant) a profile that was reset is not counted again
SignalledNone(nodes) == 0

\* (mutant) profiles that have not terminated are counted again
SignalledAll(nodes) == Cardinality(nodes)

\* signalReset: of those that have terminated.
Signalled(nodes) == Cardinality(nodes \cap terminated)

\* streamReset: each profile awaits its events again.
StreamReset(root) ==
    /\ Ready /\ root \in DOMAIN streamCache
    /\ LET nodes == streamCache[root] IN
       /\ waitEventMap' = waitEventMap \cup Union(Awaits, nodes)
       /\ nonTerminatedProfiles' = nonTerminatedProfiles + Signalled(nodes)
       /\ terminated' = terminated \ nodes
    /\ UNCHANGED <<conf, config, toReload, declared, profiles, forwardDeclaredProfiles, checkedByMap, checkers,
                   activeList, streamCache, clonedStreams, exited>>

Init ==
    /\ conf \in Configs
    /\ config = 0 /\ toReload = 0
    /\ declared = {} /\ profiles = {} /\ forwardDeclaredProfiles = 0
    /\ checkedByMap = {} /\ checkers = {}
    /\ waitEventMap = {} /\ activeList = {} /\ streamCache = <<>>
    /\ clonedStreams = [r \in Originals(Bases) |-> 0]
    /\ terminated = {} /\ nonTerminatedProfiles = 0
    /\ exited = FALSE

\* reset(): the tables are emptied, but not the count of declared profiles, and the
\* files loaded again.
Reset ==
    /\ conf.resets /\ Ready
    /\ config' = 0 /\ toReload' = config
    /\ declared' = {} /\ profiles' = {}
    /\ checkedByMap' = {} /\ checkers' = {}
    /\ waitEventMap' = {} /\ activeList' = {} /\ streamCache' = <<>>
    /\ clonedStreams' = [r \in Originals(Bases) |-> 0]
    /\ terminated' = {} /\ nonTerminatedProfiles' = 0
    /\ UNCHANGED <<conf, forwardDeclaredProfiles, exited>>

Next ==
    \/ LoadConfiguration
    \/ \E p \in Names : CloneStream(p) \/ Activate(p) \/ Terminate(p) \/ StreamReset(p)
    \/ Reset

Spec == Init /\ [][Next]_vars

-----------------------------------------------------------------------------
(* What configurations must be like.  Without the first, reset() leaves a    *)
(* count of names of which it has forgotten the profiles; without the second *)
(* the cache keeps a stream that has got more followers.                     *)

\* Those whose TERMINATION a profile awaits, and all that it names.
FollowedBy(c, b) == {w.on : w \in {x \in c.waits[b] : x.type = "TERMINATION"}} \cup c.checks[b]
NamedBy(c, b) == {w.on : w \in c.waits[b]} \cup c.checks[b]

\* What the first n files describe.
Loaded(c, n) == UNION {c.files[i] : i \in 1..n}

\* If the manager is reset, no profile of a file names one of a later file.
Whole(c) ==
    c.resets => \A i \in DOMAIN c.files : \A b \in c.files[i] : NamedBy(c, b) \subseteq Loaded(c, i)

\* No profile follows one of an earlier file and, with several files, no root follows
\* another profile.
Settled(c) ==
    /\ \A i, j \in DOMAIN c.files : i < j =>
           \A b \in c.files[j] : FollowedBy(c, b) \cap c.files[i] = {}
    /\ Len(c.files) > 1 =>
           \A b \in Bases : (\E w \in c.waits[b] : w.type = "ACTIVATION") => FollowedBy(c, b) = {}

-----------------------------------------------------------------------------
TypeOK ==
    /\ conf \in Configs /\ config \in 0..Len(conf.files) /\ toReload \in 0..Len(conf.files)
    /\ declared \subseteq Names /\ profiles \subseteq Names /\ declared \cap profiles = {}
    /\ forwardDeclaredProfiles \in Nat
    /\ checkedByMap \subseteq Names \X Names /\ checkers \subseteq Names \X profiles
    /\ waitEventMap \subseteq [on : Names, type : Types, by : profiles]
    /\ activeList \subseteq profiles
    /\ \A r \in DOMAIN streamCache : streamCache[r] \subseteq profiles
    /\ clonedStreams \in [Originals(Bases) -> 0..MaxClones]
    /\ terminated \subseteq profiles /\ nonTerminatedProfiles \in Nat

\* The two counts by which the manager decides that a configuration is complete
\* and that a master has finished are exact: across files that name each other's
\* profiles, clones, terminations and resets.
CountsExact ==
    ~exited => /\ forwardDeclaredProfiles = Cardinality(declared)
               /\ nonTerminatedProfiles = Cardinality(profiles \ terminated)

\* A clone is a copy of the whole stream, and only its own profiles wait for or
\* check one another: nothing that happens to one is heard by another.
ClonesApart ==
    ~exited =>
        /\ \A s \in waitEventMap : s.on[2] = s.by[2]
        /\ \A c \in checkers : c[1][2] = c[2][2]
        /\ \A r \in Originals(Bases) : \A n \in 1..clonedStreams[r] :
               streamCache[<<Base(r), n>>] = {<<Base(p), n>> : p \in streamCache[r]}

\* "refresh the stream cache" (loadConfiguration): a stream in the cache is what the
\* configured waits lead to, though terminations have used the subscriptions up.
StreamsFresh ==
    ~exited =>
        \A r \in DOMAIN streamCache : streamCache[r] = Reached(Union(Awaits, profiles), r)
=============================================================================
