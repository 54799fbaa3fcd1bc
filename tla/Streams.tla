------------------------------- MODULE Streams -------------------------------
(***************************************************************************)
(* Streams as software uses them through ProfileGen::initStream: a caller  *)
(* is given a stream of its own (uniqueStream, cloneStream), has the read  *)
(* and the write profiles of the stream moved into its buffers             *)
(* (addressStreamReconfigure), and its packets are sent, and sent again    *)
(* after a streamReset.                                                    *)
(*                                                                         *)
(* One root, whose stream is the sequence of master profiles conf.stream;  *)
(* what starts and ends each of them is module Engine's.  An ERROR ends    *)
(* the process (Logger::exitOnErrors).                                     *)
(***************************************************************************)
EXTENDS PacketDesc, Sequences, FiniteSetsExt, SequencesExt

CONSTANTS
    Configs,    \* the configurations, see Configuration
    Masters,    \* the masters callers ask for
    NoMaster,   \* a caller that names no master
    Callers     \* the callers, 1..n: their buffers lie one after the other

Types == {"READ", "WRITE"}

\* A profile of the stream: its type, total of packets and pattern; master: the
\* master the root is configured with; room: the size of each caller's buffers.
StreamProfile == [type : Types, toSend : Nat, pattern : Pattern]

Configuration == [stream : Seq(StreamProfile), master : Masters, room : Nat]

ASSUME CallersAssumption == Callers \subseteq Nat

\* A stride holds a packet, or the descriptor divides by zero; and it is given by
\* a number or a range, not both (an ERROR of init).
ASSUME ConfigsAssumption ==
    /\ Configs \subseteq Configuration
    /\ \A c \in Configs : \A i \in DOMAIN c.stream :
           LET p == c.stream[i].pattern IN
           p.striding => \/ p.strideRange = 0 /\ p.strideN > 0
                         \/ p.strideN = 0 /\ p.strideInc \in 1..p.strideRange

VARIABLES
    conf,       \* the configuration, which never changes
    clonedStreams, \* clones made of the root, -1 before its first use
    given,      \* the stream each caller was given: 0 the original, n a clone
    desc,       \* the descriptor of each profile, of each stream there is
    sent,       \* the addresses each of them has sent since its last reset
    moved,      \* the types each caller has had reconfigured
    exited      \* an ERROR ended the process

vars == <<conf, clonedStreams, given, desc, sent, moved, exited>>

None == -1

Nodes == DOMAIN conf.stream
Of(i) == conf.stream[i]

\* The caller's buffer of a type.
BufferBase(k, type) == (2 * k + (IF type = "READ" THEN 0 ELSE 1)) * conf.room
Buffer(k, type) == BufferBase(k, type) .. BufferBase(k, type) + conf.room - 1

\* The profiles of one stream, as loaded or cloned from their configuration.
Loaded(stream) ==
    {f \in [DOMAIN stream -> UNION {Initialised(stream[i].pattern) : i \in DOMAIN stream}] :
        \A i \in DOMAIN stream : f[i] \in Initialised(stream[i].pattern)}

Unsent(stream) == [i \in DOMAIN stream |-> <<>>]

Init ==
    /\ conf \in Configs
    /\ clonedStreams = None
    /\ given = [k \in Callers |-> None]
    /\ \E f \in Loaded(conf.stream) : desc = <<f>>
    /\ sent = <<Unsent(conf.stream)>>
    /\ moved = [k \in Callers |-> {}]
    /\ exited = FALSE

\* (mutant) the original is given to every caller of its master
FirstUseOfMaster(master) == master \in {NoMaster, conf.master}

\* uniqueStream: the original is given once, to a caller that names no other
\* master than its own.
FirstUse(master) ==
    /\ clonedStreams = None
    /\ master \in {NoMaster, conf.master}

UniqueStream(k, master) ==
    /\ ~exited /\ given[k] = None
    /\ IF FirstUse(master)
       THEN /\ clonedStreams' = 0
            /\ given' = [given EXCEPT ![k] = 0]
            /\ UNCHANGED <<desc, sent>>
       ELSE LET n == Max({clonedStreams, 0}) + 1 IN
            /\ clonedStreams' = n
            /\ given' = [given EXCEPT ![k] = n]
            /\ \E f \in Loaded(conf.stream) : desc' = Append(desc, f)
            /\ sent' = Append(sent, Unsent(conf.stream))
    /\ UNCHANGED <<conf, moved, exited>>

\* desc and sent hold the original at 1 and clone n at n + 1.
Own(k) == given[k] + 1

\* Where the range of the n-th profile ends: profiles of the type are placed one
\* after the other, each with the range it computes.
Ends(d, type, base) ==
    LET end[n \in 0..Len(conf.stream)] ==
            IF n = 0 THEN base
            ELSE end[n - 1] + IF Of(n).type = type THEN AutoRange(d[n], Of(n).toSend) ELSE 0
    IN end

\* ProfileGen::configureStream, with the buffer of the type.  autoRange has no
\* answer for an endless profile without a range, and the profiles must fit.
ConfigureStream(k, type) ==
    /\ ~exited /\ given[k] # None /\ type \notin moved[k]
    /\ sent[Own(k)] = Unsent(conf.stream)
    /\ LET d == desc[Own(k)]
           base == BufferBase(k, type)
           end == Ends(d, type, base)
           moves(i) == Of(i).type = type
       IN /\ desc' = [desc EXCEPT ![Own(k)] = [i \in Nodes |->
                 IF moves(i) THEN Moved(d[i], end[i - 1], end[i] - end[i - 1]) ELSE d[i]]]
          /\ exited' = \E i \in Nodes : moves(i) /\
                           \/ Of(i).toSend = 0 /\ d[i].range = 0
                           \/ end[i] > base + conf.room
    /\ moved' = [moved EXCEPT ![k] = @ \cup {type}]
    /\ UNCHANGED <<conf, clonedStreams, given, sent>>

\* A stream is played where it was configured, or where it was moved to.
Ready(k) == ~exited /\ given[k] # None /\ moved[k] \in {{}, Types}

\* PacketDesc::send, of a profile that has packets left.
SendPacket(k, i) ==
    /\ Ready(k)
    /\ Len(sent[Own(k)][i]) < Of(i).toSend
    /\ sent' = [sent EXCEPT ![Own(k)][i] = Append(@, desc[Own(k)][i].next)]
    /\ \E x \in Advanced(desc[Own(k)][i]) : desc' = [desc EXCEPT ![Own(k)][i] = x]
    /\ UNCHANGED <<conf, clonedStreams, given, moved, exited>>

\* streamReset, once every profile has sent its packets.
ResetStream(k) ==
    /\ Ready(k)
    /\ \A i \in Nodes : Len(sent[Own(k)][i]) = Of(i).toSend
    /\ sent' = [sent EXCEPT ![Own(k)] = Unsent(conf.stream)]
    /\ desc' = [desc EXCEPT ![Own(k)] = [i \in Nodes |-> Rewound(@[i])]]
    /\ UNCHANGED <<conf, clonedStreams, given, moved, exited>>

Next ==
    \E k \in Callers :
       \/ \E m \in Masters \cup {NoMaster} : UniqueStream(k, m)
       \/ \E type \in Types : ConfigureStream(k, type)
       \/ \E i \in Nodes : SendPacket(k, i)
       \/ ResetStream(k)

Spec == Init /\ [][Next]_vars

-----------------------------------------------------------------------------
TypeOK ==
    /\ conf \in Configs
    /\ clonedStreams \in {None} \cup Nat
    /\ given \in [Callers -> {None} \cup (0..Max({clonedStreams, 0}))]
    /\ Len(desc) = Max({clonedStreams, 0}) + 1
    /\ \A n \in DOMAIN desc : DOMAIN desc[n] = Nodes /\ \A i \in Nodes : Descriptor(desc[n][i])
    /\ Len(sent) = Len(desc)
    /\ \A n \in DOMAIN sent : sent[n] \in [Nodes -> Seq(Nat)]
    /\ moved \in [Callers -> SUBSET Types]
    /\ exited \in BOOLEAN

\* No two callers play the same stream (uniqueStream): what one of them moves or
\* resets is never what the other sends.
UniqueGiven ==
    \A k, l \in Callers : k # l /\ given[k] # None => given[k] # given[l]

\* The profiles a caller has moved lie one after the other in its buffer of their
\* type, and apart from each other (addressStreamReconfigure).
RangesDisjoint ==
    \A k \in Callers : given[k] # None /\ ~exited =>
        LET at(i) == LET d == desc[Own(k)][i] IN d.base .. d.base + d.range - 1
            placed == {i \in Nodes : Of(i).type \in moved[k]}
        IN /\ \A i \in placed : at(i) \subseteq Buffer(k, Of(i).type)
           /\ \A i, j \in placed : i # j => at(i) \cap at(j) = {}

\* Whatever a caller's stream sends once it was moved is in the buffer of its
\* type: through wraps, strides, random choices and resets.
InOwnBuffer ==
    \A k \in Callers : given[k] # None /\ moved[k] = Types =>
        \A i \in Nodes : Range(sent[Own(k)][i]) \subseteq Buffer(k, Of(i).type)

\* A caller that moved its stream has its buffers for itself, as long as it plays.
OwnRanges == RangesDisjoint /\ InOwnBuffer

\* The n-th address of a profile, by its configuration alone: packet by packet
\* and round the range, or stride by stride, of as many addresses as fit in the
\* range of a stride, or as its number says.
Configured(d, n) ==
    IF d.striding
    THEN LET stride == IF d.strideRange > 0 THEN (d.strideRange - 1) \div d.strideInc + 1
                                            ELSE d.strideN
         IN d.base + ((n - 1) \div stride) * d.increment + ((n - 1) % stride) * d.strideInc
    ELSE LET round == IF d.range > 0 THEN (d.range - 1) \div d.increment + 1 ELSE n
         IN d.base + ((n - 1) % round) * d.increment

Sends(k, i) ==
    \A n \in DOMAIN sent[Own(k)][i] : sent[Own(k)][i][n] = Configured(desc[Own(k)][i], n)

\* A linear profile sends what its configuration and its place say, moved or not,
\* before and after a reset; one with strides by range does where it was configured.
\* Strides by number are left out: getAddress() takes one address more of each than
\* packet_desc.hh and tp_config.proto say and autoRange() makes room for.
LinearExact ==
    \A k \in Callers : given[k] # None =>
        \A i \in Nodes :
            LET d == desc[Own(k)][i] IN
            /\ ~d.random /\ d.start = 0
            /\ d.striding => d.range = 0 /\ d.strideN = 0
            => Sends(k, i)

\* A profile that was given the range it needs sends each of its packets to an
\* address of its own, the first time and after each reset.
NoRepeat ==
    \A k \in Callers : given[k] # None =>
        \A i \in Nodes :
            LET d == desc[Own(k)][i] IN
            /\ ~d.random /\ ~d.striding /\ d.start = 0
            /\ Of(i).type \in moved[k] /\ conf.stream[i].pattern.range = 0
            => IsInjective(sent[Own(k)][i])

\* What a profile sends is known from its configuration and the ranges it was
\* given: by the n-th address of its pattern, and none twice where they suffice.
AddressesExact == LinearExact /\ NoRepeat
=============================================================================
