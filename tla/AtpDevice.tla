----------------------------- MODULE AtpDevice -----------------------------
(***************************************************************************)
(* The gem5 ATP device (src/gem5/atp_device.cc) and the part of the gem5   *)
(* adapter that plays streams for it (src/gem5/profile_gen.cc). Software   *)
(* reaches the device through its registers only; the simulator runs one   *)
(* register access, one DMA completion or one adapter update at a time.    *)
(*                                                                         *)
(* A buffer (base and range) and a task are named by the request they are  *)
(* for. The statuses and sizes of the bus protocol are left out.           *)
(***************************************************************************)
EXTENDS Naturals, Sequences

CONSTANTS Streams,     \* the streams the adapter can instantiate
          Ids,         \* the request identifiers software uses
          None         \* neither a stream nor an identifier

ASSUME NoneAssumption == None \notin Streams /\ None \notin Ids

VARIABLES
  regs,           \* the registers
  streams,        \* the streams instantiated for this device
  active,         \* Stream::active
  pending,        \* Stream::pendingRequests
  servedRequests, \* served requests yet to be notified
  intAckPending,  \* an acknowledgement is awaited
  interrupt,      \* the level of the interrupt line
  dmaPending,     \* the stream name is being read from memory
  activeStreams,  \* adapter: streams that play
  onTerminate,    \* adapter: the request in a stream's termination callback
  configured,     \* adapter: the buffers a stream's masters are given
  terminated,     \* engine: streams whose leaf profiles have terminated
  fault,          \* what ended the simulation, if anything did
  generated,      \* history: requests in whose time a stream terminated
  finished        \* history: requests whose callback has run

queueVars   == <<active, pending>>
notifyVars  == <<servedRequests, intAckPending, interrupt>>
adapterVars == <<activeStreams, onTerminate, configured>>
engineVars  == <<terminated, generated>>
deviceVars  == <<regs, streams, queueVars, notifyVars, dmaPending, adapterVars,
                 engineVars, fault, finished>>

Operations == {"READ", "WRITE", "RDWR"}
Controls   == 0 .. 3                    \* CONTROL[1:0]
Buffers    == Ids \cup {None}
Requests   == [id : Ids, read : Buffers, write : Buffers, dmaOp : Operations]
Registers  == [read : Buffers, write : Buffers, streamId : Streams \cup {None},
               inRequestId : Buffers, outRequestId : Buffers, status : {0, 1}]

DeviceTypeOK ==
  /\ regs \in Registers
  /\ streams \subseteq Streams
  /\ active \in [Streams -> BOOLEAN]
  /\ pending \in [Streams -> Seq(Requests)]
  /\ servedRequests \in Seq(Ids)
  /\ intAckPending \in BOOLEAN
  /\ interrupt \in BOOLEAN
  /\ dmaPending \in BOOLEAN
  /\ activeStreams \subseteq Streams
  /\ onTerminate \in [Streams -> Buffers]
  /\ configured \in [Streams -> [READ : Buffers, WRITE : Buffers]]
  /\ terminated \subseteq Streams
  /\ fault \in {"none", "unknown stream", "dma operation", "unique stream"}
  /\ generated \subseteq Ids
  /\ finished \subseteq Ids

DeviceInit ==
  /\ regs = [read |-> None, write |-> None, streamId |-> None,
             inRequestId |-> None, outRequestId |-> None, status |-> 0]
  /\ streams = {}
  /\ active = [s \in Streams |-> FALSE]
  /\ pending = [s \in Streams |-> << >>]
  /\ servedRequests = << >>
  /\ intAckPending = FALSE /\ interrupt = FALSE /\ dmaPending = FALSE
  /\ activeStreams = {}
  /\ onTerminate = [s \in Streams |-> None]
  /\ configured = [s \in Streams |-> [READ |-> None, WRITE |-> None]]
  /\ terminated = {}
  /\ fault = "none"
  /\ generated = {} /\ finished = {}

----------------------------------------------------------------------------
\* Registers of data: a write stores, a read answers.
WriteRegisters(new) ==
  /\ fault = "none"
  /\ regs' = new
  /\ UNCHANGED <<streams, queueVars, notifyVars, dmaPending, adapterVars,
                 engineVars, fault, finished>>

DataWrite ==
  \E r \in [read : Ids, write : Ids, streamId : Streams, inRequestId : Ids] :
    \E fields \in SUBSET DOMAIN r :
      WriteRegisters([f \in DOMAIN regs |->
                        IF f \in fields THEN r[f] ELSE regs[f]])

ResetStatus == WriteRegisters([regs EXCEPT !.status = 0])

----------------------------------------------------------------------------
\* Playing a stream: CONTROL[3:2] = 0b01, and CONTROL[1:0] is the operation.
DmaOp == [bits \in 0 .. 2 |-> CASE bits = 0 -> "READ"
                                [] bits = 1 -> "WRITE"
                                [] bits = 2 -> "RDWR"]

Asked(bits) == [id    |-> regs.inRequestId,
                read  |-> regs.read, write |-> regs.write,
                dmaOp |-> DmaOp[bits]]

\* (mutant) the write buffer is taken from the registers of the read one.
ConfigureReadOnly(old, req) ==
  [READ  |-> IF req.dmaOp \in {"READ", "RDWR"} THEN req.read ELSE old.READ,
   WRITE |-> IF req.dmaOp \in {"WRITE", "RDWR"} THEN req.read ELSE old.WRITE]

\* The adapter reconfigures the addresses of the masters of one type.
ConfigureDmaOp(old, req) ==
  [READ  |-> IF req.dmaOp \in {"READ", "RDWR"} THEN req.read ELSE old.READ,
   WRITE |-> IF req.dmaOp \in {"WRITE", "RDWR"} THEN req.write ELSE old.WRITE]

\* activateStream replaces the callback of the stream; what it does not do
\* is to reset the stream (auto_reset is left FALSE).
ServeRequest(s, req) ==
  /\ configured' = [configured EXCEPT ![s] = ConfigureDmaOp(@, req)]
  /\ activeStreams' = activeStreams \cup {s}
  /\ onTerminate' = [onTerminate EXCEPT ![s] = req.id]
  /\ active' = [active EXCEPT ![s] = TRUE]

Fails(reason) ==
  /\ fault' = reason
  /\ UNCHANGED <<regs, streams, queueVars, notifyVars, dmaPending, adapterVars,
                 engineVars, finished>>

PlayStream(bits) ==
  /\ fault = "none"
  /\ LET s == regs.streamId IN
     \/ s \notin streams /\ Fails("unknown stream")
     \/ s \in streams /\ bits \notin DOMAIN DmaOp /\ Fails("dma operation")
     \/ /\ s \in streams /\ bits \in DOMAIN DmaOp
        /\ \/ /\ active[s]
              /\ pending' = [pending EXCEPT ![s] = Append(@, Asked(bits))]
              /\ UNCHANGED <<active, adapterVars>>
           \/ /\ ~active[s]
              /\ ServeRequest(s, Asked(bits))
              /\ UNCHANGED pending
        /\ regs' = [regs EXCEPT !.status = 1]
        /\ UNCHANGED <<streams, notifyVars, dmaPending, engineVars, fault, finished>>

----------------------------------------------------------------------------
\* A stream ends when its leaf profiles have terminated. Nothing on the way
\* from the device to the profiles undoes their termination.
TrafficEnds(s) ==
  /\ fault = "none"
  /\ s \in activeStreams \ terminated
  /\ terminated' = terminated \cup {s}
  /\ generated' = generated \cup {onTerminate[s]}
  /\ UNCHANGED <<regs, streams, queueVars, notifyVars, dmaPending, adapterVars,
                 fault, finished>>

\* (mutant) whether an acknowledgement is awaited is not asked.
PublishesOverDisplay == servedRequests = << >>

\* A request is published at once if nothing is on display or waits to be.
PublishesAtOnce == ~intAckPending /\ servedRequests = << >>

NotifyServedRequest(id) ==
  /\ regs' = [regs EXCEPT !.outRequestId = id]
  /\ interrupt' = TRUE
  /\ intAckPending' = TRUE

\* The stream's callback: its request is reported, and the next one begun.
ServedRequestHandler(s, id) ==
  /\ \/ /\ PublishesAtOnce
        /\ NotifyServedRequest(id)
        /\ UNCHANGED servedRequests
     \/ /\ ~PublishesAtOnce
        /\ servedRequests' = Append(servedRequests, id)
        /\ UNCHANGED <<regs, interrupt, intAckPending>>
  /\ \/ /\ pending[s] # << >>
        /\ ServeRequest(s, Head(pending[s]))
        /\ pending' = [pending EXCEPT ![s] = Tail(@)]
     \/ /\ pending[s] = << >>
        /\ activeStreams' = activeStreams \ {s}
        /\ active' = [active EXCEPT ![s] = FALSE]
        /\ UNCHANGED <<pending, onTerminate, configured>>

\* The adapter's update finds that a stream it plays is terminated, stops
\* tracking it and runs its callback.
StreamTerminated(s) ==
  /\ fault = "none"
  /\ s \in activeStreams \cap terminated
  /\ finished' = finished \cup {onTerminate[s]}
  /\ ServedRequestHandler(s, onTerminate[s])
  /\ UNCHANGED <<streams, dmaPending, engineVars, fault>>

\* (mutant) the next request is shown, and left in the queue.
AckInterruptTwice ==
  /\ fault = "none"
  /\ \/ servedRequests # << >> /\ NotifyServedRequest(Head(servedRequests))
     \/ servedRequests = << >> /\ interrupt' = FALSE /\ intAckPending' = FALSE /\ UNCHANGED regs
  /\ UNCHANGED <<servedRequests, streams, queueVars, dmaPending, adapterVars,
                 engineVars, fault, finished>>

\* CONTROL[3:2] = 0b10.
AckInterrupt ==
  /\ fault = "none"
  /\ \/ /\ servedRequests # << >>
        /\ NotifyServedRequest(Head(servedRequests))
        /\ servedRequests' = Tail(servedRequests)
     \/ /\ servedRequests = << >>
        /\ interrupt' = FALSE
        /\ intAckPending' = FALSE
        /\ UNCHANGED <<regs, servedRequests>>
  /\ UNCHANGED <<streams, queueVars, dmaPending, adapterVars, engineVars, fault, finished>>

----------------------------------------------------------------------------
\* A unique stream: CONTROL[3:2] = 0b11 starts the DMA that reads its name.
UniqueStream ==
  /\ fault = "none"
  /\ \/ dmaPending /\ Fails("unique stream")
     \/ /\ ~dmaPending
        /\ dmaPending' = TRUE
        /\ UNCHANGED <<regs, streams, queueVars, notifyVars, adapterVars,
                       engineVars, fault, finished>>

\* The name has arrived: the manager answers the root profile at its first
\* use and a fresh clone of it afterwards.
StreamName ==
  /\ fault = "none"
  /\ dmaPending
  /\ Streams # streams
  /\ dmaPending' = FALSE
  /\ LET s == CHOOSE new \in Streams \ streams : TRUE IN
       /\ streams' = streams \cup {s}
       /\ regs' = [regs EXCEPT !.streamId = s, !.status = 1]
  /\ UNCHANGED <<queueVars, notifyVars, adapterVars, engineVars, fault, finished>>

----------------------------------------------------------------------------
\* The device under any software: every register access at any time.
DeviceNext ==
  \/ DataWrite
  \/ ResetStatus
  \/ regs.inRequestId # None /\ \E bits \in Controls : PlayStream(bits)
  \/ AckInterrupt
  \/ UniqueStream
  \/ StreamName
  \/ \E s \in Streams : TrafficEnds(s) \/ StreamTerminated(s)

DeviceSpec == DeviceInit /\ [][DeviceNext]_deviceVars

----------------------------------------------------------------------------
\* A stream's line: the request of the callback, then the pending ones.
InLine(first, rest) == [i \in 1 .. Len(rest) + 1 |->
                          IF i = 1 THEN first ELSE rest[i - 1].id]

Line(s) == IF active[s] THEN InLine(onTerminate[s], pending[s]) ELSE << >>
Lines   == [s \in Streams |-> Line(s)]

\* The complete requests: the one in OUT_REQUEST_ID, then the served ones.
OnDisplay == IF intAckPending THEN <<regs.outRequestId>> \o servedRequests
                              ELSE << >>

Service == INSTANCE PlayService WITH line <- Lines, complete <- OnDisplay

\* The device, with its two queues, two flags and one register, implements
\* the play service: requests on a stream are served in order and one at a
\* time, and each is reported once, whatever the interleaving of play
\* commands, terminations and acknowledgements.
ImplementsPlayService == Service!Spec
=============================================================================
