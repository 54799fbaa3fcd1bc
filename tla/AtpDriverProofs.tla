-------------------------- MODULE AtpDriverProofs --------------------------
(***************************************************************************)
(* Theorems about the ATP device under any software, and about the Linux   *)
(* driver as one program of it, for any number of processes, processors,   *)
(* streams and identifiers: whichever registers are written, in whichever  *)
(* order, interleaved with the ends of streams in any way, the device      *)
(* keeps its invariant and implements PlayService; and the register lock   *)
(* makes the driver's operations safe.                                     *)
(***************************************************************************)
EXTENDS AtpDriver, SequenceTheorems, TLAPS

-----------------------------------------------------------------------------
(* The device, under any software *)

\* A stream that is not active has no request waiting and is not tracked by
\* the adapter; the callback of one that is holds an identifier.
QueuesMatch ==
  \A s \in Streams : /\ active[s] <=> s \in activeStreams
                     /\ active[s] => onTerminate[s] \in Ids
                     /\ ~active[s] => pending[s] = << >>

\* No served request waits behind a free register, the register holds an
\* identifier while the acknowledgement of one is awaited, and exactly then
\* is the interrupt raised.
DisplayMatches ==
  /\ intAckPending => regs.outRequestId \in Ids
  /\ ~intAckPending => servedRequests = << >>
  /\ interrupt = intAckPending

DeviceInv == DeviceTypeOK /\ QueuesMatch /\ DisplayMatches

----------------------------------------------------------------------------
LEMMA DmaOpIsOperation == \A bits \in DOMAIN DmaOp : DmaOp[bits] \in Operations
  BY DEF DmaOp, Operations

LEMMA AskedIsRequest ==
  ASSUME regs \in Registers, regs.inRequestId # None, NEW bits \in DOMAIN DmaOp
  PROVE  Asked(bits) \in Requests
  BY DmaOpIsOperation DEF Asked, Requests, Registers, Buffers

LEMMA ConfiguredIsBuffers ==
  ASSUME NEW old \in [READ : Buffers, WRITE : Buffers], NEW req \in Requests
  PROVE  ConfigureDmaOp(old, req) \in [READ : Buffers, WRITE : Buffers]
  BY DEF ConfigureDmaOp, Requests

\* Serving a request keeps the adapter's and the stream's state in shape.
LEMMA ServingKeeps ==
  ASSUME DeviceTypeOK, NEW s \in Streams, NEW req \in Requests, ServeRequest(s, req)
  PROVE  /\ configured' \in [Streams -> [READ : Buffers, WRITE : Buffers]]
         /\ activeStreams' \subseteq Streams
         /\ onTerminate' \in [Streams -> Buffers]
         /\ active' \in [Streams -> BOOLEAN]
<1>1. ConfigureDmaOp(configured[s], req) \in [READ : Buffers, WRITE : Buffers]
  BY ConfiguredIsBuffers DEF DeviceTypeOK
<1>2. configured' \in [Streams -> [READ : Buffers, WRITE : Buffers]]
  BY <1>1 DEF ServeRequest, DeviceTypeOK
<1>3. req.id \in Buffers
  BY DEF Requests, Buffers
<1>4. QED
  BY <1>2, <1>3 DEF ServeRequest, DeviceTypeOK

\* A step that only writes registers of data, or STATUS.
LEMMA WritingKeeps ==
  ASSUME DeviceInv, NEW new \in Registers, new.outRequestId = regs.outRequestId,
         WriteRegisters(new)
  PROVE  DeviceInv'
<1> USE DEF WriteRegisters, queueVars, notifyVars, adapterVars, engineVars
<1>1. DeviceTypeOK'
  BY DEF DeviceInv, DeviceTypeOK
<1>2. QueuesMatch'
  BY DEF DeviceInv, QueuesMatch
<1>3. DisplayMatches'
  BY DEF DeviceInv, DisplayMatches
<1>4. QED
  BY <1>1, <1>2, <1>3 DEF DeviceInv

LEMMA PlayingKeeps ==
  ASSUME DeviceInv, regs.inRequestId # None, NEW bits \in Controls, PlayStream(bits)
  PROVE  DeviceInv'
<1> DEFINE s == regs.streamId
<1> USE DEF queueVars, notifyVars, adapterVars, engineVars
<1>1. ASSUME NEW reason \in {"unknown stream", "dma operation"}, Fails(reason)
      PROVE  DeviceInv'
  BY <1>1 DEF Fails, DeviceInv, DeviceTypeOK, QueuesMatch, DisplayMatches
<1>2. ASSUME s \in streams, bits \in DOMAIN DmaOp, active[s],
             pending' = [pending EXCEPT ![s] = Append(@, Asked(bits))],
             UNCHANGED <<active, adapterVars>>,
             regs' = [regs EXCEPT !.status = 1],
             UNCHANGED <<streams, notifyVars, dmaPending, engineVars, fault, finished>>
      PROVE  DeviceInv'
  <2>1. Asked(bits) \in Requests
    BY <1>2, AskedIsRequest DEF DeviceInv, DeviceTypeOK
  <2>2. pending' \in [Streams -> Seq(Requests)]
    <3>1. s \in Streams /\ pending[s] \in Seq(Requests)
      BY <1>2 DEF DeviceInv, DeviceTypeOK
    <3>2. Append(pending[s], Asked(bits)) \in Seq(Requests)
      BY <2>1, <3>1, AppendProperties
    <3>3. QED
      BY <1>2, <3>1, <3>2 DEF DeviceInv, DeviceTypeOK
  <2>3. regs' \in Registers /\ regs'.outRequestId = regs.outRequestId
    BY <1>2 DEF DeviceInv, DeviceTypeOK, Registers
  <2>4. DeviceTypeOK'
    BY <1>2, <2>2, <2>3 DEF DeviceInv, DeviceTypeOK
  <2>5. QueuesMatch'
    BY <1>2 DEF DeviceInv, QueuesMatch, DeviceTypeOK
  <2>6. DisplayMatches'
    BY <1>2, <2>3 DEF DeviceInv, DisplayMatches
  <2>7. QED
    BY <2>4, <2>5, <2>6 DEF DeviceInv
<1>3. ASSUME s \in streams, bits \in DOMAIN DmaOp, ~active[s],
             ServeRequest(s, Asked(bits)), UNCHANGED pending,
             regs' = [regs EXCEPT !.status = 1],
             UNCHANGED <<streams, notifyVars, dmaPending, engineVars, fault, finished>>
      PROVE  DeviceInv'
  <2>1. Asked(bits) \in Requests /\ s \in Streams
    BY <1>3, AskedIsRequest DEF DeviceInv, DeviceTypeOK
  <2>2. regs' \in Registers /\ regs'.outRequestId = regs.outRequestId
    BY <1>3 DEF DeviceInv, DeviceTypeOK, Registers
  <2>3. DeviceTypeOK'
    BY <1>3, <2>1, <2>2, ServingKeeps DEF DeviceInv, DeviceTypeOK
  <2>4. QueuesMatch'
    BY <1>3, <2>1 DEF DeviceInv, QueuesMatch, DeviceTypeOK, ServeRequest, Requests
  <2>5. DisplayMatches'
    BY <1>3, <2>2 DEF DeviceInv, DisplayMatches
  <2>6. QED
    BY <2>3, <2>4, <2>5 DEF DeviceInv
<1>4. QED
  BY <1>1, <1>2, <1>3 DEF PlayStream

LEMMA EndingKeeps ==
  ASSUME DeviceInv, NEW s \in Streams, TrafficEnds(s)
  PROVE  DeviceInv'
<1> USE DEF TrafficEnds, queueVars, notifyVars, adapterVars
<1>1. onTerminate[s] \in Ids
  BY DEF DeviceInv, DeviceTypeOK, QueuesMatch
<1>2. DeviceTypeOK'
  BY <1>1 DEF DeviceInv, DeviceTypeOK
<1>3. QED
  BY <1>2 DEF DeviceInv, QueuesMatch, DisplayMatches

\* What a termination does to the display, and apart from it to the queues.
LEMMA TerminatingKeeps ==
  ASSUME DeviceInv, NEW s \in Streams, StreamTerminated(s)
  PROVE  DeviceInv'
<1> DEFINE id == onTerminate[s]
<1>1. active[s] /\ id \in Ids
  BY DEF StreamTerminated, ServedRequestHandler, DeviceInv, DeviceTypeOK, QueuesMatch
<1>2. /\ DisplayMatches'
      /\ regs' \in Registers
      /\ servedRequests' \in Seq(Ids)
      /\ intAckPending' \in BOOLEAN /\ interrupt' \in BOOLEAN
  <2>1. CASE PublishesAtOnce /\ NotifyServedRequest(id) /\ UNCHANGED servedRequests
    BY <1>1, <2>1 DEF PublishesAtOnce, NotifyServedRequest, DeviceInv, DeviceTypeOK,
                      DisplayMatches, Registers, Buffers
  <2>2. CASE /\ ~PublishesAtOnce
             /\ servedRequests' = Append(servedRequests, id)
             /\ UNCHANGED <<regs, interrupt, intAckPending>>
    <3>1. servedRequests' \in Seq(Ids)
      BY <1>1, <2>2, AppendProperties DEF DeviceInv, DeviceTypeOK
    <3>2. intAckPending
      BY <2>2 DEF PublishesAtOnce, DeviceInv, DisplayMatches
    <3>3. QED
      BY <2>2, <3>1, <3>2 DEF DeviceInv, DeviceTypeOK, DisplayMatches
  <2>3. QED
    BY <2>1, <2>2 DEF StreamTerminated, ServedRequestHandler
<1>3. /\ QueuesMatch'
      /\ pending' \in [Streams -> Seq(Requests)]
      /\ active' \in [Streams -> BOOLEAN]
      /\ activeStreams' \subseteq Streams
      /\ onTerminate' \in [Streams -> Buffers]
      /\ configured' \in [Streams -> [READ : Buffers, WRITE : Buffers]]
  <2>1. CASE /\ pending[s] # << >>
             /\ ServeRequest(s, Head(pending[s]))
             /\ pending' = [pending EXCEPT ![s] = Tail(@)]
    <3>1. Head(pending[s]) \in Requests /\ Tail(pending[s]) \in Seq(Requests)
      <4>1. pending[s] \in Seq(Requests)
        BY DEF DeviceInv, DeviceTypeOK
      <4>2. QED
        BY <2>1, <4>1, HeadTailProperties
    <3>2. pending' \in [Streams -> Seq(Requests)]
      BY <2>1, <3>1 DEF DeviceInv, DeviceTypeOK
    <3>3. QueuesMatch'
      BY <1>1, <2>1, <3>1 DEF DeviceInv, QueuesMatch, DeviceTypeOK, ServeRequest, Requests
    <3>4. QED
      BY <2>1, <3>1, <3>2, <3>3, ServingKeeps DEF DeviceInv
  <2>2. CASE /\ pending[s] = << >>
             /\ activeStreams' = activeStreams \ {s}
             /\ active' = [active EXCEPT ![s] = FALSE]
             /\ UNCHANGED <<pending, onTerminate, configured>>
    BY <2>2 DEF DeviceInv, QueuesMatch, DeviceTypeOK
  <2>3. QED
    BY <2>1, <2>2 DEF StreamTerminated, ServedRequestHandler
<1>4. DeviceTypeOK'
  BY <1>1, <1>2, <1>3 DEF StreamTerminated, ServedRequestHandler, DeviceInv, DeviceTypeOK, engineVars
<1>5. QED
  BY <1>2, <1>3, <1>4 DEF DeviceInv

LEMMA AcknowledgingKeeps ==
  ASSUME DeviceInv, AckInterrupt
  PROVE  DeviceInv'
<1> USE DEF queueVars, adapterVars, engineVars
<1>1. CASE /\ servedRequests # << >>
           /\ NotifyServedRequest(Head(servedRequests))
           /\ servedRequests' = Tail(servedRequests)
  <2>1. Head(servedRequests) \in Ids /\ servedRequests' \in Seq(Ids)
    BY <1>1, HeadTailProperties DEF DeviceInv, DeviceTypeOK
  <2>2. regs' \in Registers /\ regs'.outRequestId \in Ids
    BY <1>1, <2>1 DEF NotifyServedRequest, DeviceInv, DeviceTypeOK, Registers, Buffers
  <2>3. DeviceTypeOK'
    BY <1>1, <2>1, <2>2 DEF AckInterrupt, NotifyServedRequest, DeviceInv, DeviceTypeOK
  <2>4. QED
    BY <1>1, <2>2, <2>3 DEF AckInterrupt, NotifyServedRequest, DeviceInv, QueuesMatch,
                            DisplayMatches
<1>2. CASE /\ servedRequests = << >>
           /\ interrupt' = FALSE
           /\ intAckPending' = FALSE
           /\ UNCHANGED <<regs, servedRequests>>
  BY <1>2 DEF AckInterrupt, DeviceInv, DeviceTypeOK, QueuesMatch, DisplayMatches
<1>3. QED
  BY <1>1, <1>2 DEF AckInterrupt

LEMMA NamingKeeps ==
  ASSUME DeviceInv, UniqueStream \/ StreamName
  PROVE  DeviceInv'
<1> USE DEF queueVars, notifyVars, adapterVars, engineVars
<1>1. CASE UniqueStream
  <2>1. /\ UNCHANGED <<regs, streams, queueVars, notifyVars, adapterVars, terminated, finished>>
        /\ dmaPending' \in BOOLEAN
        /\ fault' \in {"none", "unknown stream", "dma operation", "unique stream"}
        /\ generated' \subseteq Ids
    BY <1>1 DEF UniqueStream, Fails, DeviceInv, DeviceTypeOK
  <2>2. DeviceTypeOK'
    BY <2>1 DEF DeviceInv, DeviceTypeOK
  <2>3. QED
    BY <2>1, <2>2 DEF DeviceInv, QueuesMatch, DisplayMatches
<1>2. CASE StreamName
  <2> DEFINE new == CHOOSE s \in Streams \ streams : TRUE
  <2>1. \E s \in Streams \ streams : TRUE
    BY <1>2 DEF StreamName, DeviceInv, DeviceTypeOK
  <2>2. new \in Streams
    BY <2>1
  <2> HIDE DEF new
  <2>3. streams' = streams \cup {new} /\ regs' = [regs EXCEPT !.streamId = new, !.status = 1]
    BY <1>2 DEF StreamName, new
  <2>4. regs' \in Registers /\ regs'.outRequestId = regs.outRequestId
    BY <2>2, <2>3 DEF DeviceInv, DeviceTypeOK, Registers
  <2>5. DeviceTypeOK'
    BY <1>2, <2>2, <2>3, <2>4 DEF StreamName, DeviceInv, DeviceTypeOK
  <2>6. QED
    BY <1>2, <2>4, <2>5 DEF StreamName, DeviceInv, QueuesMatch, DisplayMatches
<1>3. QED
  BY <1>1, <1>2

----------------------------------------------------------------------------
LEMMA WritesRegisters ==
  ASSUME DeviceInv, DataWrite \/ ResetStatus
  PROVE  \E new \in Registers : /\ new.outRequestId = regs.outRequestId
                                /\ WriteRegisters(new)
<1>1. CASE ResetStatus
  <2> DEFINE new == [regs EXCEPT !.status = 0]
  <2>1. new \in Registers /\ new.outRequestId = regs.outRequestId
    BY DEF DeviceInv, DeviceTypeOK, Registers
  <2>2. QED
    BY <1>1, <2>1 DEF ResetStatus
<1>2. CASE DataWrite
  <2>1. PICK r \in [read : Ids, write : Ids, streamId : Streams, inRequestId : Ids] :
             \E fields \in SUBSET DOMAIN r :
               WriteRegisters([f \in DOMAIN regs |->
                                 IF f \in fields THEN r[f] ELSE regs[f]])
    BY <1>2 DEF DataWrite
  <2>2. PICK fields \in SUBSET DOMAIN r :
             WriteRegisters([f \in DOMAIN regs |-> IF f \in fields THEN r[f] ELSE regs[f]])
    BY <2>1
  <2> DEFINE new == [f \in DOMAIN regs |-> IF f \in fields THEN r[f] ELSE regs[f]]
  <2>3. /\ DOMAIN regs = {"read", "write", "streamId", "inRequestId", "outRequestId", "status"}
        /\ regs.read \in Buffers /\ regs.write \in Buffers
        /\ regs.streamId \in Streams \cup {None} /\ regs.inRequestId \in Buffers
        /\ regs.outRequestId \in Buffers /\ regs.status \in {0, 1}
    BY DEF DeviceInv, DeviceTypeOK, Registers
  <2>4. fields \subseteq {"read", "write", "streamId", "inRequestId"}
    OBVIOUS
  <2>5. /\ new.read \in Buffers /\ new.write \in Buffers
        /\ new.streamId \in Streams \cup {None} /\ new.inRequestId \in Buffers
        /\ new.outRequestId = regs.outRequestId /\ new.status = regs.status
    BY <2>3, <2>4 DEF Buffers
  <2>6. new = [read |-> new.read, write |-> new.write, streamId |-> new.streamId,
               inRequestId |-> new.inRequestId, outRequestId |-> new.outRequestId,
               status |-> new.status]
    BY <2>3
  <2>7. new \in Registers
    BY <2>3, <2>5, <2>6 DEF Registers
  <2>8. QED
    BY <2>2, <2>5, <2>7
<1>3. QED
  BY <1>1, <1>2

\* A device that has just been built.
LEMMA DeviceStarts == DeviceInit => DeviceInv
<1> SUFFICES ASSUME DeviceInit PROVE DeviceInv
  OBVIOUS
<1>1. regs \in Registers
  BY DEF DeviceInit, Registers, Buffers
<1>2. /\ pending \in [Streams -> Seq(Requests)]
      /\ servedRequests \in Seq(Ids)
      /\ onTerminate \in [Streams -> Buffers]
  BY DEF DeviceInit, Buffers
<1>3. configured \in [Streams -> [READ : Buffers, WRITE : Buffers]]
  BY DEF DeviceInit, Buffers
<1>4. DeviceTypeOK
  BY <1>1, <1>2, <1>3 DEF DeviceInit, DeviceTypeOK
<1>5. QED
  BY <1>4 DEF DeviceInit, DeviceInv, QueuesMatch, DisplayMatches

\* No register access and no termination breaks the invariant.
LEMMA DeviceStepKeeps == DeviceInv /\ [DeviceNext]_deviceVars => DeviceInv'
<1> SUFFICES ASSUME DeviceInv, [DeviceNext]_deviceVars
             PROVE  DeviceInv'
  OBVIOUS
<1>1. CASE DataWrite \/ ResetStatus
  BY <1>1, WritesRegisters, WritingKeeps
<1>2. ASSUME regs.inRequestId # None, NEW bits \in Controls, PlayStream(bits)
      PROVE  DeviceInv'
  BY <1>2, PlayingKeeps
<1>3. CASE AckInterrupt
  BY <1>3, AcknowledgingKeeps
<1>4. CASE UniqueStream \/ StreamName
  BY <1>4, NamingKeeps
<1>5. ASSUME NEW s \in Streams, TrafficEnds(s) PROVE DeviceInv'
  BY <1>5, EndingKeeps
<1>6. ASSUME NEW s \in Streams, StreamTerminated(s) PROVE DeviceInv'
  BY <1>6, TerminatingKeeps
<1>7. CASE UNCHANGED deviceVars
  BY <1>7 DEF deviceVars, queueVars, notifyVars, adapterVars, engineVars, DeviceInv,
              DeviceTypeOK, QueuesMatch, DisplayMatches
<1>8. QED
  BY <1>1, <1>2, <1>3, <1>4, <1>5, <1>6, <1>7 DEF DeviceNext

\* Whatever software does, the device's queues, flags, register and interrupt
\* line match the streams the adapter plays for it.
THEOREM DeviceInvariance == DeviceSpec => []DeviceInv
  BY DeviceStarts, DeviceStepKeeps, PTL DEF DeviceSpec

----------------------------------------------------------------------------
\* A line is a sequence of identifiers; it grows at its end, loses its head
\* to the next pending request, and is empty behind a single one.
LEMMA LineIsSeq ==
  ASSUME NEW first \in Ids, NEW rest \in Seq(Requests)
  PROVE  /\ InLine(first, rest) \in Seq(Ids)
         /\ Len(InLine(first, rest)) = Len(rest) + 1
         /\ \A i \in 1 .. Len(rest) + 1 :
              InLine(first, rest)[i] = IF i = 1 THEN first ELSE rest[i - 1].id
<1>1. Len(rest) \in Nat /\ \A i \in 1 .. Len(rest) : rest[i] \in Requests
  BY LenProperties
<1>2. \A i \in 1 .. Len(rest) + 1 : (IF i = 1 THEN first ELSE rest[i - 1].id) \in Ids
  BY <1>1 DEF Requests
<1>3. InLine(first, rest) \in [1 .. Len(rest) + 1 -> Ids]
  BY <1>2 DEF InLine
<1>4. InLine(first, rest) \in Seq(Ids)
  BY <1>1, <1>3, IsASeq
<1>5. QED
  BY <1>1, <1>3, <1>4, LenProperties DEF InLine

LEMMA LineGrows ==
  ASSUME NEW first \in Ids, NEW rest \in Seq(Requests), NEW req \in Requests
  PROVE  InLine(first, Append(rest, req)) = Append(InLine(first, rest), req.id)
<1> DEFINE l == InLine(first, Append(rest, req))
           r == Append(InLine(first, rest), req.id)
<1>1. req.id \in Ids /\ Len(rest) \in Nat
  BY LenProperties DEF Requests
<1>2. /\ Append(rest, req) \in Seq(Requests)
      /\ Len(Append(rest, req)) = Len(rest) + 1
      /\ \A i \in 1 .. Len(rest) : Append(rest, req)[i] = rest[i]
      /\ Append(rest, req)[Len(rest) + 1] = req
  BY AppendProperties
<1>3. /\ l \in Seq(Ids) /\ Len(l) = Len(rest) + 2
      /\ \A i \in 1 .. Len(rest) + 2 :
           l[i] = IF i = 1 THEN first ELSE Append(rest, req)[i - 1].id
  <2> DEFINE longer == Append(rest, req)
  <2>1. longer \in Seq(Requests)
    BY <1>2
  <2> HIDE DEF longer
  <2>2. /\ InLine(first, longer) \in Seq(Ids)
        /\ Len(InLine(first, longer)) = Len(longer) + 1
        /\ \A i \in 1 .. Len(longer) + 1 :
             InLine(first, longer)[i] = IF i = 1 THEN first ELSE longer[i - 1].id
    BY <2>1, LineIsSeq
  <2>3. Len(longer) + 1 = Len(rest) + 2
    BY <1>1, <1>2 DEF longer
  <2>4. QED
    BY <2>2, <2>3 DEF longer
<1>4. /\ InLine(first, rest) \in Seq(Ids)
      /\ Len(InLine(first, rest)) = Len(rest) + 1
      /\ \A i \in 1 .. Len(rest) + 1 :
           InLine(first, rest)[i] = IF i = 1 THEN first ELSE rest[i - 1].id
  BY LineIsSeq
<1>5. /\ r \in Seq(Ids) /\ Len(r) = Len(rest) + 2
      /\ \A i \in 1 .. Len(rest) + 1 : r[i] = InLine(first, rest)[i]
      /\ r[Len(rest) + 2] = req.id
  BY <1>1, <1>4, AppendProperties
<1> HIDE DEF l, r
<1>6. ASSUME NEW i \in 1 .. Len(l) PROVE l[i] = r[i]
  <2>1. CASE i = 1
    BY <1>1, <1>3, <1>4, <1>5, <2>1
  <2>2. CASE i = Len(rest) + 2
    BY <1>1, <1>2, <1>3, <1>5, <2>2
  <2>3. CASE i \in 2 .. Len(rest) + 1
    <3>1. /\ i - 1 \in 1 .. Len(rest) /\ i # 1
          /\ i \in 1 .. Len(rest) + 1 /\ i \in 1 .. Len(rest) + 2
      BY <1>1, <2>3
    <3>2. l[i] = rest[i - 1].id
      BY <1>2, <1>3, <3>1
    <3>3. r[i] = rest[i - 1].id
      BY <1>4, <1>5, <3>1
    <3>4. QED
      BY <3>2, <3>3
  <2>4. QED
    BY <1>1, <1>3, <2>1, <2>2, <2>3
<1>7. l = r
  BY <1>3, <1>5, <1>6, SeqEqual
<1>8. QED
  BY <1>7 DEF l, r

LEMMA LineAdvances ==
  ASSUME NEW first \in Ids, NEW rest \in Seq(Requests), rest # << >>
  PROVE  /\ Head(InLine(first, rest)) = first
         /\ Tail(InLine(first, rest)) = InLine(Head(rest).id, Tail(rest))
<1> DEFINE l == InLine(first, rest)
           r == InLine(Head(rest).id, Tail(rest))
<1>1. /\ Head(rest) \in Requests /\ Head(rest).id \in Ids
      /\ Tail(rest) \in Seq(Requests) /\ Len(Tail(rest)) = Len(rest) - 1
      /\ \A i \in 1 .. Len(Tail(rest)) : Tail(rest)[i] = rest[i + 1]
      /\ Len(rest) \in Nat \ {0} /\ Head(rest) = rest[1]
  <2>1. /\ Head(rest) \in Requests
        /\ Tail(rest) \in Seq(Requests) /\ Len(Tail(rest)) = Len(rest) - 1
        /\ \A i \in 1 .. Len(Tail(rest)) : Tail(rest)[i] = rest[i + 1]
    BY HeadTailProperties
  <2>2. Len(rest) \in Nat \ {0}
    BY EmptySeq
  <2>3. Head(rest) = rest[1]
    OBVIOUS
  <2>4. Head(rest).id \in Ids
    BY <2>1 DEF Requests
  <2>5. QED
    BY <2>1, <2>2, <2>3, <2>4
<1>2. /\ l \in Seq(Ids) /\ Len(l) = Len(rest) + 1
      /\ \A i \in 1 .. Len(rest) + 1 : l[i] = IF i = 1 THEN first ELSE rest[i - 1].id
  BY LineIsSeq
<1>3. /\ r \in Seq(Ids) /\ Len(r) = Len(rest)
      /\ \A i \in 1 .. Len(rest) :
           r[i] = IF i = 1 THEN Head(rest).id ELSE Tail(rest)[i - 1].id
  <2> DEFINE head == Head(rest).id
             tail == Tail(rest)
  <2>1. head \in Ids /\ tail \in Seq(Requests)
    BY <1>1
  <2>2. Len(tail) + 1 = Len(rest)
    BY <1>1
  <2> HIDE DEF head, tail
  <2>3. /\ InLine(head, tail) \in Seq(Ids) /\ Len(InLine(head, tail)) = Len(tail) + 1
        /\ \A i \in 1 .. Len(tail) + 1 :
             InLine(head, tail)[i] = IF i = 1 THEN head ELSE tail[i - 1].id
    BY <2>1, LineIsSeq
  <2>4. QED
    BY <2>2, <2>3 DEF head, tail
<1> HIDE DEF l, r
<1>4. l # << >> /\ Head(l) = first
  BY <1>1, <1>2
<1>5. /\ Tail(l) \in Seq(Ids) /\ Len(Tail(l)) = Len(rest)
      /\ \A i \in 1 .. Len(rest) : Tail(l)[i] = l[i + 1]
  BY <1>1, <1>2, <1>4, HeadTailProperties
<1>6. ASSUME NEW i \in 1 .. Len(Tail(l)) PROVE Tail(l)[i] = r[i]
  <2>1. Tail(l)[i] = rest[i].id
    BY <1>1, <1>2, <1>5
  <2>2. CASE i = 1
    BY <1>1, <1>3, <2>1, <2>2
  <2>3. CASE i # 1
    <3>1. i - 1 \in 1 .. Len(Tail(rest)) /\ i \in 1 .. Len(rest)
      BY <1>1, <1>5, <2>3
    <3>2. QED
      BY <1>1, <1>3, <2>1, <2>3, <3>1
  <2>4. QED
    BY <2>2, <2>3
<1>7. Tail(l) = r
  BY <1>3, <1>5, <1>6, SeqEqual
<1>8. QED
  BY <1>4, <1>7 DEF l, r

LEMMA LineOfOne ==
  ASSUME NEW first \in Ids
  PROVE  /\ InLine(first, << >>) = <<first>>
         /\ Append(<< >>, first) = <<first>>
         /\ Head(<<first>>) = first
         /\ Tail(<<first>>) = << >>
<1>1. << >> \in Seq(Requests) /\ Len(<< >>) = 0
  BY EmptySeq
<1>2. /\ InLine(first, << >>) \in Seq(Ids) /\ Len(InLine(first, << >>)) = 1
      /\ InLine(first, << >>)[1] = first
  <2> DEFINE none == << >>
  <2>1. none \in Seq(Requests) /\ Len(none) = 0
    BY <1>1
  <2> HIDE DEF none
  <2>2. /\ InLine(first, none) \in Seq(Ids) /\ Len(InLine(first, none)) = Len(none) + 1
        /\ \A i \in 1 .. Len(none) + 1 :
             InLine(first, none)[i] = IF i = 1 THEN first ELSE none[i - 1].id
    BY <2>1, LineIsSeq
  <2>3. QED
    BY <2>1, <2>2 DEF none
<1>3. <<first>> \in Seq(Ids) /\ Len(<<first>>) = 1 /\ <<first>>[1] = first
  OBVIOUS
<1>4. InLine(first, << >>) = <<first>>
  BY <1>2, <1>3, SeqEqual
<1>5. QED
  BY <1>4

----------------------------------------------------------------------------
\* The display, seen as a sequence: one more request is added at its end, and
\* what an acknowledgement leaves is the queue.
LEMMA DisplayGrows ==
  ASSUME NEW shown \in Ids, NEW queue \in Seq(Ids), NEW id \in Ids
  PROVE  Append(<<shown>> \o queue, id) = <<shown>> \o Append(queue, id)
<1>1. <<shown>> \in Seq(Ids) /\ <<id>> \in Seq(Ids)
  OBVIOUS
<1>2. <<shown>> \o queue \in Seq(Ids)
  BY <1>1, ConcatProperties
<1>3. Append(<<shown>> \o queue, id) = (<<shown>> \o queue) \o <<id>>
  BY <1>2, AppendIsConcat
<1>4. Append(queue, id) = queue \o <<id>>
  BY AppendIsConcat
<1>5. QED
  BY <1>1, <1>3, <1>4, ConcatAssociative

LEMMA DisplayAdvances ==
  ASSUME NEW shown \in Ids, NEW queue \in Seq(Ids)
  PROVE  /\ <<shown>> \o queue # << >>
         /\ Tail(<<shown>> \o queue) = queue
         /\ queue # << >> => <<Head(queue)>> \o Tail(queue) = queue
<1> DEFINE all == <<shown>> \o queue
<1>1. <<shown>> \in Seq(Ids) /\ Len(<<shown>>) = 1 /\ Len(queue) \in Nat
  BY LenProperties
<1>2. /\ all \in Seq(Ids) /\ Len(all) = Len(queue) + 1
      /\ \A i \in 1 .. Len(queue) + 1 : all[i] = IF i <= 1 THEN <<shown>>[i] ELSE queue[i - 1]
  <2>1. /\ <<shown>> \o queue \in Seq(Ids)
        /\ Len(<<shown>> \o queue) = Len(<<shown>>) + Len(queue)
        /\ \A i \in 1 .. Len(<<shown>>) + Len(queue) :
             (<<shown>> \o queue)[i] = IF i <= Len(<<shown>>) THEN <<shown>>[i]
                                      ELSE queue[i - Len(<<shown>>)]
    BY <1>1, ConcatProperties
  <2>2. QED
    BY <1>1, <2>1
<1> HIDE DEF all
<1>3. all # << >>
  BY <1>1, <1>2
<1>4. /\ Tail(all) \in Seq(Ids) /\ Len(Tail(all)) = Len(queue)
      /\ \A i \in 1 .. Len(queue) : Tail(all)[i] = all[i + 1]
  BY <1>1, <1>2, <1>3, HeadTailProperties
<1>5. \A i \in 1 .. Len(queue) : Tail(all)[i] = queue[i]
  BY <1>1, <1>2, <1>4
<1>6. Tail(all) = queue
  BY <1>4, <1>5, SeqEqual
<1>7. ASSUME queue # << >> PROVE <<Head(queue)>> \o Tail(queue) = queue
  <2> DEFINE head == <<Head(queue)>>
             tail == Tail(queue)
  <2>1. /\ Head(queue) \in Ids /\ Head(queue) = queue[1]
        /\ tail \in Seq(Ids) /\ Len(tail) = Len(queue) - 1
        /\ \A i \in 1 .. Len(tail) : tail[i] = queue[i + 1]
        /\ Len(queue) # 0
    BY <1>7, HeadTailProperties, EmptySeq
  <2>2. head \in Seq(Ids) /\ Len(head) = 1 /\ head[1] = queue[1]
    BY <2>1
  <2> HIDE DEF head, tail
  <2>3. /\ head \o tail \in Seq(Ids) /\ Len(head \o tail) = Len(queue)
        /\ \A i \in 1 .. Len(queue) :
             (head \o tail)[i] = IF i <= 1 THEN head[i] ELSE tail[i - 1]
    <3>1. head \in Seq(Ids) /\ tail \in Seq(Ids)
      BY <2>1, <2>2
    <3>2. /\ head \o tail \in Seq(Ids)
          /\ Len(head \o tail) = Len(head) + Len(tail)
          /\ \A i \in 1 .. Len(head) + Len(tail) :
               (head \o tail)[i] = IF i <= Len(head) THEN head[i] ELSE tail[i - Len(head)]
      BY <3>1, ConcatProperties
    <3>3. Len(head) + Len(tail) = Len(queue) /\ Len(head) = 1
      BY <1>1, <2>1, <2>2
    <3>4. /\ head \o tail \in Seq(Ids) /\ Len(head \o tail) = Len(queue)
      BY <3>2, <3>3
    <3>5. ASSUME NEW i \in 1 .. Len(queue)
          PROVE  (head \o tail)[i] = IF i <= 1 THEN head[i] ELSE tail[i - 1]
      BY <3>2, <3>3
    <3>6. QED
      BY <3>4, <3>5
  <2>4. \A i \in 1 .. Len(queue) : (head \o tail)[i] = queue[i]
    BY <1>1, <2>1, <2>2, <2>3
  <2>5. head \o tail = queue
    BY <2>3, <2>4, SeqEqual
  <2>6. QED
    BY <2>5 DEF head, tail
<1>8. QED
  BY <1>3, <1>6, <1>7 DEF all

----------------------------------------------------------------------------
\* The lines and the display depend on a few variables only.
LEMMA LinesStay ==
  ASSUME UNCHANGED <<active, pending, onTerminate>>
  PROVE  Lines' = Lines
  BY DEF Lines, Line, InLine

LEMMA DisplayStays ==
  ASSUME UNCHANGED <<intAckPending, servedRequests>>,
         regs'.outRequestId = regs.outRequestId
  PROVE  OnDisplay' = OnDisplay
  BY DEF OnDisplay

LEMMA RequestRefines ==
  ASSUME DeviceInv, NEW s \in Streams, NEW id \in Ids, NEW bits \in DOMAIN DmaOp,
         s = regs.streamId, id = regs.inRequestId, regs.inRequestId # None,
         regs' = [regs EXCEPT !.status = 1],
         UNCHANGED notifyVars,
         \/ /\ active[s]
            /\ pending' = [pending EXCEPT ![s] = Append(@, Asked(bits))]
            /\ UNCHANGED <<active, adapterVars>>
         \/ /\ ~active[s]
            /\ ServeRequest(s, Asked(bits))
            /\ UNCHANGED pending
  PROVE  Service!Request(s, id)
<1>1. OnDisplay' = OnDisplay
  BY DisplayStays DEF notifyVars, Registers
<1>2. s \in Streams /\ Asked(bits) \in Requests /\ Asked(bits).id = id
  BY AskedIsRequest DEF DeviceInv, DeviceTypeOK, Asked
<1>3. ASSUME NEW x \in Streams \ {s} PROVE Line(x)' = Line(x)
  <2>1. active'[x] = active[x]
    BY DEF ServeRequest, DeviceInv, DeviceTypeOK
  <2>2. pending'[x] = pending[x]
    BY DEF DeviceInv, DeviceTypeOK
  <2>3. onTerminate'[x] = onTerminate[x]
    BY DEF ServeRequest, adapterVars, DeviceInv, DeviceTypeOK
  <2>4. QED
    BY <2>1, <2>2, <2>3 DEF Line, InLine
<1>4. Line(s)' = Append(Line(s), id)
  <2>1. CASE active[s]
    <3>1. /\ active'[s] /\ onTerminate'[s] = onTerminate[s]
          /\ pending'[s] = Append(pending[s], Asked(bits))
      BY <1>2, <2>1 DEF adapterVars, DeviceInv, DeviceTypeOK
    <3>2. onTerminate[s] \in Ids /\ pending[s] \in Seq(Requests)
      BY <1>2, <2>1 DEF DeviceInv, DeviceTypeOK, QueuesMatch
    <3>3. Line(s)' = InLine(onTerminate[s], Append(pending[s], Asked(bits)))
      BY <3>1 DEF Line, InLine
    <3>4. Line(s) = InLine(onTerminate[s], pending[s])
      BY <2>1 DEF Line
    <3>5. QED
      BY <1>2, <3>2, <3>3, <3>4, LineGrows
  <2>2. CASE ~active[s]
    <3>1. /\ active'[s] /\ onTerminate'[s] = id /\ pending'[s] = << >>
      BY <1>2, <2>2 DEF ServeRequest, DeviceInv, DeviceTypeOK, QueuesMatch
    <3>2. Line(s)' = InLine(id, << >>)
      BY <3>1 DEF Line, InLine
    <3>3. Line(s) = << >>
      BY <2>2 DEF Line
    <3>4. QED
      BY <3>2, <3>3, LineOfOne
  <2>3. QED
    BY <2>1, <2>2
<1>5. Lines' = [Lines EXCEPT ![s] = Append(@, id)]
  BY <1>2, <1>3, <1>4 DEF Lines
<1>6. QED
  BY <1>1, <1>5 DEF Service!Request

LEMMA PlayingRefines ==
  ASSUME DeviceInv, regs.inRequestId # None, NEW bits \in Controls, PlayStream(bits)
  PROVE  Service!Next \/ UNCHANGED Service!vars
<1>1. ASSUME NEW reason, Fails(reason) PROVE UNCHANGED Service!vars
  BY <1>1, LinesStay, DisplayStays DEF Fails, Service!vars, queueVars, notifyVars, adapterVars
<1>2. CASE Fails("unknown stream") \/ Fails("dma operation")
  BY <1>1, <1>2
<1>3. CASE ~(Fails("unknown stream") \/ Fails("dma operation"))
  <2>1. PICK s \in Streams : s = regs.streamId /\ s \in streams
    BY <1>3 DEF PlayStream, DeviceInv, DeviceTypeOK
  <2>2. PICK id \in Ids : id = regs.inRequestId
    BY DEF DeviceInv, DeviceTypeOK, Registers, Buffers
  <2>3. Service!Request(s, id)
    BY <1>3, <2>1, <2>2, RequestRefines DEF PlayStream
  <2>4. QED
    BY <2>3 DEF Service!Next
<1>4. QED
  BY <1>2, <1>3

LEMMA TerminatingRefines ==
  ASSUME DeviceInv, NEW s \in Streams, StreamTerminated(s)
  PROVE  Service!Complete(s)
<1> DEFINE id == onTerminate[s]
<1>1. /\ active[s] /\ id \in Ids
      /\ pending[s] \in Seq(Requests) /\ servedRequests \in Seq(Ids)
      /\ regs \in Registers
  BY DEF StreamTerminated, ServedRequestHandler, DeviceInv, DeviceTypeOK, QueuesMatch
<1>2. Line(s) = InLine(id, pending[s]) /\ Line(s) # << >> /\ Head(Line(s)) = id
  <2>1. Line(s) = InLine(id, pending[s])
    BY <1>1 DEF Line
  <2>2. CASE pending[s] = << >>
    BY <1>1, <2>1, <2>2, LineOfOne
  <2>3. CASE pending[s] # << >>
    <3>1. /\ InLine(id, pending[s]) \in Seq(Ids)
          /\ Len(InLine(id, pending[s])) = Len(pending[s]) + 1
      BY <1>1, LineIsSeq
    <3>2. Len(pending[s]) \in Nat
      BY <1>1, LenProperties
    <3>3. InLine(id, pending[s]) # << >>
      BY <3>1, <3>2
    <3>4. QED
      BY <1>1, <2>1, <2>3, <3>3, LineAdvances
  <2>4. QED
    BY <2>2, <2>3
<1>3. Line(s)' = Tail(Line(s)) /\ \A x \in Streams \ {s} : Line(x)' = Line(x)
  <2>1. CASE /\ pending[s] # << >>
             /\ ServeRequest(s, Head(pending[s]))
             /\ pending' = [pending EXCEPT ![s] = Tail(@)]
    <3>1. /\ active'[s] /\ onTerminate'[s] = Head(pending[s]).id
          /\ pending'[s] = Tail(pending[s])
      BY <2>1 DEF ServeRequest, DeviceInv, DeviceTypeOK
    <3>2. Line(s)' = InLine(Head(pending[s]).id, Tail(pending[s]))
      BY <3>1 DEF Line, InLine
    <3>3. Tail(Line(s)) = InLine(Head(pending[s]).id, Tail(pending[s]))
      BY <1>1, <1>2, <2>1, LineAdvances
    <3>4. \A x \in Streams \ {s} : Line(x)' = Line(x)
      BY <2>1 DEF ServeRequest, Line, InLine, DeviceInv, DeviceTypeOK
    <3>5. QED
      BY <3>2, <3>3, <3>4
  <2>2. CASE /\ pending[s] = << >>
             /\ active' = [active EXCEPT ![s] = FALSE]
             /\ UNCHANGED <<pending, onTerminate, configured>>
    <3>1. ~active'[s]
      BY <2>2 DEF DeviceInv, DeviceTypeOK
    <3>2. Line(s)' = << >>
      BY <3>1 DEF Line
    <3>3. Tail(Line(s)) = << >>
      BY <1>1, <1>2, <2>2, LineOfOne
    <3>4. \A x \in Streams \ {s} : Line(x)' = Line(x)
      BY <2>2 DEF Line, InLine, DeviceInv, DeviceTypeOK
    <3>5. QED
      BY <3>2, <3>3, <3>4
  <2>3. QED
    BY <2>1, <2>2 DEF StreamTerminated, ServedRequestHandler
<1>4. OnDisplay' = Append(OnDisplay, id)
  <2>1. CASE PublishesAtOnce /\ NotifyServedRequest(id) /\ UNCHANGED servedRequests
    <3>1. OnDisplay = << >> /\ servedRequests' = << >>
      BY <2>1 DEF OnDisplay, PublishesAtOnce
    <3>2. intAckPending' /\ regs'.outRequestId = id
      BY <1>1, <2>1 DEF NotifyServedRequest, Registers
    <3>3. OnDisplay' = <<id>> \o << >>
      BY <3>1, <3>2 DEF OnDisplay
    <3>4. <<id>> \in Seq(Ids)
      BY <1>1
    <3>5. <<id>> \o << >> = <<id>>
      BY <3>4, ConcatEmptySeq
    <3>6. QED
      BY <1>1, <3>1, <3>3, <3>5, LineOfOne
  <2>2. CASE /\ ~PublishesAtOnce
             /\ servedRequests' = Append(servedRequests, id)
             /\ UNCHANGED <<regs, interrupt, intAckPending>>
    <3>1. intAckPending /\ regs.outRequestId \in Ids
      BY <2>2 DEF PublishesAtOnce, DeviceInv, DisplayMatches
    <3>2. /\ OnDisplay = <<regs.outRequestId>> \o servedRequests
          /\ OnDisplay' = <<regs.outRequestId>> \o Append(servedRequests, id)
      BY <2>2, <3>1 DEF OnDisplay
    <3>3. QED
      BY <1>1, <3>1, <3>2, DisplayGrows
  <2>3. QED
    BY <2>1, <2>2 DEF StreamTerminated, ServedRequestHandler
<1>5. Lines[s] = Line(s) /\ Lines' = [Lines EXCEPT ![s] = Tail(@)]
  BY <1>3 DEF Lines
<1>6. QED
  BY <1>2, <1>4, <1>5 DEF Service!Complete

LEMMA AcknowledgingRefines ==
  ASSUME DeviceInv, AckInterrupt
  PROVE  Service!Next \/ UNCHANGED Service!vars
<1>1. Lines' = Lines
  BY LinesStay DEF AckInterrupt, queueVars, adapterVars
<1>2. CASE ~intAckPending
  <2>1. servedRequests = << >> /\ ~intAckPending' /\ OnDisplay = << >>
    BY <1>2 DEF AckInterrupt, OnDisplay, DeviceInv, DisplayMatches
  <2>2. QED
    BY <1>1, <2>1 DEF OnDisplay, Service!vars
<1>3. CASE intAckPending
  <2>1. /\ OnDisplay = <<regs.outRequestId>> \o servedRequests
        /\ regs.outRequestId \in Ids /\ servedRequests \in Seq(Ids)
        /\ regs \in Registers
    BY <1>3 DEF OnDisplay, DeviceInv, DeviceTypeOK, DisplayMatches
  <2>2. OnDisplay # << >> /\ Tail(OnDisplay) = servedRequests
    BY <2>1, DisplayAdvances
  <2>3. OnDisplay' = servedRequests
    <3>1. CASE /\ servedRequests # << >>
               /\ NotifyServedRequest(Head(servedRequests))
               /\ servedRequests' = Tail(servedRequests)
      <4>1. OnDisplay' = <<Head(servedRequests)>> \o Tail(servedRequests)
        BY <2>1, <3>1 DEF NotifyServedRequest, OnDisplay, Registers
      <4>2. QED
        BY <2>1, <3>1, <4>1, DisplayAdvances
    <3>2. CASE servedRequests = << >> /\ intAckPending' = FALSE
      BY <3>2 DEF OnDisplay
    <3>3. QED
      BY <3>1, <3>2 DEF AckInterrupt
  <2>4. Service!Acknowledge
    BY <1>1, <2>2, <2>3 DEF Service!Acknowledge
  <2>5. QED
    BY <2>4 DEF Service!Next
<1>4. QED
  BY <1>2, <1>3

\* The rest of the device is invisible to the play service.
LEMMA OtherStepsStutter ==
  ASSUME DeviceInv,
         \/ DataWrite \/ ResetStatus \/ UniqueStream \/ StreamName
         \/ \E s \in Streams : TrafficEnds(s)
         \/ UNCHANGED deviceVars
  PROVE  UNCHANGED Service!vars
<1> USE DEF queueVars, notifyVars, adapterVars
<1>1. /\ UNCHANGED <<active, pending, onTerminate, intAckPending, servedRequests>>
      /\ regs'.outRequestId = regs.outRequestId
  <2>1. CASE DataWrite \/ ResetStatus
    BY <2>1, WritesRegisters DEF WriteRegisters
  <2>2. CASE UniqueStream
    BY <2>2 DEF UniqueStream, Fails
  <2>3. CASE StreamName
    BY <2>3 DEF StreamName, DeviceInv, DeviceTypeOK, Registers
  <2>4. CASE \E s \in Streams : TrafficEnds(s)
    BY <2>4 DEF TrafficEnds
  <2>5. CASE UNCHANGED deviceVars
    BY <2>5 DEF deviceVars
  <2>6. QED
    BY <2>1, <2>2, <2>3, <2>4, <2>5
<1>2. QED
  BY <1>1, LinesStay, DisplayStays DEF Service!vars

\* Whatever software does with its registers, the device implements the play
\* service: every request is served once and in its stream's order, and is
\* reported once, in the order of completion (servedRequestHandler,
\* intAckHandler and playStreamHandler).
THEOREM DeviceRefinement == DeviceSpec => ImplementsPlayService
<1>1. DeviceInit => Service!Init
  BY DEF DeviceInit, Service!Init, Lines, Line, OnDisplay
<1>2. DeviceInv /\ [DeviceNext]_deviceVars => [Service!Next]_(Service!vars)
  <2> SUFFICES ASSUME DeviceInv, [DeviceNext]_deviceVars
               PROVE  Service!Next \/ UNCHANGED Service!vars
    OBVIOUS
  <2>1. ASSUME regs.inRequestId # None, NEW bits \in Controls, PlayStream(bits)
        PROVE  Service!Next \/ UNCHANGED Service!vars
    BY <2>1, PlayingRefines
  <2>2. CASE AckInterrupt
    BY <2>2, AcknowledgingRefines
  <2>3. ASSUME NEW s \in Streams, StreamTerminated(s) PROVE Service!Next
    BY <2>3, TerminatingRefines DEF Service!Next
  <2>4. QED
    BY <2>1, <2>2, <2>3, OtherStepsStutter DEF DeviceNext
<1>3. QED
  BY <1>1, <1>2, DeviceInvariance, PTL DEF DeviceSpec, ImplementsPlayService, Service!Spec

-----------------------------------------------------------------------------
(* The driver *)

\* The register lock is held by the process that is among the registers, or
\* by the handler while it is.
LockHeld ==
  /\ \A c \in Callers : pc[c] \in LockPcs <=> mmioLock = c
  /\ isr.pc \in {"read", "acknowledge"} <=> mmioLock = "isr"

\* A stream name is read, and STATUS is up, only for a process that polls;
\* the one that opens a stream finds it in STREAM_ID once STATUS is up.
NameAwaited ==
  /\ dmaPending => \E c \in Callers : pc[c] = "poll name"
  /\ regs.status # 0 => \E c \in Callers : pc[c] \in {"poll name", "poll"}
  /\ \A c \in Callers : pc[c] = "poll name" => (dmaPending <=> regs.status = 0)
  /\ \A c \in Callers :
       pc[c] = "read stream" \/ (pc[c] = "poll name" /\ ~dmaPending)
         => regs.streamId \in streams \ known

\* The requests of the list are those of the play calls, on streams that
\* exist, and the registers are as the process about to play left them.
Listed ==
  /\ listed = {c \in Callers : pc[c] \in PlayPcs}
  /\ \A c \in listed : /\ request[c].id \in Ids
                          /\ request[c].stream \in streams
                          /\ request[c].use \in Uses
  /\ \A c \in Callers : pc[c] = "command" => /\ regs.streamId = request[c].stream
                                              /\ regs.inRequestId = request[c].id

\* The handler runs for the request on display until it acknowledges it.
Handled ==
  /\ isr.pc \in {"lock", "read", "acknowledge"} => intAckPending
  /\ isr.pc = "acknowledge" => isr.id = regs.outRequestId
  /\ isr.pc \in {"acknowledge", "look up", "complete", "wake"} => isr.id \in finished

\* What is on display, waits to be or has reached its process is finished.
Reported ==
  /\ intAckPending => regs.outRequestId \in finished
  /\ \A i \in 1 .. Len(servedRequests) : servedRequests[i] \in finished
  /\ ReturnsWhenFinished

\* The driver can end the simulation in one way only.
OneFault == /\ fault \in {"none", "dma operation"}
            /\ "RDWR" \notin Uses => fault = "none"

DriverInv == /\ TypeOK /\ DeviceInv /\ LockHeld /\ NameAwaited
             /\ Listed /\ Handled /\ Reported /\ OneFault

----------------------------------------------------------------------------
\* No two processes are among the registers, nor one and the handler.
LEMMA OneAtTheRegisters ==
  ASSUME LockHeld, NEW c \in Callers, pc[c] \in LockPcs
  PROVE  /\ mmioLock = c
         /\ \A d \in Callers : pc[d] \in LockPcs => d = c
         /\ isr.pc \notin {"read", "acknowledge"}
  BY DriverAssumption DEF LockHeld

\* The registers a process writes, as a data write of any software.
LEMMA ProgrammingWrites ==
  ASSUME TypeOK, DeviceInv, Listed, NEW c \in Callers, Program(c)
  PROVE  DataWrite
<1> DEFINE req == request[c]
           r == [read |-> req.id, write |-> req.id, streamId |-> req.stream,
                 inRequestId |-> req.id]
           fields == (IF Reads(req.use) THEN {"read"} ELSE {})
                       \cup (IF Writes(req.use) THEN {"write"} ELSE {})
                       \cup {"streamId", "inRequestId"}
<1>1. c \in listed
  BY DEF Listed, Program, Go, PlayPcs
<1>2. req.id \in Ids /\ req.stream \in Streams
  BY <1>1 DEF Listed, DeviceInv, DeviceTypeOK
<1>3. r \in [read : Ids, write : Ids, streamId : Streams, inRequestId : Ids]
  BY <1>2
<1>4. fields \in SUBSET DOMAIN r
  OBVIOUS
<1>5. regs = [read |-> regs.read, write |-> regs.write, streamId |-> regs.streamId,
              inRequestId |-> regs.inRequestId, outRequestId |-> regs.outRequestId,
              status |-> regs.status]
  BY DEF DeviceInv, DeviceTypeOK, Registers
<1>6. Programmed(c) = [f \in DOMAIN regs |-> IF f \in fields THEN r[f] ELSE regs[f]]
  <2> DEFINE new == [f \in DOMAIN regs |-> IF f \in fields THEN r[f] ELSE regs[f]]
  <2>1. DOMAIN Programmed(c) = DOMAIN regs /\ DOMAIN new = DOMAIN regs
    BY DEF Programmed
  <2>2. DOMAIN regs = {"read", "write", "streamId", "inRequestId", "outRequestId", "status"}
    BY <1>5
  <2>3. /\ Programmed(c).read = new.read
        /\ Programmed(c).write = new.write
    BY <1>5, <2>2 DEF Programmed
  <2>4. /\ Programmed(c).streamId = new.streamId
        /\ Programmed(c).inRequestId = new.inRequestId
        /\ Programmed(c).outRequestId = new.outRequestId
        /\ Programmed(c).status = new.status
    BY <1>5, <2>2 DEF Programmed
  <2>5. QED
    BY <2>1, <2>2, <2>3, <2>4 DEF Programmed
<1>7. WriteRegisters(Programmed(c))
  BY DEF Program
<1> HIDE DEF r, fields
<1>8. WriteRegisters([f \in DOMAIN regs |-> IF f \in fields THEN r[f] ELSE regs[f]])
  BY <1>6, <1>7
<1>9. QED
  BY <1>3, <1>4, <1>8 DEF DataWrite

\* Every step of the driver's system is a step of the device, or none of it.
LEMMA DriverStepIsDeviceStep ==
  ASSUME DriverInv, [Next]_vars
  PROVE  [DeviceNext]_deviceVars
<1>1. ASSUME NEW c \in Callers, Starts(c) \/ Continues(c) \/ Signal(c)
      PROVE  [DeviceNext]_deviceVars
  <2>1. CASE Starts(c) \/ OpenFails(c) \/ OpenLock(c) \/ OpenDone(c) \/ Map(c)
             \/ PlayLock(c) \/ Wait(c) \/ Put(c) \/ Signal(c)
    BY <2>1 DEF Starts, Open, Play, OpenFails, OpenLock, OpenDone, Map, PlayLock, Wait,
                Put, Signal
  <2>2. CASE OpenCommand(c)
    BY <2>2 DEF OpenCommand, DeviceNext
  <2>3. CASE OpenPoll(c) \/ Poll(c)
    BY <2>3 DEF OpenPoll, Poll, DeviceNext
  <2>4. CASE Program(c)
    BY <2>4, ProgrammingWrites DEF DeviceNext, DriverInv
  <2>5. CASE Command(c)
    <3>1. pc[c] = "command" /\ PlayStream(Control(request[c].use))
      BY <2>5 DEF Command, Go
    <3>2. c \in listed
      BY <3>1 DEF DriverInv, Listed, PlayPcs
    <3>3. regs.inRequestId # None
      BY <3>1, <3>2, NoneAssumption DEF DriverInv, Listed
    <3>4. request[c].use \in Operations
      BY DEF DriverInv, TypeOK
    <3>5. Control(request[c].use) \in Controls
      BY <3>4 DEF Control, Controls, Operations
    <3>6. QED
      BY <3>1, <3>3, <3>5 DEF DeviceNext
  <2>6. QED
    BY <1>1, <2>1, <2>2, <2>3, <2>4, <2>5 DEF Continues
<1>2. CASE Handler
  <2>1. CASE IsrAcknowledge
    BY <2>1 DEF IsrAcknowledge, DeviceNext
  <2>2. CASE ~IsrAcknowledge
    BY <1>2, <2>2 DEF Handler, Interrupt, IsrLock, IsrRead, IsrLookUp, IsrComplete, IsrWake
  <2>3. QED
    BY <2>1, <2>2
<1>3. CASE StreamName \/ \E s \in Streams : Engine(s)
  BY <1>3 DEF DeviceNext, Engine
<1>4. CASE UNCHANGED vars
  BY <1>4 DEF vars
<1>5. QED
  BY <1>1, <1>2, <1>3, <1>4 DEF Next

----------------------------------------------------------------------------
\* Steps of processes outside the registers: only where they are changes.
LEMMA SteppingKeeps ==
  ASSUME DriverInv, NEW c \in Callers,
         NEW from \in {"idle"} \cup OpenPcs \cup PlayPcs,
         NEW to \in {"idle"} \cup OpenPcs \cup PlayPcs, Go(c, from, to),
         from \notin LockPcs, to \notin LockPcs, from \in PlayPcs <=> to \in PlayPcs,
         UNCHANGED <<deviceVars, request, listed, completed, known, mmioLock, isr, nextId, plays>>
  PROVE  DriverInv'
<1>1. /\ pc[c] = from /\ pc' = [pc EXCEPT ![c] = to]
      /\ pc \in [Callers -> {"idle"} \cup OpenPcs \cup PlayPcs]
  BY DEF Go, DriverInv, TypeOK
<1>2. \A d \in Callers : \/ pc'[d] = pc[d]
                         \/ pc'[d] \notin LockPcs /\ pc[d] \notin LockPcs
  BY <1>1
<1>3. \A d \in Callers : pc'[d] \in PlayPcs <=> pc[d] \in PlayPcs
  BY <1>1
<1>4. /\ UNCHANGED <<regs, streams, queueVars, notifyVars, dmaPending, adapterVars,
                      engineVars, fault, finished>>
      /\ UNCHANGED <<request, listed, completed, known, mmioLock, isr, nextId, plays>>
  BY DEF deviceVars
<1>5. DeviceInv'
  BY <1>4 DEF DriverInv, DeviceInv, DeviceTypeOK, QueuesMatch, DisplayMatches, queueVars,
              notifyVars, adapterVars, engineVars
<1>6. TypeOK'
  BY <1>1, <1>4, <1>5 DEF DriverInv, TypeOK, DeviceInv
<1>7. LockHeld'
  BY <1>2, <1>4 DEF DriverInv, LockHeld
<1>8. NameAwaited'
  BY <1>2, <1>4 DEF DriverInv, NameAwaited, LockPcs
<1>9. Listed'
  BY <1>2, <1>3, <1>4 DEF DriverInv, Listed, LockPcs
<1>10. Handled' /\ Reported' /\ OneFault'
  BY <1>4 DEF DriverInv, Handled, Reported, OneFault, ReturnsWhenFinished, notifyVars
<1>11. QED
  BY <1>5, <1>6, <1>7, <1>8, <1>9, <1>10 DEF DriverInv

\* A process takes the register lock.
LEMMA LockingKeeps ==
  ASSUME DriverInv, NEW c \in Callers, OpenLock(c) \/ PlayLock(c)
  PROVE  DriverInv'
<1>1. PICK from \in {"open", "play"}, to \in {"name", "program"} :
        /\ pc[c] = from /\ pc' = [pc EXCEPT ![c] = to]
        /\ from = "play" <=> to = "program"
  BY DEF OpenLock, PlayLock, Go
<1>2. /\ pc \in [Callers -> {"idle"} \cup OpenPcs \cup PlayPcs]
      /\ mmioLock = None /\ mmioLock' = c
  BY DEF OpenLock, PlayLock, Acquire, DriverInv, TypeOK
<1>3. /\ UNCHANGED <<regs, streams, queueVars, notifyVars, dmaPending, adapterVars,
                      engineVars, fault, finished>>
      /\ UNCHANGED <<request, listed, completed, known, isr, nextId, plays>>
  BY DEF OpenLock, PlayLock, deviceVars
<1>4. \A d \in Callers : pc[d] \notin LockPcs
  BY <1>2, DriverAssumption DEF DriverInv, LockHeld
<1>5. \A d \in Callers : d # c => pc'[d] = pc[d]
  BY <1>1, <1>2
<1>6. pc'[c] = to
  BY <1>1, <1>2
<1>7. DeviceInv'
  BY <1>3 DEF DriverInv, DeviceInv, DeviceTypeOK, QueuesMatch, DisplayMatches, queueVars,
              notifyVars, adapterVars, engineVars
<1>8. TypeOK'
  BY <1>1, <1>2, <1>3, <1>7 DEF DriverInv, TypeOK, DeviceInv, OpenPcs, PlayPcs
<1>9. LockHeld'
  BY <1>2, <1>3, <1>4, <1>5, <1>6, DriverAssumption DEF DriverInv, LockHeld, LockPcs
<1>10. NameAwaited'
  BY <1>3, <1>4, <1>5, <1>6 DEF DriverInv, NameAwaited, LockPcs
<1>11. Listed'
  BY <1>1, <1>2, <1>3, <1>5, <1>6 DEF DriverInv, Listed, PlayPcs
<1>12. Handled' /\ Reported' /\ OneFault'
  BY <1>3 DEF DriverInv, Handled, Reported, OneFault, ReturnsWhenFinished, notifyVars
<1>13. QED
  BY <1>7, <1>8, <1>9, <1>10, <1>11, <1>12 DEF DriverInv

----------------------------------------------------------------------------
\* The process at the registers moves on, or leaves them.
LEMMA HolderMoves ==
  ASSUME DriverInv, NEW c \in Callers, NEW from \in LockPcs,
         NEW to \in {"idle"} \cup OpenPcs \cup PlayPcs, Go(c, from, to),
         to \in LockPcs => mmioLock' = mmioLock,
         to \notin LockPcs => mmioLock' = None,
         UNCHANGED isr
  PROVE  /\ mmioLock = c
         /\ pc[c] = from /\ pc'[c] = to
         /\ \A d \in Callers : d # c => pc[d] \notin LockPcs /\ pc'[d] = pc[d]
         /\ isr.pc \notin {"read", "acknowledge"}
         /\ pc' \in [Callers -> {"idle"} \cup OpenPcs \cup PlayPcs]
         /\ mmioLock' \in Callers \cup {"isr", None}
         /\ LockHeld'
<1>1. /\ pc[c] = from /\ pc' = [pc EXCEPT ![c] = to]
      /\ pc \in [Callers -> {"idle"} \cup OpenPcs \cup PlayPcs]
  BY DEF Go, DriverInv, TypeOK
<1>2. mmioLock = c /\ isr.pc \notin {"read", "acknowledge"}
  BY <1>1, OneAtTheRegisters DEF DriverInv
<1>3. \A d \in Callers : d # c => pc[d] \notin LockPcs /\ pc'[d] = pc[d]
  BY <1>1, OneAtTheRegisters DEF DriverInv
<1>4. pc'[c] = to
  BY <1>1
<1>5. LockHeld'
  BY <1>2, <1>3, <1>4, DriverAssumption DEF LockHeld
<1>6. QED
  BY <1>1, <1>2, <1>3, <1>4, <1>5, DriverAssumption

\* The stream is asked for when no other name is being read.
LEMMA OpenCommandKeeps ==
  ASSUME DriverInv, DeviceInv', NEW c \in Callers, OpenCommand(c)
  PROVE  DriverInv'
<1>1. Go(c, "name", "poll name") /\ UNCHANGED <<mmioLock, isr>>
  BY DEF OpenCommand
<1>2. /\ mmioLock = c
      /\ pc[c] = "name" /\ pc'[c] = "poll name"
      /\ \A d \in Callers : d # c => pc[d] \notin LockPcs /\ pc'[d] = pc[d]
      /\ pc' \in [Callers -> {"idle"} \cup OpenPcs \cup PlayPcs]
      /\ LockHeld'
  BY <1>1, HolderMoves DEF LockPcs, OpenPcs
<1>3. ~dmaPending /\ regs.status = 0
  BY <1>2 DEF DriverInv, NameAwaited, LockPcs
<1>4. /\ dmaPending' = TRUE
      /\ UNCHANGED <<regs, streams, queueVars, notifyVars, adapterVars, engineVars,
                      fault, finished, request, listed, completed, known, mmioLock,
                      isr, nextId, plays>>
  BY <1>3 DEF OpenCommand, UniqueStream
<1>5. TypeOK'
  BY <1>2, <1>4 DEF DriverInv, TypeOK, DeviceInv
<1>6. NameAwaited'
  BY <1>2, <1>3, <1>4 DEF NameAwaited, LockPcs
<1>7. Listed'
  BY <1>2, <1>4 DEF DriverInv, Listed, PlayPcs
<1>8. Handled' /\ Reported' /\ OneFault'
  BY <1>4 DEF DriverInv, Handled, Reported, OneFault, ReturnsWhenFinished, notifyVars
<1>9. QED
  BY <1>2, <1>5, <1>6, <1>7, <1>8 DEF DriverInv

\* A process that sees STATUS up takes it down.
LEMMA PollingKeeps ==
  ASSUME DriverInv, DeviceInv', NEW c \in Callers, OpenPoll(c) \/ Poll(c)
  PROVE  DriverInv'
<1>1. PICK from \in {"poll name", "poll"}, to \in {"read stream", "wait"} :
        /\ Go(c, from, to) /\ UNCHANGED isr
        /\ to \in LockPcs => mmioLock' = mmioLock
        /\ to \notin LockPcs => mmioLock' = None
        /\ from = "poll" <=> to = "wait"
  BY DEF OpenPoll, Poll, Release, LockPcs
<1> from \in LockPcs /\ to \in {"idle"} \cup OpenPcs \cup PlayPcs
  BY <1>1 DEF LockPcs, OpenPcs, PlayPcs
<1>2. /\ mmioLock = c
      /\ pc[c] = from /\ pc'[c] = to
      /\ \A d \in Callers : d # c => pc[d] \notin LockPcs /\ pc'[d] = pc[d]
      /\ pc' \in [Callers -> {"idle"} \cup OpenPcs \cup PlayPcs]
      /\ mmioLock' \in Callers \cup {"isr", None}
      /\ LockHeld'
  BY <1>1, HolderMoves
<1>3. /\ regs.status # 0 /\ regs' = [regs EXCEPT !.status = 0]
      /\ UNCHANGED <<streams, dmaPending, queueVars, notifyVars, adapterVars, engineVars,
                      fault, finished, request, listed, completed, known, isr, nextId, plays>>
  BY DEF OpenPoll, Poll, ResetStatus, WriteRegisters
<1>4. regs \in Registers
  BY DEF DriverInv, TypeOK, DeviceTypeOK
<1>5. /\ regs'.status = 0 /\ regs'.streamId = regs.streamId
      /\ regs'.inRequestId = regs.inRequestId /\ regs'.outRequestId = regs.outRequestId
  BY <1>3, <1>4 DEF Registers
<1>6. TypeOK'
  BY <1>2, <1>3 DEF DriverInv, TypeOK, DeviceInv
<1>7. ~dmaPending
  BY <1>1, <1>2, <1>3 DEF DriverInv, NameAwaited, LockPcs
<1>8. NameAwaited'
  <2>1. to = "read stream" => regs.streamId \in streams \ known
    BY <1>1, <1>2, <1>7 DEF DriverInv, NameAwaited
  <2>2. to # "poll name" /\ \A d \in Callers : pc'[d] # "poll name"
    BY <1>1, <1>2 DEF LockPcs
  <2>3. \A d \in Callers : pc'[d] = "read stream" => d = c /\ to = "read stream"
    BY <1>2 DEF LockPcs
  <2>4. ~dmaPending' /\ streams' = streams /\ known' = known
    BY <1>3, <1>7
  <2>5. \A d \in Callers : pc'[d] = "read stream" => regs'.streamId \in streams' \ known'
    BY <1>5, <2>1, <2>3, <2>4
  <2>6. QED
    BY <1>5, <2>2, <2>4, <2>5 DEF NameAwaited
<1>9. Listed'
  <2>1. \A d \in Callers : pc'[d] \in PlayPcs <=> pc[d] \in PlayPcs
    BY <1>1, <1>2 DEF PlayPcs
  <2>2. \A d \in Callers : pc'[d] # "command"
    BY <1>1, <1>2 DEF LockPcs
  <2>3. listed' = {d \in Callers : pc'[d] \in PlayPcs}
    BY <1>3, <2>1 DEF DriverInv, Listed
  <2>4. QED
    BY <1>3, <2>2, <2>3 DEF DriverInv, Listed
<1>10. Handled' /\ Reported' /\ OneFault'
  <2>1. UNCHANGED <<servedRequests, intAckPending, finished, fault, completed, request, isr>>
    BY <1>3 DEF notifyVars
  <2>2. Handled'
    BY <1>5, <2>1 DEF DriverInv, Handled
  <2>3. Reported'
    BY <1>5, <2>1 DEF DriverInv, Reported, ReturnsWhenFinished
  <2>4. QED
    BY <2>1, <2>2, <2>3 DEF DriverInv, OneFault
<1>11. QED
  BY <1>2, <1>6, <1>8, <1>9, <1>10 DEF DriverInv

\* The process takes the stream made for it, or nothing, and leaves.
LEMMA OpenDoneKeeps ==
  ASSUME DriverInv, DeviceInv', NEW c \in Callers, OpenDone(c)
  PROVE  DriverInv'
<1>1. Go(c, "read stream", "idle") /\ UNCHANGED isr /\ mmioLock' = None
  BY DEF OpenDone, Release
<1>2. /\ pc[c] = "read stream" /\ pc'[c] = "idle"
      /\ \A d \in Callers : d # c => pc[d] \notin LockPcs /\ pc'[d] = pc[d]
      /\ pc' \in [Callers -> {"idle"} \cup OpenPcs \cup PlayPcs]
      /\ mmioLock' \in Callers \cup {"isr", None}
      /\ LockHeld'
  BY <1>1, HolderMoves DEF LockPcs, OpenPcs
<1>3. /\ known' \in {known, known \cup {regs.streamId}}
      /\ UNCHANGED <<regs, streams, dmaPending, queueVars, notifyVars, adapterVars,
                      engineVars, fault, finished, request, listed, completed, nextId, plays>>
  BY DEF OpenDone, deviceVars
<1>4. regs.streamId \in streams /\ known \subseteq streams
  BY <1>2 DEF DriverInv, NameAwaited, TypeOK
<1>5. TypeOK'
  BY <1>1, <1>2, <1>3, <1>4 DEF DriverInv, TypeOK, DeviceInv
<1>6. NameAwaited'
  BY <1>2, <1>3 DEF DriverInv, NameAwaited, LockPcs
<1>7. Listed'
  BY <1>2, <1>3 DEF DriverInv, Listed, PlayPcs, LockPcs
<1>8. Handled' /\ Reported' /\ OneFault'
  BY <1>1, <1>3 DEF DriverInv, Handled, Reported, OneFault, ReturnsWhenFinished, notifyVars
<1>9. QED
  BY <1>2, <1>5, <1>6, <1>7, <1>8 DEF DriverInv

\* A play call makes its request.
LEMMA PlayKeeps ==
  ASSUME DriverInv, DeviceInv', NEW c \in Callers, Play(c)
  PROVE  DriverInv'
<1>1. /\ pc[c] = "idle" /\ pc' = [pc EXCEPT ![c] = "map"]
      /\ plays < MaxPlays /\ plays' = plays + 1
      /\ nextId' = Successor(nextId)
      /\ listed' = listed \cup {c}
      /\ UNCHANGED <<regs, streams, dmaPending, queueVars, notifyVars, adapterVars,
                      engineVars, fault, finished, completed, known, mmioLock, isr>>
  BY DEF Play, Go, deviceVars
<1>2. PICK s \in known, use \in Uses :
        request' = [request EXCEPT ![c] = [id |-> nextId, stream |-> s, use |-> use]]
  BY DEF Play
<1>3. /\ pc \in [Callers -> {"idle"} \cup OpenPcs \cup PlayPcs]
      /\ request \in [Callers -> [id : Buffers, stream : Streams \cup {None}, use : Operations]]
      /\ nextId \in Ids /\ s \in streams /\ streams \subseteq Streams /\ use \in Operations
      /\ completed \subseteq listed /\ listed \subseteq Callers
  BY DriverAssumption DEF DriverInv, TypeOK, DeviceTypeOK
<1>4. /\ pc'[c] = "map" /\ \A d \in Callers : d # c => pc'[d] = pc[d] /\ request'[d] = request[d]
      /\ request'[c].id = nextId /\ request'[c].stream = s /\ request'[c].use = use
  BY <1>1, <1>2, <1>3
<1>5. c \notin listed
  BY <1>1 DEF DriverInv, Listed, PlayPcs
<1>6. TypeOK'
  <2>1. Successor(nextId) \in Ids
    BY <1>3, DriverAssumption DEF Successor
  <2>2. plays' \in 0 .. MaxPlays
    BY <1>1, DriverAssumption DEF DriverInv, TypeOK
  <2>3. request' \in [Callers -> [id : Buffers, stream : Streams \cup {None}, use : Operations]]
    BY <1>2, <1>3 DEF Buffers
  <2>4. pc' \in [Callers -> {"idle"} \cup OpenPcs \cup PlayPcs]
    BY <1>1, <1>3 DEF PlayPcs
  <2>5. QED
    BY <1>1, <1>3, <2>1, <2>2, <2>3, <2>4 DEF DriverInv, TypeOK, DeviceInv
<1>7. LockHeld'
  BY <1>1, <1>4 DEF DriverInv, LockHeld, LockPcs
<1>8. NameAwaited'
  BY <1>1, <1>4 DEF DriverInv, NameAwaited
<1>9. Listed'
  <2>1. listed' = {d \in Callers : pc'[d] \in PlayPcs}
    BY <1>1, <1>4 DEF DriverInv, Listed, PlayPcs
  <2>2. \A d \in listed' : /\ request'[d].id \in Ids
                            /\ request'[d].stream \in streams'
                            /\ request'[d].use \in Uses
    BY <1>1, <1>3, <1>4 DEF DriverInv, Listed
  <2>3. QED
    BY <1>1, <1>4, <2>1, <2>2 DEF DriverInv, Listed
<1>10. Handled' /\ OneFault'
  BY <1>1 DEF DriverInv, Handled, OneFault, notifyVars
<1>11. Reported'
  BY <1>1, <1>3, <1>4, <1>5 DEF DriverInv, Reported, ReturnsWhenFinished, notifyVars
<1>12. QED
  BY <1>6, <1>7, <1>8, <1>9, <1>10, <1>11 DEF DriverInv

\* The registers of data belong to the process that holds the lock.
LEMMA ProgramKeeps ==
  ASSUME DriverInv, DeviceInv', NEW c \in Callers, Program(c)
  PROVE  DriverInv'
<1>1. Go(c, "program", "command") /\ UNCHANGED <<mmioLock, isr>>
  BY DEF Program
<1>2. /\ pc[c] = "program" /\ pc'[c] = "command"
      /\ \A d \in Callers : d # c => pc[d] \notin LockPcs /\ pc'[d] = pc[d]
      /\ pc' \in [Callers -> {"idle"} \cup OpenPcs \cup PlayPcs]
      /\ LockHeld'
  BY <1>1, HolderMoves DEF LockPcs, PlayPcs
<1>3. /\ regs' = Programmed(c)
      /\ UNCHANGED <<streams, dmaPending, queueVars, notifyVars, adapterVars, engineVars,
                      fault, finished, request, listed, completed, known, mmioLock, isr,
                      nextId, plays>>
  BY DEF Program, WriteRegisters
<1>4. /\ regs'.status = regs.status /\ regs'.outRequestId = regs.outRequestId
      /\ regs'.streamId = request[c].stream /\ regs'.inRequestId = request[c].id
  BY <1>3 DEF Programmed, DriverInv, TypeOK, DeviceTypeOK, Registers
<1>5. TypeOK'
  BY <1>2, <1>3 DEF DriverInv, TypeOK, DeviceInv
<1>6. ~dmaPending /\ regs.status = 0
  BY <1>2 DEF DriverInv, NameAwaited, LockPcs
<1>7. NameAwaited'
  BY <1>2, <1>3, <1>4, <1>6 DEF NameAwaited, LockPcs
<1>8. Listed'
  <2>1. \A d \in Callers : pc'[d] \in PlayPcs <=> pc[d] \in PlayPcs
    BY <1>2 DEF PlayPcs
  <2>2. \A d \in Callers : pc'[d] = "command" => d = c
    BY <1>2 DEF LockPcs
  <2>3. listed' = {d \in Callers : pc'[d] \in PlayPcs}
    BY <1>3, <2>1 DEF DriverInv, Listed
  <2>4. QED
    BY <1>3, <1>4, <2>2, <2>3 DEF DriverInv, Listed
<1>9. Handled' /\ OneFault'
  BY <1>3, <1>4 DEF DriverInv, Handled, OneFault, notifyVars
<1>10. Reported'
  BY <1>3, <1>4 DEF DriverInv, Reported, ReturnsWhenFinished, notifyVars
<1>11. QED
  BY <1>2, <1>5, <1>7, <1>8, <1>9, <1>10 DEF DriverInv

\* The stream exists; only a play in both directions can be refused.
LEMMA CommandKeeps ==
  ASSUME DriverInv, DeviceInv', NEW c \in Callers, Command(c)
  PROVE  DriverInv'
<1> DEFINE bits == Control(request[c].use)
<1>1. Go(c, "command", "poll") /\ UNCHANGED <<mmioLock, isr>>
  BY DEF Command
<1>2. /\ pc[c] = "command" /\ pc'[c] = "poll"
      /\ \A d \in Callers : d # c => pc[d] \notin LockPcs /\ pc'[d] = pc[d]
      /\ pc' \in [Callers -> {"idle"} \cup OpenPcs \cup PlayPcs]
      /\ LockHeld'
  BY <1>1, HolderMoves DEF LockPcs, PlayPcs
<1>3. c \in listed
  BY <1>2 DEF DriverInv, Listed, PlayPcs
<1>4. regs.streamId \in streams
  BY <1>2, <1>3 DEF DriverInv, Listed
<1>5. /\ regs'.streamId = regs.streamId /\ regs'.inRequestId = regs.inRequestId
      /\ regs'.outRequestId = regs.outRequestId
      /\ UNCHANGED <<streams, dmaPending, notifyVars, engineVars, finished, request, listed,
                      completed, known, mmioLock, isr, nextId, plays>>
      /\ fault = "none"
      /\ \/ bits \in DOMAIN DmaOp /\ fault' = "none"
         \/ bits \notin DOMAIN DmaOp /\ fault' = "dma operation"
  <2>1. PlayStream(bits) /\ regs \in Registers
    BY DEF Command, DriverInv, TypeOK, DeviceTypeOK
  <2>2. UNCHANGED <<request, listed, completed, known, mmioLock, isr, nextId, plays>>
    BY DEF Command
  <2>3. CASE bits \notin DOMAIN DmaOp /\ Fails("dma operation")
    BY <2>1, <2>2, <2>3 DEF Fails, PlayStream
  <2>4. CASE bits \in DOMAIN DmaOp
    BY <1>4, <2>1, <2>2, <2>4 DEF PlayStream, Registers
  <2>5. QED
    BY <1>4, <2>1, <2>3, <2>4 DEF PlayStream
<1>6. TypeOK'
  BY <1>2, <1>5 DEF DriverInv, TypeOK, DeviceInv
<1>7. ~dmaPending
  BY <1>2 DEF DriverInv, NameAwaited, LockPcs
<1>8. NameAwaited'
  BY <1>2, <1>5, <1>7 DEF NameAwaited, LockPcs
<1>9. Listed'
  BY <1>2, <1>5 DEF DriverInv, Listed, PlayPcs, LockPcs
<1>10. Handled'
  BY <1>5 DEF DriverInv, Handled, notifyVars
<1>11. Reported'
  BY <1>5 DEF DriverInv, Reported, ReturnsWhenFinished, notifyVars
<1>12. OneFault'
  <2>1. request[c].use \in Uses /\ Uses \subseteq Operations
    BY <1>3, DriverAssumption DEF DriverInv, Listed
  <2>2. "RDWR" \notin Uses => bits \in {0, 1}
    BY <2>1 DEF Control, Operations
  <2>3. {0, 1} \subseteq DOMAIN DmaOp
    BY DEF DmaOp
  <2>4. QED
    BY <1>5, <2>2, <2>3 DEF OneFault
<1>13. QED
  BY <1>2, <1>6, <1>8, <1>9, <1>10, <1>11, <1>12 DEF DriverInv

\* The request is freed.
LEMMA PutKeeps ==
  ASSUME DriverInv, DeviceInv', NEW c \in Callers, Put(c)
  PROVE  DriverInv'
<1>1. /\ pc[c] = "put" /\ pc' = [pc EXCEPT ![c] = "idle"]
      /\ listed' = listed \ {c} /\ completed' = completed \ {c}
      /\ UNCHANGED <<regs, streams, dmaPending, queueVars, notifyVars, adapterVars,
                      engineVars, fault, finished, request, known, mmioLock, isr,
                      nextId, plays>>
  BY DEF Put, Go, deviceVars
<1>2. pc \in [Callers -> {"idle"} \cup OpenPcs \cup PlayPcs]
  BY DEF DriverInv, TypeOK
<1>3. pc'[c] = "idle" /\ \A d \in Callers : d # c => pc'[d] = pc[d]
  BY <1>1, <1>2
<1>4. TypeOK'
  BY <1>1, <1>2 DEF DriverInv, TypeOK, DeviceInv
<1>5. LockHeld'
  BY <1>1, <1>3 DEF DriverInv, LockHeld, LockPcs
<1>6. NameAwaited'
  BY <1>1, <1>3 DEF DriverInv, NameAwaited
<1>7. Listed'
  BY <1>1, <1>3 DEF DriverInv, Listed, PlayPcs
<1>8. Handled' /\ OneFault'
  BY <1>1 DEF DriverInv, Handled, OneFault, notifyVars
<1>9. Reported'
  BY <1>1 DEF DriverInv, Reported, ReturnsWhenFinished, notifyVars
<1>10. QED
  BY <1>4, <1>5, <1>6, <1>7, <1>8, <1>9 DEF DriverInv

----------------------------------------------------------------------------
\* The handler enters, takes the lock, and reads the request on display.
LEMMA EnteringKeeps ==
  ASSUME DriverInv, DeviceInv', (\E cpu \in Cpus : Interrupt(cpu)) \/ IsrLock \/ IsrRead
  PROVE  DriverInv'
<1>1. /\ UNCHANGED <<regs, streams, dmaPending, queueVars, notifyVars, adapterVars,
                      engineVars, fault, finished>>
      /\ UNCHANGED <<pc, request, listed, completed, known, nextId, plays>>
  BY DEF Interrupt, IsrLock, IsrRead, deviceVars
<1>2. isr \in [pc : IsrPcs, cpu : Cpus \cup {None}, id : Buffers, found : Callers \cup {None}]
  BY DEF DriverInv, TypeOK
<1>3. /\ intAckPending \in BOOLEAN /\ interrupt = intAckPending
      /\ intAckPending => regs.outRequestId \in Ids /\ regs.outRequestId \in finished
  BY DEF DriverInv, DeviceInv, DeviceTypeOK, DisplayMatches, Reported
<1>4. CASE \E cpu \in Cpus : Interrupt(cpu)
  <2>1. PICK cpu \in Cpus : Interrupt(cpu)
    BY <1>4
  <2>2. /\ isr.pc = "idle" /\ isr' = [isr EXCEPT !.pc = "lock", !.cpu = cpu]
        /\ intAckPending /\ UNCHANGED mmioLock
    BY <1>3, <2>1 DEF Interrupt
  <2>3. isr'.pc = "lock" /\ isr' \in [pc : IsrPcs, cpu : Cpus \cup {None}, id : Buffers,
                                       found : Callers \cup {None}]
    BY <1>2, <2>2 DEF IsrPcs
  <2>4. TypeOK'
    BY <1>1, <2>2, <2>3 DEF DriverInv, TypeOK, DeviceInv
  <2>5. LockHeld'
    BY <1>1, <2>2, <2>3 DEF DriverInv, LockHeld
  <2>6. Handled'
    BY <1>1, <2>2, <2>3 DEF Handled, notifyVars
  <2>7. QED
    BY <1>1, <2>4, <2>5, <2>6 DEF DriverInv, NameAwaited, Listed, Reported,
                                  ReturnsWhenFinished, OneFault, notifyVars
<1>5. CASE IsrLock
  <2>1. /\ isr.pc = "lock" /\ isr' = [isr EXCEPT !.pc = "read"]
        /\ mmioLock = None /\ mmioLock' = "isr"
    BY <1>5 DEF IsrLock, IsrGo
  <2>2. isr'.pc = "read" /\ isr' \in [pc : IsrPcs, cpu : Cpus \cup {None}, id : Buffers,
                                       found : Callers \cup {None}]
    BY <1>2, <2>1 DEF IsrPcs
  <2>3. TypeOK'
    BY <1>1, <2>1, <2>2 DEF DriverInv, TypeOK, DeviceInv
  <2>4. LockHeld'
    BY <1>1, <2>1, <2>2, DriverAssumption DEF DriverInv, LockHeld
  <2>5. Handled'
    BY <1>1, <2>1, <2>2 DEF DriverInv, Handled, notifyVars
  <2>6. QED
    BY <1>1, <2>3, <2>4, <2>5 DEF DriverInv, NameAwaited, Listed, Reported,
                                  ReturnsWhenFinished, OneFault, notifyVars
<1>6. CASE IsrRead
  <2>1. /\ isr.pc = "read" /\ UNCHANGED mmioLock
        /\ isr' = [isr EXCEPT !.pc = "acknowledge", !.id = regs.outRequestId]
    BY <1>6 DEF IsrRead
  <2>2. intAckPending
    BY <2>1 DEF DriverInv, Handled
  <2>3. /\ isr'.pc = "acknowledge" /\ isr'.id = regs.outRequestId
        /\ isr' \in [pc : IsrPcs, cpu : Cpus \cup {None}, id : Buffers,
                      found : Callers \cup {None}]
    BY <1>2, <1>3, <2>1, <2>2 DEF IsrPcs, Buffers
  <2>4. TypeOK'
    BY <1>1, <2>1, <2>3 DEF DriverInv, TypeOK, DeviceInv
  <2>5. LockHeld'
    BY <1>1, <2>1, <2>3 DEF DriverInv, LockHeld
  <2>6. Handled'
    BY <1>1, <1>3, <2>2, <2>3 DEF Handled, notifyVars
  <2>7. QED
    BY <1>1, <2>4, <2>5, <2>6 DEF DriverInv, NameAwaited, Listed, Reported,
                                  ReturnsWhenFinished, OneFault, notifyVars
<1>7. QED
  BY <1>4, <1>5, <1>6

\* The handler acknowledges the request it has read, and leaves the registers.
LEMMA IsrAcknowledgeKeeps ==
  ASSUME DriverInv, DeviceInv', IsrAcknowledge
  PROVE  DriverInv'
<1>1. /\ isr.pc = "acknowledge" /\ isr' = [isr EXCEPT !.pc = "look up"]
      /\ mmioLock' = None /\ AckInterrupt
      /\ UNCHANGED <<pc, request, listed, completed, known, nextId, plays>>
  BY DEF IsrAcknowledge, IsrGo, Release
<1>2. /\ isr \in [pc : IsrPcs, cpu : Cpus \cup {None}, id : Buffers, found : Callers \cup {None}]
      /\ regs \in Registers /\ servedRequests \in Seq(Ids)
  BY DEF DriverInv, TypeOK, DeviceTypeOK
<1>3. /\ isr'.pc = "look up" /\ isr'.id = isr.id
      /\ isr' \in [pc : IsrPcs, cpu : Cpus \cup {None}, id : Buffers, found : Callers \cup {None}]
  BY <1>1, <1>2 DEF IsrPcs
<1>4. /\ regs'.streamId = regs.streamId /\ regs'.inRequestId = regs.inRequestId
      /\ regs'.status = regs.status
      /\ UNCHANGED <<streams, dmaPending, fault, finished>>
  BY <1>1, <1>2 DEF AckInterrupt, NotifyServedRequest, Registers
<1>5. TypeOK'
  BY <1>1, <1>3, <1>4 DEF DriverInv, TypeOK, DeviceInv
<1>6. LockHeld'
  BY <1>1, <1>3, DriverAssumption DEF DriverInv, LockHeld
<1>7. NameAwaited'
  BY <1>1, <1>4 DEF DriverInv, NameAwaited
<1>8. Listed' /\ OneFault'
  BY <1>1, <1>4 DEF DriverInv, Listed, OneFault
<1>9. Handled'
  BY <1>1, <1>3, <1>4 DEF DriverInv, Handled
<1>10. Reported'
  <2>1. CASE servedRequests # << >>
    <3>1. /\ Head(servedRequests) = servedRequests[1] /\ 1 \in 1 .. Len(servedRequests)
          /\ Len(Tail(servedRequests)) = Len(servedRequests) - 1
          /\ \A i \in 1 .. Len(Tail(servedRequests)) :
               /\ Tail(servedRequests)[i] = servedRequests[i + 1]
               /\ i + 1 \in 1 .. Len(servedRequests)
      BY <1>2, <2>1
    <3>2. /\ regs'.outRequestId = Head(servedRequests)
          /\ servedRequests' = Tail(servedRequests)
      BY <1>1, <1>2, <2>1 DEF AckInterrupt, NotifyServedRequest, Registers
    <3>3. QED
      BY <1>1, <1>4, <3>1, <3>2 DEF DriverInv, Reported, ReturnsWhenFinished
  <2>2. CASE servedRequests = << >>
    <3>1. intAckPending' = FALSE /\ servedRequests' = servedRequests
      BY <1>1, <2>2 DEF AckInterrupt
    <3>2. QED
      BY <1>1, <1>4, <3>1 DEF DriverInv, Reported, ReturnsWhenFinished
  <2>3. QED
    BY <2>1, <2>2
<1>11. QED
  BY <1>5, <1>6, <1>7, <1>8, <1>9, <1>10 DEF DriverInv

\* The handler finds the request, marks it and wakes its process.
LEMMA CompletingKeeps ==
  ASSUME DriverInv, DeviceInv', IsrLookUp \/ IsrComplete \/ IsrWake
  PROVE  DriverInv'
<1>1. /\ UNCHANGED <<regs, streams, dmaPending, queueVars, notifyVars, adapterVars,
                      engineVars, fault, finished>>
      /\ UNCHANGED <<request, listed, known, mmioLock, nextId, plays>>
  BY DEF IsrLookUp, IsrComplete, IsrWake, deviceVars
<1>2. /\ isr \in [pc : IsrPcs, cpu : Cpus \cup {None}, id : Buffers, found : Callers \cup {None}]
      /\ listed \subseteq Callers /\ completed \subseteq listed
      /\ pc \in [Callers -> {"idle"} \cup OpenPcs \cup PlayPcs]
  BY DEF DriverInv, TypeOK
<1>3. /\ isr.pc \in {"look up", "complete", "wake"}
      /\ isr'.pc \in {"complete", "wake", "idle"} /\ isr'.id = isr.id
      /\ isr' \in [pc : IsrPcs, cpu : Cpus \cup {None}, id : Buffers, found : Callers \cup {None}]
  <2>1. CASE IsrLookUp
    BY <1>2, <2>1 DEF IsrLookUp, Owners, IsrPcs
  <2>2. CASE IsrComplete \/ IsrWake
    BY <1>2, <2>2 DEF IsrComplete, IsrWake, IsrGo, IsrPcs
  <2>3. QED
    BY <2>1, <2>2
<1>4. isr.id \in finished
  BY <1>3 DEF DriverInv, Handled
<1>5. \/ completed' = completed
      \/ StillThere /\ completed' = completed \cup {isr.found}
  BY DEF IsrLookUp, IsrComplete, IsrWake
<1>6. StillThere => isr.found \in listed /\ request[isr.found].id = isr.id
  BY DEF StillThere, Owners
<1>7. /\ pc' \in [Callers -> {"idle"} \cup OpenPcs \cup PlayPcs]
      /\ \A d \in Callers : \/ pc'[d] = pc[d]
                            \/ pc[d] = "asleep" /\ pc'[d] = "wait"
  <2>1. CASE UNCHANGED pc
    BY <1>2, <2>1
  <2>2. CASE IsrWake /\ StillThere /\ pc[isr.found] = "asleep"
    <3>1. pc' = [pc EXCEPT ![isr.found] = "wait"] /\ isr.found \in Callers
      BY <1>2, <1>6, <2>2 DEF IsrWake
    <3>2. "wait" \in PlayPcs
      BY DEF PlayPcs
    <3>3. QED
      BY <1>2, <2>2, <3>1, <3>2
  <2>3. QED
    BY <2>1, <2>2 DEF IsrLookUp, IsrComplete, IsrWake
<1>8. TypeOK'
  BY <1>1, <1>2, <1>3, <1>5, <1>6, <1>7 DEF DriverInv, TypeOK, DeviceInv
<1>9. LockHeld'
  BY <1>1, <1>3, <1>7 DEF DriverInv, LockHeld, LockPcs
<1>10. NameAwaited'
  BY <1>1, <1>7 DEF DriverInv, NameAwaited
<1>11. Listed'
  <2>1. \A d \in Callers : pc'[d] \in PlayPcs <=> pc[d] \in PlayPcs
    BY <1>7 DEF PlayPcs
  <2>2. \A d \in Callers : pc'[d] = "command" => pc[d] = "command"
    BY <1>7
  <2>3. QED
    BY <1>1, <2>1, <2>2 DEF DriverInv, Listed
<1>12. Handled' /\ OneFault'
  BY <1>1, <1>3, <1>4 DEF DriverInv, Handled, OneFault, notifyVars
<1>13. Reported'
  BY <1>1, <1>4, <1>5, <1>6 DEF DriverInv, Reported, ReturnsWhenFinished, notifyVars
<1>14. QED
  BY <1>8, <1>9, <1>10, <1>11, <1>12, <1>13 DEF DriverInv

----------------------------------------------------------------------------
\* The name of a stream arrives for the process that polls.
LEMMA StreamNameKeeps ==
  ASSUME DriverInv, DeviceInv', StreamName, UNCHANGED driverVars
  PROVE  DriverInv'
<1> DEFINE s == CHOOSE new \in Streams \ streams : TRUE
<1>1. /\ dmaPending /\ dmaPending' = FALSE
      /\ streams' = streams \cup {s}
      /\ regs' = [regs EXCEPT !.streamId = s, !.status = 1]
      /\ UNCHANGED <<queueVars, notifyVars, adapterVars, engineVars, fault, finished>>
      /\ UNCHANGED <<pc, request, listed, completed, known, mmioLock, isr, nextId, plays>>
  BY DEF StreamName, driverVars
<1>2. streams \subseteq Streams /\ known \subseteq streams /\ regs \in Registers
  BY DEF DriverInv, TypeOK, DeviceTypeOK
<1>3. s \in Streams \ streams
  BY <1>2 DEF StreamName
<1>4. /\ regs'.streamId = s /\ regs'.status = 1
      /\ regs'.outRequestId = regs.outRequestId
  BY <1>1, <1>2 DEF Registers
<1>5. PICK c \in Callers : pc[c] = "poll name"
  BY <1>1 DEF DriverInv, NameAwaited
<1>6. \A d \in Callers : pc[d] \in LockPcs => d = c
  BY <1>5, OneAtTheRegisters DEF DriverInv, LockPcs
<1>7. TypeOK'
  BY <1>1, <1>2 DEF DriverInv, TypeOK, DeviceInv
<1>8. LockHeld'
  BY <1>1 DEF DriverInv, LockHeld
<1>9. NameAwaited'
  <2>1. s \in streams' \ known'
    BY <1>1, <1>2, <1>3
  <2>2. \A d \in Callers : pc'[d] # "read stream"
    BY <1>1, <1>5, <1>6 DEF LockPcs
  <2>3. regs'.status # 0
    BY <1>4
  <2>4. QED
    BY <1>1, <1>4, <1>5, <2>1, <2>2, <2>3 DEF NameAwaited
<1>10. Listed'
  BY <1>1, <1>5, <1>6 DEF DriverInv, Listed, LockPcs
<1>11. Handled' /\ OneFault'
  BY <1>1, <1>4 DEF DriverInv, Handled, OneFault, notifyVars
<1>12. Reported'
  BY <1>1, <1>4 DEF DriverInv, Reported, ReturnsWhenFinished, notifyVars
<1>13. QED
  BY <1>7, <1>8, <1>9, <1>10, <1>11, <1>12 DEF DriverInv

\* A stream's traffic ends, and its request is reported or waits to be.
LEMMA EngineKeeps ==
  ASSUME DriverInv, DeviceInv', NEW s \in Streams, Engine(s), UNCHANGED driverVars
  PROVE  DriverInv'
<1> DEFINE id == onTerminate[s]
<1>1. UNCHANGED <<pc, request, listed, completed, known, mmioLock, isr, nextId, plays>>
  BY DEF driverVars
<1>2. regs \in Registers /\ servedRequests \in Seq(Ids)
  BY DEF DriverInv, TypeOK, DeviceTypeOK
<1>3. /\ UNCHANGED <<streams, dmaPending, fault>>
      /\ regs'.streamId = regs.streamId /\ regs'.inRequestId = regs.inRequestId
      /\ regs'.status = regs.status
      /\ finished \subseteq finished'
  BY <1>2 DEF Engine, TrafficEnds, StreamTerminated, ServedRequestHandler,
              NotifyServedRequest, Registers
<1>4. \/ UNCHANGED <<intAckPending, servedRequests>> /\ regs'.outRequestId = regs.outRequestId
      \/ /\ ~intAckPending /\ id \in finished'
         /\ regs'.outRequestId = id /\ UNCHANGED servedRequests
      \/ /\ id \in finished' /\ servedRequests' = Append(servedRequests, id)
         /\ UNCHANGED intAckPending /\ regs'.outRequestId = regs.outRequestId
  <2>1. CASE TrafficEnds(s)
    BY <2>1 DEF TrafficEnds, notifyVars
  <2>2. CASE StreamTerminated(s)
    BY <1>2, <2>2 DEF StreamTerminated, ServedRequestHandler, NotifyServedRequest,
                      PublishesAtOnce, Registers
  <2>3. QED
    BY <2>1, <2>2 DEF Engine
<1>5. intAckPending => intAckPending' /\ regs'.outRequestId = regs.outRequestId
  BY <1>4
<1>6. TypeOK'
  BY <1>1, <1>3 DEF DriverInv, TypeOK, DeviceInv
<1>7. LockHeld'
  BY <1>1 DEF DriverInv, LockHeld
<1>8. NameAwaited'
  BY <1>1, <1>3 DEF DriverInv, NameAwaited
<1>9. Listed' /\ OneFault'
  BY <1>1, <1>3 DEF DriverInv, Listed, OneFault
<1>10. Handled'
  BY <1>1, <1>3, <1>5 DEF DriverInv, Handled
<1>11. Reported'
  <2>1. intAckPending' => regs'.outRequestId \in finished'
    BY <1>3, <1>4 DEF DriverInv, Reported
  <2>2. \A i \in 1 .. Len(servedRequests') : servedRequests'[i] \in finished'
    <3>1. CASE UNCHANGED servedRequests
      BY <1>3, <3>1 DEF DriverInv, Reported
    <3>2. CASE servedRequests' = Append(servedRequests, id) /\ id \in finished'
      BY <1>2, <1>3, <3>2, AppendProperties DEF DriverInv, Reported
    <3>3. QED
      BY <1>4, <3>1, <3>2
  <2>3. ReturnsWhenFinished'
    BY <1>1, <1>3 DEF DriverInv, Reported, ReturnsWhenFinished
  <2>4. QED
    BY <2>1, <2>2, <2>3 DEF Reported
<1>12. QED
  BY <1>6, <1>7, <1>8, <1>9, <1>10, <1>11 DEF DriverInv

----------------------------------------------------------------------------
LEMMA DriverStarts == Init => DriverInv
<1> SUFFICES ASSUME Init PROVE DriverInv
  OBVIOUS
<1>1. DeviceInv
  BY DeviceStarts DEF Init
<1>2. TypeOK
  <2>1. /\ pc \in [Callers -> {"idle"} \cup OpenPcs \cup PlayPcs]
        /\ request \in [Callers -> [id : Buffers, stream : Streams \cup {None}, use : Operations]]
        /\ isr \in [pc : IsrPcs, cpu : Cpus \cup {None}, id : Buffers, found : Callers \cup {None}]
    BY DEF Init, Buffers, Operations, IsrPcs
  <2>2. nextId \in Ids /\ plays \in 0 .. MaxPlays
    BY DriverAssumption DEF Init
  <2>3. QED
    BY <1>1, <2>1, <2>2 DEF Init, TypeOK, DeviceInv
<1>3. LockHeld
  BY DriverAssumption DEF Init, LockHeld, LockPcs
<1>4. NameAwaited
  BY DEF Init, DeviceInit, NameAwaited
<1>5. Listed
  BY DEF Init, Listed, PlayPcs
<1>6. Handled /\ OneFault
  BY DEF Init, DeviceInit, Handled, OneFault
<1>7. Reported
  BY DEF Init, DeviceInit, Reported, ReturnsWhenFinished
<1>8. QED
  BY <1>1, <1>2, <1>3, <1>4, <1>5, <1>6, <1>7 DEF DriverInv

LEMMA DriverStepKeeps == DriverInv /\ [Next]_vars => DriverInv'
<1> SUFFICES ASSUME DriverInv, [Next]_vars PROVE DriverInv'
  OBVIOUS
<1>1. DeviceInv'
  BY DriverStepIsDeviceStep, DeviceStepKeeps DEF DriverInv
<1>2. ASSUME NEW c \in Callers, Starts(c) \/ Continues(c) \/ Signal(c)
      PROVE  DriverInv'
  <2>1. CASE Open(c) \/ OpenFails(c)
    BY <2>1, SteppingKeeps DEF Open, OpenFails, OpenPcs, PlayPcs, LockPcs
  <2>2. CASE Map(c) \/ Wait(c)
    BY <2>2, SteppingKeeps DEF Map, Wait, PlayPcs, LockPcs
  <2>3. CASE Signal(c)
    <3>1. CASE c \in completed
      BY <2>3, <3>1, SteppingKeeps DEF Signal, PlayPcs, LockPcs
    <3>2. CASE c \notin completed
      BY <2>3, <3>2, SteppingKeeps DEF Signal, PlayPcs, LockPcs
    <3>3. QED
      BY <3>1, <3>2
  <2>4. CASE OpenLock(c) \/ PlayLock(c)
    BY <2>4, LockingKeeps
  <2>5. CASE OpenCommand(c)
    BY <1>1, <2>5, OpenCommandKeeps
  <2>6. CASE OpenPoll(c) \/ Poll(c)
    BY <1>1, <2>6, PollingKeeps
  <2>7. CASE OpenDone(c)
    BY <1>1, <2>7, OpenDoneKeeps
  <2>8. CASE Play(c)
    BY <1>1, <2>8, PlayKeeps
  <2>9. CASE Program(c)
    BY <1>1, <2>9, ProgramKeeps
  <2>10. CASE Command(c)
    BY <1>1, <2>10, CommandKeeps
  <2>11. CASE Put(c)
    BY <1>1, <2>11, PutKeeps
  <2>12. QED
    BY <1>2, <2>1, <2>2, <2>3, <2>4, <2>5, <2>6, <2>7, <2>8, <2>9, <2>10, <2>11
       DEF Starts, Continues
<1>3. CASE Handler
  BY <1>1, <1>3, EnteringKeeps, IsrAcknowledgeKeeps, CompletingKeeps DEF Handler
<1>4. CASE StreamName /\ UNCHANGED driverVars
  BY <1>1, <1>4, StreamNameKeeps
<1>5. ASSUME NEW s \in Streams, Engine(s), UNCHANGED driverVars
      PROVE  DriverInv'
  BY <1>1, <1>5, EngineKeeps
<1>6. CASE UNCHANGED vars
  <2>1. /\ UNCHANGED <<regs, streams, dmaPending, queueVars, notifyVars, fault, finished>>
        /\ UNCHANGED <<pc, request, listed, completed, known, mmioLock, isr, nextId, plays>>
    BY <1>6 DEF vars, deviceVars, driverVars
  <2>2. TypeOK'
    BY <1>1, <2>1 DEF DriverInv, TypeOK, DeviceInv
  <2>3. LockHeld' /\ NameAwaited' /\ Listed'
    BY <2>1 DEF DriverInv, LockHeld, NameAwaited, Listed
  <2>4. Handled' /\ Reported' /\ OneFault'
    BY <2>1 DEF DriverInv, Handled, Reported, OneFault, ReturnsWhenFinished, notifyVars
  <2>5. QED
    BY <1>1, <2>2, <2>3, <2>4 DEF DriverInv
<1>7. QED
  BY <1>2, <1>3, <1>4, <1>5, <1>6 DEF Next

----------------------------------------------------------------------------
\* Identifiers count the requests made, and wrap once at most.
Issued == {id \in Ids : id \in 1 .. plays \/ (plays = IdSpace /\ id = 0)}

Numbered ==
  /\ nextId = IF plays + 1 < IdSpace THEN plays + 1 ELSE plays + 1 - IdSpace
  /\ \A c \in listed : request[c].id \in Issued
  /\ \A c, d \in listed : request[c].id = request[d].id => c = d
  /\ \A s \in Streams : /\ active[s] => onTerminate[s] \in Issued
                        /\ \A i \in DOMAIN pending[s] : pending[s][i].id \in Issued

\* The buffers of the process about to play are in the registers.
Ready ==
  \A c \in Callers : pc[c] = "command" =>
    /\ Reads(request[c].use) => regs.read = request[c].id
    /\ Writes(request[c].use) => regs.write = request[c].id

UntornInv == Numbered /\ Ready /\ RequestsUntorn

\* A new identifier is not one that is in use.
LEMMA FreshIdentifier ==
  ASSUME TypeOK, Numbered, plays < MaxPlays
  PROVE  /\ nextId \notin Issued
         /\ plays \in Nat /\ plays < IdSpace
  BY DriverAssumption DEF TypeOK, Numbered, Issued

\* Steps that touch no request and no queue.
LEMMA UntornStays ==
  ASSUME TypeOK, UntornInv,
         UNCHANGED <<plays, nextId, listed, request, active, pending, onTerminate, configured>>,
         \A c \in Callers : pc'[c] = "command" =>
            pc[c] = "command" /\ regs'.read = regs.read /\ regs'.write = regs.write
  PROVE  UntornInv'
<1>1. Numbered'
  BY DEF UntornInv, Numbered, Issued
<1>2. Ready'
  BY DEF UntornInv, Ready
<1>3. RequestsUntorn'
  BY DEF UntornInv, RequestsUntorn
<1>4. QED
  BY <1>1, <1>2, <1>3 DEF UntornInv

LEMMA UntornPlay ==
  ASSUME DriverInv, UntornInv, NEW c \in Callers, Play(c)
  PROVE  UntornInv'
<1>1. /\ pc[c] = "idle" /\ pc' = [pc EXCEPT ![c] = "map"]
      /\ plays < MaxPlays /\ plays' = plays + 1
      /\ nextId' = Successor(nextId)
      /\ listed' = listed \cup {c}
      /\ UNCHANGED <<regs, streams, active, pending, onTerminate, configured>>
  BY DEF Play, Go, deviceVars, queueVars, adapterVars
<1>2. PICK s \in known, use \in Uses :
        request' = [request EXCEPT ![c] = [id |-> nextId, stream |-> s, use |-> use]]
  BY DEF Play
<1>3. /\ pc \in [Callers -> {"idle"} \cup OpenPcs \cup PlayPcs]
      /\ request \in [Callers -> [id : Buffers, stream : Streams \cup {None}, use : Operations]]
      /\ nextId \in Ids /\ listed \subseteq Callers
  BY DEF DriverInv, TypeOK
<1>4. /\ \A d \in Callers : d # c => pc'[d] = pc[d] /\ request'[d] = request[d]
      /\ pc'[c] = "map" /\ request'[c].id = nextId
  BY <1>1, <1>2, <1>3
<1>5. c \notin listed
  BY <1>1 DEF DriverInv, Listed, PlayPcs
<1>6. nextId \notin Issued /\ plays \in Nat /\ plays < IdSpace
  BY <1>1, FreshIdentifier DEF DriverInv, UntornInv
<1>7. Issued \subseteq Issued' /\ nextId \in Issued'
  <2>1. IdSpace \in Nat \ {0, 1}
    BY DriverAssumption
  <2>2. nextId = IF plays + 1 < IdSpace THEN plays + 1 ELSE plays + 1 - IdSpace
    BY DEF UntornInv, Numbered
  <2>3. \A id \in Ids : id \in 1 .. plays => id \in 1 .. plays'
    BY <1>1, <1>6
  <2>4. plays # IdSpace
    BY <1>6, <2>1
  <2>5. nextId \in 1 .. plays' \/ (plays' = IdSpace /\ nextId = 0)
    BY <1>1, <1>6, <2>1, <2>2
  <2>6. QED
    BY <1>3, <2>3, <2>4, <2>5 DEF Issued
<1>8. Numbered'
  <2>1. nextId' = IF plays' + 1 < IdSpace THEN plays' + 1 ELSE plays' + 1 - IdSpace
    <3>1. IdSpace \in Nat \ {0, 1} /\ nextId \in 0 .. IdSpace - 1
      BY <1>3, DriverAssumption
    <3>2. nextId = IF plays + 1 < IdSpace THEN plays + 1 ELSE plays + 1 - IdSpace
      BY DEF UntornInv, Numbered
    <3>3. nextId + 1 < IdSpace => (nextId + 1) % IdSpace = nextId + 1
      BY <3>1
    <3>4. nextId + 1 = IdSpace => (nextId + 1) % IdSpace = 0
      BY <3>1
    <3>5. QED
      BY <1>1, <1>6, <3>1, <3>2, <3>3, <3>4 DEF Successor
  <2>2. \A d \in listed' : request'[d].id \in Issued'
    BY <1>1, <1>3, <1>4, <1>7 DEF UntornInv, Numbered
  <2>3. \A d, e \in listed' : request'[d].id = request'[e].id => d = e
    BY <1>1, <1>3, <1>4, <1>5, <1>6 DEF UntornInv, Numbered
  <2>4. \A s2 \in Streams : /\ active'[s2] => onTerminate'[s2] \in Issued'
                            /\ \A i \in DOMAIN pending'[s2] : pending'[s2][i].id \in Issued'
    BY <1>1, <1>7 DEF UntornInv, Numbered
  <2>5. QED
    BY <2>1, <2>2, <2>3, <2>4 DEF Numbered
<1>9. Ready'
  BY <1>1, <1>4 DEF UntornInv, Ready
<1>10. RequestsUntorn'
  BY <1>1, <1>3, <1>4, <1>6 DEF UntornInv, Numbered, RequestsUntorn
<1>11. QED
  BY <1>8, <1>9, <1>10 DEF UntornInv

LEMMA UntornProgram ==
  ASSUME DriverInv, UntornInv, NEW c \in Callers, Program(c)
  PROVE  UntornInv'
<1>1. Go(c, "program", "command") /\ UNCHANGED <<mmioLock, isr>>
  BY DEF Program
<1>2. /\ pc'[c] = "command"
      /\ \A d \in Callers : d # c => pc[d] \notin LockPcs /\ pc'[d] = pc[d]
  BY <1>1, HolderMoves DEF LockPcs, PlayPcs
<1>3. /\ regs' = Programmed(c)
      /\ UNCHANGED <<active, pending, onTerminate, configured, request, listed, nextId, plays>>
  BY DEF Program, WriteRegisters, queueVars, adapterVars
<1>4. /\ Reads(request[c].use) => regs'.read = request[c].id
      /\ Writes(request[c].use) => regs'.write = request[c].id
  BY <1>3 DEF Programmed, DriverInv, TypeOK, DeviceTypeOK, Registers
<1>5. Numbered'
  BY <1>3 DEF UntornInv, Numbered, Issued
<1>6. Ready'
  BY <1>2, <1>3, <1>4 DEF Ready, LockPcs
<1>7. RequestsUntorn'
  BY <1>3 DEF UntornInv, RequestsUntorn
<1>8. QED
  BY <1>5, <1>6, <1>7 DEF UntornInv

\* What the device is asked is what the process wants.
LEMMA UntornCommand ==
  ASSUME DriverInv, UntornInv, NEW c \in Callers, Command(c)
  PROVE  UntornInv'
<1> DEFINE r == request[c]
           bits == Control(r.use)
           req == Asked(bits)
           s == regs.streamId
<1>1. Go(c, "command", "poll") /\ UNCHANGED <<mmioLock, isr>>
  BY DEF Command
<1>2. /\ pc[c] = "command" /\ pc'[c] = "poll"
      /\ \A d \in Callers : d # c => pc[d] \notin LockPcs /\ pc'[d] = pc[d]
  BY <1>1, HolderMoves DEF LockPcs, PlayPcs
<1>3. \A d \in Callers : pc'[d] # "command"
  BY <1>2 DEF LockPcs
<1>4. c \in listed /\ s = r.stream /\ regs.inRequestId = r.id /\ s \in streams
  BY <1>2 DEF DriverInv, Listed, PlayPcs
<1>5. /\ PlayStream(bits)
      /\ UNCHANGED <<request, listed, nextId, plays>>
  BY DEF Command
<1>6. /\ streams \subseteq Streams
      /\ pending \in [Streams -> Seq(Requests)] /\ active \in [Streams -> BOOLEAN]
      /\ onTerminate \in [Streams -> Buffers]
      /\ configured \in [Streams -> [READ : Buffers, WRITE : Buffers]]
      /\ r.use \in Operations /\ listed \subseteq Callers
  BY DEF DriverInv, TypeOK, DeviceTypeOK
<1>7. CASE bits \notin DOMAIN DmaOp
  <2>1. UNCHANGED <<active, pending, onTerminate, configured>>
    BY <1>4, <1>5, <1>7 DEF PlayStream, Fails, queueVars, adapterVars
  <2>2. QED
    BY <1>3, <1>5, <2>1, UntornStays DEF DriverInv
<1>8. CASE bits \in DOMAIN DmaOp
  <2>1. DmaOp[bits] = r.use
    BY <1>6, <1>8 DEF Control, DmaOp, Operations
  <2>2. /\ req.id = r.id /\ req.dmaOp = r.use
        /\ Reads(r.use) => req.read = r.id
        /\ Writes(r.use) => req.write = r.id
    BY <1>2, <1>4, <2>1 DEF Asked, UntornInv, Ready
  <2>3. r.id \in Issued
    BY <1>4 DEF UntornInv, Numbered
  <2>4. Issued' = Issued
    BY <1>5 DEF Issued
  <2>5. \A d \in listed : request[d].id = r.id => d = c
    BY <1>4 DEF UntornInv, Numbered
  <2>6. Ready'
    BY <1>3 DEF Ready
  <2>7. CASE active[s]
    <3>1. /\ pending' = [pending EXCEPT ![s] = Append(@, req)]
          /\ UNCHANGED <<active, onTerminate, configured>>
      BY <1>4, <1>5, <1>8, <2>7 DEF PlayStream, Fails, adapterVars
    <3>2. /\ \A t \in Streams \ {s} : pending'[t] = pending[t]
          /\ \A i \in DOMAIN pending'[s] : \/ i \in DOMAIN pending[s] /\ pending'[s][i] = pending[s][i]
                                           \/ pending'[s][i] = req
      BY <1>4, <1>6, <3>1, AppendProperties
    <3>3. Numbered'
      BY <1>5, <2>2, <2>3, <2>4, <3>1, <3>2 DEF UntornInv, Numbered
    <3>4. RequestsUntorn'
      BY <1>4, <1>5, <2>2, <2>5, <3>1, <3>2 DEF UntornInv, RequestsUntorn
    <3>5. QED
      BY <2>6, <3>3, <3>4 DEF UntornInv
  <2>8. CASE ~active[s]
    <3>1. ServeRequest(s, req) /\ UNCHANGED pending
      BY <1>4, <1>5, <1>8, <2>8 DEF PlayStream, Fails
    <3>2. /\ \A t \in Streams \ {s} : /\ active'[t] = active[t]
                                      /\ onTerminate'[t] = onTerminate[t]
                                      /\ configured'[t] = configured[t]
          /\ onTerminate'[s] = r.id
          /\ configured'[s] = ConfigureDmaOp(configured[s], req)
      BY <1>4, <1>6, <2>2, <3>1 DEF ServeRequest
    <3>3. /\ Reads(r.use) => configured'[s].READ = r.id
          /\ Writes(r.use) => configured'[s].WRITE = r.id
      BY <2>2, <3>2 DEF ConfigureDmaOp, Reads, Writes
    <3>4. Numbered'
      BY <1>5, <2>3, <2>4, <3>1, <3>2 DEF UntornInv, Numbered
    <3>5. RequestsUntorn'
      BY <1>4, <1>5, <2>5, <3>1, <3>2, <3>3 DEF UntornInv, RequestsUntorn
    <3>6. QED
      BY <2>6, <3>4, <3>5 DEF UntornInv
  <2>9. QED
    BY <2>7, <2>8
<1>9. QED
  BY <1>7, <1>8

LEMMA UntornPut ==
  ASSUME DriverInv, UntornInv, NEW c \in Callers, Put(c)
  PROVE  UntornInv'
<1>1. /\ listed' \subseteq listed
      /\ pc[c] = "put" /\ pc' = [pc EXCEPT ![c] = "idle"]
      /\ UNCHANGED <<regs, active, pending, onTerminate, configured, request, nextId, plays>>
  BY DEF Put, Go, deviceVars, queueVars, adapterVars
<1>2. \A d \in Callers : pc'[d] = "command" => pc[d] = "command"
  BY <1>1 DEF DriverInv, TypeOK
<1>3. Numbered'
  BY <1>1 DEF UntornInv, Numbered, Issued
<1>4. Ready'
  BY <1>1, <1>2 DEF UntornInv, Ready
<1>5. RequestsUntorn'
  BY <1>1 DEF UntornInv, RequestsUntorn
<1>6. QED
  BY <1>3, <1>4, <1>5 DEF UntornInv

\* The next request of a stream is served as it was queued.
LEMMA UntornTerminated ==
  ASSUME DriverInv, UntornInv, NEW s \in Streams, StreamTerminated(s), UNCHANGED driverVars
  PROVE  UntornInv'
<1>1. /\ pending \in [Streams -> Seq(Requests)] /\ active \in [Streams -> BOOLEAN]
      /\ onTerminate \in [Streams -> Buffers]
      /\ configured \in [Streams -> [READ : Buffers, WRITE : Buffers]]
      /\ regs \in Registers /\ listed \subseteq Callers
  BY DEF DriverInv, TypeOK, DeviceTypeOK
<1>2. UNCHANGED <<pc, request, listed, nextId, plays>>
  BY DEF driverVars
<1>3. regs'.read = regs.read /\ regs'.write = regs.write
  BY <1>1 DEF StreamTerminated, ServedRequestHandler, NotifyServedRequest, Registers
<1>4. Ready'
  BY <1>2, <1>3 DEF UntornInv, Ready
<1>5. Issued' = Issued
  BY <1>2 DEF Issued
<1>6. CASE pending[s] = << >>
  <2>1. /\ active' = [active EXCEPT ![s] = FALSE]
        /\ UNCHANGED <<pending, onTerminate, configured>>
    BY <1>6 DEF StreamTerminated, ServedRequestHandler
  <2>2. \A t \in Streams : active'[t] => active[t]
    BY <1>1, <2>1
  <2>3. Numbered'
    BY <1>2, <1>5, <2>1, <2>2 DEF UntornInv, Numbered
  <2>4. RequestsUntorn'
    BY <1>2, <2>1, <2>2 DEF UntornInv, RequestsUntorn
  <2>5. QED
    BY <1>4, <2>3, <2>4 DEF UntornInv
<1>7. CASE pending[s] # << >>
  <2> DEFINE req == pending[s][1]
  <2>1. /\ Head(pending[s]) = req /\ 1 \in DOMAIN pending[s]
        /\ \A i \in DOMAIN Tail(pending[s]) : /\ i + 1 \in DOMAIN pending[s]
                                              /\ Tail(pending[s])[i] = pending[s][i + 1]
    BY <1>1, <1>7
  <2>2. /\ ServeRequest(s, req)
        /\ pending' = [pending EXCEPT ![s] = Tail(@)]
    BY <1>7, <2>1 DEF StreamTerminated, ServedRequestHandler
  <2>3. /\ \A t \in Streams \ {s} : /\ active'[t] = active[t]
                                    /\ onTerminate'[t] = onTerminate[t]
                                    /\ configured'[t] = configured[t]
                                    /\ pending'[t] = pending[t]
        /\ onTerminate'[s] = req.id
        /\ configured'[s] = ConfigureDmaOp(configured[s], req)
        /\ pending'[s] = Tail(pending[s])
    BY <1>1, <2>2 DEF ServeRequest
  <2>4. /\ req.dmaOp \in {"READ", "RDWR"} => configured'[s].READ = req.read
        /\ req.dmaOp \in {"WRITE", "RDWR"} => configured'[s].WRITE = req.write
    BY <2>3 DEF ConfigureDmaOp
  <2>5. Numbered'
    <3>1. req.id \in Issued
      BY <2>1 DEF UntornInv, Numbered
    <3>2. \A i \in DOMAIN pending'[s] : pending'[s][i].id \in Issued
      BY <2>1, <2>3 DEF UntornInv, Numbered
    <3>3. \A t \in Streams \ {s} :
             /\ active'[t] => onTerminate'[t] \in Issued
             /\ \A i \in DOMAIN pending'[t] : pending'[t][i].id \in Issued
      BY <2>3 DEF UntornInv, Numbered
    <3>4. \A t \in Streams :
             /\ active'[t] => onTerminate'[t] \in Issued
             /\ \A i \in DOMAIN pending'[t] : pending'[t][i].id \in Issued
      BY <2>3, <3>1, <3>2, <3>3
    <3>5. QED
      BY <1>2, <1>5, <3>4 DEF UntornInv, Numbered
  <2>6. \A c \in listed : req.id = request[c].id =>
           /\ s = request[c].stream /\ req.dmaOp = request[c].use
           /\ Reads(request[c].use) => configured'[s].READ = request[c].id
           /\ Writes(request[c].use) => configured'[s].WRITE = request[c].id
    BY <2>1, <2>4 DEF UntornInv, RequestsUntorn, Reads, Writes
  <2>7. RequestsUntorn'
    <3>1. \A i \in DOMAIN pending'[s] : \E j \in DOMAIN pending[s] : pending'[s][i] = pending[s][j]
      BY <2>1, <2>3
    <3>2. \A c \in listed, i \in DOMAIN pending'[s] : pending'[s][i].id = request[c].id =>
             /\ s = request[c].stream /\ pending'[s][i].dmaOp = request[c].use
             /\ Reads(request[c].use) => pending'[s][i].read = request[c].id
             /\ Writes(request[c].use) => pending'[s][i].write = request[c].id
      BY <3>1 DEF UntornInv, RequestsUntorn
    <3>3. \A c \in listed, t \in Streams \ {s} :
             LET r == request[c] IN
             /\ \A i \in DOMAIN pending'[t] :
                  pending'[t][i].id = r.id =>
                    /\ t = r.stream /\ pending'[t][i].dmaOp = r.use
                    /\ Reads(r.use) => pending'[t][i].read = r.id
                    /\ Writes(r.use) => pending'[t][i].write = r.id
             /\ active'[t] /\ onTerminate'[t] = r.id =>
                    /\ t = r.stream
                    /\ Reads(r.use) => configured'[t].READ = r.id
                    /\ Writes(r.use) => configured'[t].WRITE = r.id
      BY <2>3 DEF UntornInv, RequestsUntorn
    <3>4. \A c \in listed :
             LET r == request[c] IN
             active'[s] /\ onTerminate'[s] = r.id =>
               /\ s = r.stream
               /\ Reads(r.use) => configured'[s].READ = r.id
               /\ Writes(r.use) => configured'[s].WRITE = r.id
      BY <2>3, <2>6
    <3>5. QED
      BY <1>2, <3>2, <3>3, <3>4 DEF RequestsUntorn
  <2>8. QED
    BY <1>4, <2>5, <2>7 DEF UntornInv
<1>8. QED
  BY <1>6, <1>7

LEMMA UntornStep == DriverInv /\ UntornInv /\ [Next]_vars => UntornInv'
<1> SUFFICES ASSUME DriverInv, UntornInv, [Next]_vars PROVE UntornInv'
  OBVIOUS
<1> DEFINE Still == UNCHANGED <<plays, nextId, listed, request, active, pending, onTerminate, configured>>
           NoneReady == \A c \in Callers : pc'[c] = "command" =>
                          pc[c] = "command" /\ regs'.read = regs.read /\ regs'.write = regs.write
<1>1. /\ TypeOK /\ regs \in Registers
      /\ pc \in [Callers -> {"idle"} \cup OpenPcs \cup PlayPcs]
  BY DEF DriverInv, TypeOK, DeviceTypeOK
<1>2. ASSUME NEW c \in Callers, Starts(c) \/ Continues(c) \/ Signal(c)
      PROVE  UntornInv'
  <2>1. CASE Play(c)
    BY <2>1, UntornPlay
  <2>2. CASE Program(c)
    BY <2>2, UntornProgram
  <2>3. CASE Command(c)
    BY <2>3, UntornCommand
  <2>4. CASE Put(c)
    BY <2>4, UntornPut
  <2>5. CASE Open(c) \/ OpenFails(c) \/ OpenLock(c) \/ Map(c) \/ PlayLock(c) \/ Wait(c)
             \/ Signal(c) \/ OpenDone(c)
    <3>1. Still /\ UNCHANGED regs
      BY <2>5 DEF Open, OpenFails, OpenLock, Map, PlayLock, Wait, Signal, OpenDone,
                  deviceVars, queueVars, adapterVars
    <3>2. PICK to \in {"idle", "open", "name", "play", "put", "program", "wait", "asleep"} :
            pc' = [pc EXCEPT ![c] = to]
      BY <2>5 DEF Open, OpenFails, OpenLock, Map, PlayLock, Wait, Signal, OpenDone, Go
    <3>3. NoneReady
      BY <1>1, <3>1, <3>2
    <3>4. QED
      BY <1>1, <3>1, <3>3, UntornStays
  <2>6. CASE OpenCommand(c)
    <3>1. ~dmaPending
      <4>1. pc[c] = "name"
        BY <2>6 DEF OpenCommand, Go
      <4>2. \A d \in Callers : pc[d] \in LockPcs => d = c
        BY <4>1, OneAtTheRegisters DEF DriverInv, LockPcs
      <4>3. QED
        BY <4>1, <4>2 DEF DriverInv, NameAwaited, LockPcs
    <3>2. Still /\ UNCHANGED regs
      BY <2>6, <3>1 DEF OpenCommand, UniqueStream, queueVars, adapterVars
    <3>3. NoneReady
      BY <1>1, <2>6, <3>2 DEF OpenCommand, Go
    <3>4. QED
      BY <1>1, <3>2, <3>3, UntornStays
  <2>7. CASE OpenPoll(c) \/ Poll(c)
    <3>1. Still /\ regs'.read = regs.read /\ regs'.write = regs.write
      BY <1>1, <2>7 DEF OpenPoll, Poll, ResetStatus, WriteRegisters, Registers, queueVars,
                        adapterVars
    <3>2. NoneReady
      BY <1>1, <2>7, <3>1 DEF OpenPoll, Poll, Go
    <3>3. QED
      BY <1>1, <3>1, <3>2, UntornStays
  <2>8. QED
    BY <1>2, <2>1, <2>2, <2>3, <2>4, <2>5, <2>6, <2>7 DEF Starts, Continues
<1>3. CASE Handler
  <2>1. Still
    BY <1>3 DEF Handler, Interrupt, IsrLock, IsrRead, IsrAcknowledge, AckInterrupt, IsrLookUp,
                IsrComplete, IsrWake, deviceVars, queueVars, adapterVars
  <2>2. \A c \in Callers : pc'[c] = "command" => pc[c] = "command"
    BY <1>1, <1>3 DEF Handler, Interrupt, IsrLock, IsrRead, IsrAcknowledge, IsrLookUp,
                      IsrComplete, IsrWake
  <2>3. regs'.read = regs.read /\ regs'.write = regs.write
    BY <1>1, <1>3 DEF Handler, Interrupt, IsrLock, IsrRead, IsrAcknowledge, AckInterrupt,
                NotifyServedRequest, IsrLookUp, IsrComplete, IsrWake, deviceVars, Registers
  <2>4. QED
    BY <1>1, <2>1, <2>2, <2>3, UntornStays
<1>4. CASE StreamName /\ UNCHANGED driverVars
  <2>1. Still /\ UNCHANGED pc /\ regs'.read = regs.read /\ regs'.write = regs.write
    BY <1>1, <1>4 DEF StreamName, driverVars, queueVars, adapterVars, Registers
  <2>2. QED
    BY <1>1, <2>1, UntornStays
<1>5. ASSUME NEW s \in Streams, Engine(s), UNCHANGED driverVars
      PROVE  UntornInv'
  <2>1. CASE TrafficEnds(s)
    <3>1. Still /\ UNCHANGED <<pc, regs>>
      BY <1>5, <2>1 DEF TrafficEnds, driverVars, queueVars, adapterVars
    <3>2. QED
      BY <1>1, <3>1, UntornStays
  <2>2. CASE StreamTerminated(s)
    BY <1>5, <2>2, UntornTerminated
  <2>3. QED
    BY <1>5, <2>1, <2>2 DEF Engine
<1>6. CASE UNCHANGED vars
  <2>1. Still /\ UNCHANGED <<pc, regs>>
    BY <1>6 DEF vars, deviceVars, driverVars, queueVars, adapterVars
  <2>2. QED
    BY <1>1, <2>1, UntornStays
<1>7. QED
  BY <1>2, <1>3, <1>4, <1>5, <1>6 DEF Next

(***************************************************************************)
(* Theorems.                                                               *)
(***************************************************************************)

\* The strengthened invariant holds of every reachable state.
THEOREM DriverInvariance == Spec => []DriverInv
  BY DriverStarts, DriverStepKeeps, PTL DEF Spec

\* The driver's state keeps its shape, its identifiers those of the register.
THEOREM DriverTypeCorrect == Spec => []TypeOK
<1>1. DriverInv => TypeOK
  BY DEF DriverInv
<1>2. QED
  BY <1>1, DriverInvariance, PTL

\* The driver is a program of the device: all it does to the device is what
\* some software may do, so that what holds of the device holds under it.
THEOREM DriverUsesDevice == Spec => DeviceSpec
<1>1. Init => DeviceInit
  BY DEF Init
<1>2. DriverInv /\ [Next]_vars => [DeviceNext]_deviceVars
  BY DriverStepIsDeviceStep
<1>3. QED
  BY <1>1, <1>2, DriverInvariance, PTL DEF Spec, DeviceSpec

\* In particular the device and its driver implement the play service.
THEOREM DriverImplementsPlayService == Spec => ImplementsPlayService
  BY DriverUsesDevice, DeviceRefinement, PTL

\* As long as every play is in one direction, no order of calls, interrupts
\* and terminations ends the simulation.
THEOREM AlwaysNoFault == ASSUME "RDWR" \notin Uses PROVE Spec => []NoFault
<1>1. DriverInv => NoFault
  BY DEF DriverInv, OneFault, NoFault
<1>2. QED
  BY <1>1, DriverInvariance, PTL

\* A process that opens a stream reads the identifier of its own.
THEOREM AlwaysOpensItsOwn == Spec => []OpensItsOwn
<1>1. DriverInv => OpensItsOwn
  BY DEF DriverInv, NameAwaited, OpensItsOwn
<1>2. QED
  BY <1>1, DriverInvariance, PTL

\* The interrupt handler acknowledges no request it has not read.
THEOREM AlwaysAcknowledgesWhatItRead == Spec => []AcknowledgesWhatItRead
<1>1. DriverInv => AcknowledgesWhatItRead
  BY DEF DriverInv, Handled, AcknowledgesWhatItRead
<1>2. QED
  BY <1>1, DriverInvariance, PTL

\* A request is marked completed only when the device has finished it.
THEOREM AlwaysReturnsWhenFinished == Spec => []ReturnsWhenFinished
<1>1. DriverInv => ReturnsWhenFinished
  BY DEF DriverInv, Reported
<1>2. QED
  BY <1>1, DriverInvariance, PTL

\* Whoever asks is answered for what he asked.
THEOREM AlwaysOwnAnswers == Spec => []OwnAnswers
  BY AlwaysOpensItsOwn, AlwaysAcknowledgesWhatItRead, AlwaysReturnsWhenFinished, PTL
  DEF OwnAnswers

\* No request takes the stream, the direction or the buffer of another.
THEOREM AlwaysRequestsUntorn == Spec => []RequestsUntorn
<1>1. Init => UntornInv
  <2> SUFFICES ASSUME Init PROVE UntornInv
    OBVIOUS
  <2>1. plays = 0 /\ nextId = 1 /\ listed = {} /\ IdSpace \in Nat \ {0, 1}
    BY DriverAssumption DEF Init
  <2>2. Numbered
    BY <2>1 DEF Init, DeviceInit, Numbered
  <2>3. Ready /\ RequestsUntorn
    BY <2>1 DEF Init, Ready, RequestsUntorn
  <2>4. QED
    BY <2>2, <2>3 DEF UntornInv
<1>2. UntornInv => RequestsUntorn
  BY DEF UntornInv
<1>3. QED
  BY <1>1, <1>2, UntornStep, DriverInvariance, PTL DEF Spec
=============================================================================
