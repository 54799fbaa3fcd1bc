----------------------------- MODULE AtpDriver -----------------------------
(***************************************************************************)
(* The Linux driver of the ATP device (src/linux/atp_device.c) on top of   *)
(* the device: processes in the ioctls that instantiate and play streams,  *)
(* and the interrupt handler, on several processors.                       *)
(*                                                                         *)
(* Each play request is the property of one process, so it is a record of  *)
(* that process. The list lock is held for a few statements that touch no  *)
(* other lock and no device: such a section is one step. The register lock *)
(* is held across register accesses, and is a variable.                    *)
(***************************************************************************)
EXTENDS AtpDevice, FiniteSets

CONSTANTS Callers,    \* the processes
          Cpus,       \* the processors
          CpuOf,      \* where each process runs
          IdSpace,    \* request identifiers are 0 .. IdSpace - 1
          MaxPlays,   \* bound: play requests of a behaviour
          MaxCalls,   \* bound: calls that open a stream or play one
          Uses        \* the operations processes ask for

ASSUME DriverAssumption ==
  /\ CpuOf \in [Callers -> Cpus]
  /\ IdSpace \in Nat \ {0, 1} /\ Ids = 0 .. IdSpace - 1
  /\ MaxPlays \in 0 .. IdSpace /\ MaxCalls \in Nat
  /\ Uses \subseteq Operations
  /\ None \notin Callers \cup {"isr"} /\ "isr" \notin Callers

VARIABLES
  pc,          \* where each process is
  request,     \* its request
  listed,      \* processes whose request is in play_requests
  completed,   \* processes whose request is marked completed
  known,       \* streams a process has been told of
  mmioLock,    \* who holds mmio_lock
  isr,         \* the interrupt handler
  nextId,      \* next_play_request_id
  plays        \* history: requests made, bounded by MaxPlays

driverVars == <<pc, request, listed, completed, known, mmioLock, isr, nextId, plays>>
vars == <<deviceVars, driverVars>>

OpenPcs  == {"open", "name", "poll name", "read stream"}
PlayPcs  == {"map", "play", "program", "command", "poll", "wait", "asleep", "put"}
LockPcs  == {"name", "poll name", "read stream", "program", "command", "poll"}
IsrPcs   == {"idle", "lock", "read", "acknowledge", "look up", "complete", "wake"}

TypeOK ==
  /\ DeviceTypeOK
  /\ pc \in [Callers -> {"idle"} \cup OpenPcs \cup PlayPcs]
  /\ request \in [Callers -> [id : Buffers, stream : Streams \cup {None}, use : Operations]]
  /\ listed \subseteq Callers /\ completed \subseteq listed
  /\ known \subseteq streams
  /\ mmioLock \in Callers \cup {"isr", None}
  /\ isr \in [pc : IsrPcs, cpu : Cpus \cup {None}, id : Buffers, found : Callers \cup {None}]
  /\ nextId \in Ids
  /\ plays \in 0 .. MaxPlays

Init ==
  /\ DeviceInit
  /\ pc = [c \in Callers |-> "idle"]
  /\ request \in [Callers -> [id : {None}, stream : {None}, use : {"READ"}]]
  /\ listed = {} /\ completed = {} /\ known = {}
  /\ mmioLock = None
  /\ isr = [pc |-> "idle", cpu |-> None, id |-> None, found |-> None]
  /\ nextId = 1 /\ plays = 0

----------------------------------------------------------------------------
\* (mutant) the lock is taken with interrupts enabled.
IrqsOffNever(cpu) == FALSE

\* spin_lock_irqsave keeps its processor: neither an interrupt nor another
\* process runs there until the lock is released.
IrqsOff(cpu) == \E c \in Callers : mmioLock = c /\ CpuOf[c] = cpu

\* A process runs unless its processor is in the interrupt handler, or is
\* kept by another process.
Runs(c) == /\ ~(isr.pc # "idle" /\ isr.cpu = CpuOf[c])
           /\ mmioLock = c \/ ~IrqsOff(CpuOf[c])

Go(c, from, to) == /\ pc[c] = from /\ Runs(c)
                   /\ pc' = [pc EXCEPT ![c] = to]

\* (mutant) the lock is entered whoever holds it.
AcquireAnyway(c) == mmioLock' = c

Acquire(c) == mmioLock = None /\ mmioLock' = c
Release    == mmioLock' = None

----------------------------------------------------------------------------
\* ioctl(ATP_UNIQUE_STREAM), at most once for every member of Streams.
Opening == Cardinality({c \in Callers : pc[c] \in {"open", "name", "poll name"}})
Room    == plays + Cardinality(streams) + Opening < MaxCalls

Open(c) ==
  /\ Go(c, "idle", "open")
  /\ Opening < Cardinality(Streams \ streams) /\ Room
  /\ UNCHANGED <<deviceVars, request, listed, completed, known, mmioLock, isr, nextId, plays>>

\* The name cannot be mapped for the device.
OpenFails(c) ==
  /\ Go(c, "open", "idle")
  /\ UNCHANGED <<deviceVars, request, listed, completed, known, mmioLock, isr, nextId, plays>>

OpenLock(c) ==
  /\ Go(c, "open", "name")
  /\ Acquire(c)
  /\ UNCHANGED <<deviceVars, request, listed, completed, known, isr, nextId, plays>>

OpenCommand(c) ==
  /\ Go(c, "name", "poll name")
  /\ UniqueStream
  /\ UNCHANGED <<request, listed, completed, known, mmioLock, isr, nextId, plays>>

OpenPoll(c) ==
  /\ Go(c, "poll name", "read stream")
  /\ regs.status # 0
  /\ ResetStatus
  /\ UNCHANGED <<request, listed, completed, known, mmioLock, isr, nextId, plays>>

\* The answer may not reach the process.
OpenDone(c) ==
  /\ Go(c, "read stream", "idle")
  /\ known' \in {known, known \cup {regs.streamId}}
  /\ Release
  /\ UNCHANGED <<deviceVars, request, listed, completed, isr, nextId, plays>>

----------------------------------------------------------------------------
\* (mutant) a counter wider than the register.
SuccessorWide(id) == id + 1

\* ioctl(ATP_PLAY_STREAM). next_play_request_id is unsigned: it wraps.
Successor(id) == (id + 1) % IdSpace

Play(c) ==
  /\ Go(c, "idle", "map")
  /\ plays < MaxPlays /\ Room
  /\ \E s \in known, use \in Uses :
       request' = [request EXCEPT ![c] = [id |-> nextId, stream |-> s, use |-> use]]
  /\ nextId' = Successor(nextId)
  /\ plays' = plays + 1
  /\ listed' = listed \cup {c}
  /\ UNCHANGED <<deviceVars, completed, known, mmioLock, isr>>

\* A buffer that is not attached to the device ends the call.
Map(c) ==
  /\ Go(c, "map", "play") \/ Go(c, "map", "put")
  /\ UNCHANGED <<deviceVars, request, listed, completed, known, mmioLock, isr, nextId, plays>>

PlayLock(c) ==
  /\ Go(c, "play", "program")
  /\ Acquire(c)
  /\ UNCHANGED <<deviceVars, request, listed, completed, known, isr, nextId, plays>>

Reads(use)  == use \in {"READ", "RDWR"}
Writes(use) == use \in {"WRITE", "RDWR"}

\* The registers of the direction not used keep what they had.
Programmed(c) ==
  LET r == request[c] IN
  [regs EXCEPT !.read        = IF Reads(r.use) THEN r.id ELSE @,
               !.write       = IF Writes(r.use) THEN r.id ELSE @,
               !.streamId    = r.stream,
               !.inRequestId = r.id]

Program(c) ==
  /\ Go(c, "program", "command")
  /\ WriteRegisters(Programmed(c))
  /\ UNCHANGED <<request, listed, completed, known, mmioLock, isr, nextId, plays>>

\* CTRL_DMA_W is 0b01 and CTRL_DMA_RW 0b11.
Control(use) == CASE use = "READ" -> 0 [] use = "WRITE" -> 1 [] use = "RDWR" -> 3

Command(c) ==
  /\ Go(c, "command", "poll")
  /\ PlayStream(Control(request[c].use))
  /\ UNCHANGED <<request, listed, completed, known, mmioLock, isr, nextId, plays>>

Poll(c) ==
  /\ Go(c, "poll", "wait")
  /\ regs.status # 0
  /\ ResetStatus
  /\ Release
  /\ UNCHANGED <<request, listed, completed, known, isr, nextId, plays>>

\* wait_event_interruptible: the condition is tested once the process is on
\* the wait queue, so nothing falls between the test and the sleep.
Wait(c) ==
  /\ \/ c \in completed /\ Go(c, "wait", "put")
     \/ c \notin completed /\ Go(c, "wait", "asleep")
  /\ UNCHANGED <<deviceVars, request, listed, completed, known, mmioLock, isr, nextId, plays>>

\* A signal ends the sleep, and the wait too if the request is not completed.
Signal(c) ==
  /\ Go(c, "asleep", IF c \in completed THEN "wait" ELSE "put")
  /\ UNCHANGED <<deviceVars, request, listed, completed, known, mmioLock, isr, nextId, plays>>

\* The request is unlinked and freed.
Put(c) ==
  /\ Go(c, "put", "idle")
  /\ listed' = listed \ {c} /\ completed' = completed \ {c}
  /\ UNCHANGED <<deviceVars, request, known, mmioLock, isr, nextId, plays>>

----------------------------------------------------------------------------
\* The interrupt handler. The line is level-sensitive, and the handler of a
\* line runs on one processor at a time.
IsrGo(from, to) == isr.pc = from /\ isr' = [isr EXCEPT !.pc = to]

Interrupt(cpu) ==
  /\ interrupt /\ fault = "none"
  /\ isr.pc = "idle" /\ ~IrqsOff(cpu)
  /\ isr' = [isr EXCEPT !.pc = "lock", !.cpu = cpu]
  /\ UNCHANGED <<deviceVars, pc, request, listed, completed, known, mmioLock, nextId, plays>>

IsrLock ==
  /\ IsrGo("lock", "read")
  /\ mmioLock = None /\ mmioLock' = "isr"
  /\ UNCHANGED <<deviceVars, pc, request, listed, completed, known, nextId, plays>>

IsrRead ==
  /\ isr.pc = "read"
  /\ isr' = [isr EXCEPT !.pc = "acknowledge", !.id = regs.outRequestId]
  /\ UNCHANGED <<deviceVars, pc, request, listed, completed, known, mmioLock, nextId, plays>>

IsrAcknowledge ==
  /\ IsrGo("acknowledge", "look up")
  /\ AckInterrupt
  /\ Release
  /\ UNCHANGED <<pc, request, listed, completed, known, nextId, plays>>

\* A request that is no longer listed is not the driver's interrupt.
Owners(id) == {c \in listed : request[c].id = id}

IsrLookUp ==
  /\ isr.pc = "look up"
  /\ \/ \E c \in Owners(isr.id) : isr' = [isr EXCEPT !.pc = "complete", !.found = c]
     \/ Owners(isr.id) = {} /\ isr' = [isr EXCEPT !.pc = "idle"]
  /\ UNCHANGED <<deviceVars, pc, request, listed, completed, known, mmioLock, nextId, plays>>

\* The handler keeps a pointer to a request that its process may free, and
\* replace, at any time. What it writes to freed memory changes no request.
StillThere == isr.found \in Owners(isr.id)

IsrComplete ==
  /\ IsrGo("complete", "wake")
  /\ completed' = IF StillThere THEN completed \cup {isr.found} ELSE completed
  /\ UNCHANGED <<deviceVars, pc, request, listed, known, mmioLock, nextId, plays>>

IsrWake ==
  /\ IsrGo("wake", "idle")
  /\ pc' = IF StillThere /\ pc[isr.found] = "asleep"
           THEN [pc EXCEPT ![isr.found] = "wait"] ELSE pc
  /\ UNCHANGED <<deviceVars, request, listed, completed, known, mmioLock, nextId, plays>>

----------------------------------------------------------------------------
\* A process need not start an operation, but it runs those it started.
Starts(c)    == Open(c) \/ Play(c)
Continues(c) == \/ OpenFails(c) \/ OpenLock(c) \/ OpenCommand(c) \/ OpenPoll(c) \/ OpenDone(c)
                \/ Map(c) \/ PlayLock(c) \/ Program(c) \/ Command(c)
                \/ Poll(c) \/ Wait(c) \/ Put(c)

Handler == \/ \E cpu \in Cpus : Interrupt(cpu)
           \/ IsrLock \/ IsrRead \/ IsrAcknowledge
           \/ IsrLookUp \/ IsrComplete \/ IsrWake

Engine(s) == TrafficEnds(s) \/ StreamTerminated(s)

\* A fault ends the simulation, and the simulated machine with it.
Next == /\ fault = "none"
        /\ \/ \E c \in Callers : Starts(c) \/ Continues(c) \/ Signal(c)
           \/ Handler
           \/ StreamName /\ UNCHANGED driverVars
           \/ \E s \in Streams : Engine(s) /\ UNCHANGED driverVars

Spec == Init /\ [][Next]_vars

\* Processors keep running, the handler is entered while the line is up, the
\* profiles of a stream are finite and the adapter's updates keep coming.
FairSpec == /\ Spec
            /\ \A c \in Callers : WF_vars(fault = "none" /\ Continues(c))
            /\ WF_vars(fault = "none" /\ Handler)
            /\ WF_vars(StreamName /\ UNCHANGED driverVars)
            /\ \A s \in Streams : WF_vars(Engine(s) /\ UNCHANGED driverVars)

----------------------------------------------------------------------------
\* Using the driver for one direction at a time never ends the simulation:
\* no stream is played that the device does not know, no operation is one it
\* cannot decode, and no stream name is asked for while one is being read.
NoFault == fault = "none"

\* Every operation the driver programs is one the device accepts: CONTROL's
\* 0b11 is RDWR (src/gem5/atp_device.hh, PROGRAMMABILITY.md).
OperationsAccepted == fault # "dma operation"

\* The device holds every request as its process made it: the registers
\* are shared and written one by one, yet no request takes the stream, the
\* direction or the buffer of another.
RequestsUntorn ==
  \A c \in listed, s \in Streams :
    LET r == request[c] IN
    /\ \A i \in DOMAIN pending[s] :
         pending[s][i].id = r.id =>
           /\ s = r.stream /\ pending[s][i].dmaOp = r.use
           /\ Reads(r.use) => pending[s][i].read = r.id
           /\ Writes(r.use) => pending[s][i].write = r.id
    /\ active[s] /\ onTerminate[s] = r.id =>
           /\ s = r.stream
           /\ Reads(r.use) => configured[s].READ = r.id
           /\ Writes(r.use) => configured[s].WRITE = r.id

\* A process that opens a stream is told the one made for it: STATUS is its
\* own, and no play call has written STREAM_ID before it reads it.
OpensItsOwn ==
  \A c \in Callers :
    pc[c] = "read stream" => regs.streamId \in streams \ known

\* The handler acknowledges the request it has read, so that the device
\* replaces no request in OUT_REQUEST_ID before software has seen it.
AcknowledgesWhatItRead ==
  isr.pc = "acknowledge" => intAckPending /\ isr.id = regs.outRequestId

\* A play call returns with success only after the device has finished its
\* own request, however identifiers, interrupts and signals fall.
ReturnsWhenFinished == \A c \in completed : request[c].id \in finished

\* The answers find those who asked: a process that opens a stream, the handler
\* that acknowledges and a process that returns each act on what was meant for
\* them, though all read and write the same registers.
OwnAnswers == OpensItsOwn /\ AcknowledgesWhatItRead /\ ReturnsWhenFinished

\* A request is reported only when traffic was generated for it: "On traffic
\* generation completion, the adapter writes the completed request ID"
\* (PROGRAMMABILITY.md).  Not a property of this code: a stream is not reset
\* before it is played again, and its second request is finished at once.
FinishedIsGenerated == finished \subseteq generated

\* Every play call returns: no request is forgotten in a queue, no interrupt
\* and no wakeup is lost, and the handler and the processes never wait for
\* one another's lock.
PlayReturns == \A c \in Callers : pc[c] \in PlayPcs ~> pc[c] = "idle"
=============================================================================
