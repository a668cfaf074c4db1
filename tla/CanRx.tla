-------------------------------- MODULE CanRx --------------------------------
(***************************************************************************)
(* Reception of the CAN drivers: the two hardware FIFOs, the interrupt     *)
(* handlers that drain them, the receive queue and the task that reads it. *)
(* The STM32H7 has one handler that acknowledges its flags and then serves *)
(* both FIFOs; the STM32L4 has a handler per FIFO, of equal priority, that *)
(* acts on the state of the FIFO itself.                                   *)
(***************************************************************************)
EXTENDS Integers, Sequences, FiniteSets, SequencesExt

CONSTANTS
    FifoSize,   \* elements of one hardware FIFO (H7: 32, L4: 3)
    QueueSize,  \* frames the receive queue holds
    MaxFrames   \* bound: frames that arrive

\* What a handler reads is never the element that is overwritten.
ASSUME RxAssumption ==
    /\ FifoSize \in Nat \ {0, 1}
    /\ QueueSize \in Nat \ {0} /\ MaxFrames \in Nat \ {0}

VARIABLES
    rx_h7,          \* which driver
    fifo,           \* the hardware FIFOs: frames numbered as they arrived
    full_flag,      \* FIFOs whose "frame lost" flag is up (RFxL, FOVRx)
    new_flag,       \* H7: FIFOs whose "new frame" flag is up (RFxN)
    rx_at,          \* FIFO the handler drains, Idle or Between
    rx_todo,        \* H7: FIFOs the handler still has to drain
    queue,          \* the receive queue
    count_rx, count_rx_dropped,
    told_overrun, told_dropped,     \* errors reported, by FIFO and in total
    arrived,        \* history: frames that have arrived
    route,          \* history: the FIFO of each frame
    read            \* history: what uni_hal_can_receive returned

rxVars == <<rx_h7, fifo, full_flag, new_flag, rx_at, rx_todo, queue, count_rx,
            count_rx_dropped, told_overrun, told_dropped, arrived, route, read>>

Fifos == {0, 1}
Idle == -1           \* values of rx_at: no handler runs,
Between == 2        \* or the H7 handler is between FIFOs

RxInit ==
    /\ rx_h7 \in BOOLEAN
    /\ fifo = [f \in Fifos |-> <<>>] /\ full_flag = {} /\ new_flag = {}
    /\ rx_at = Idle /\ rx_todo = {}
    /\ queue = <<>> /\ count_rx = 0 /\ count_rx_dropped = 0
    /\ told_overrun = {} /\ told_dropped = 0
    /\ arrived = 0 /\ route = <<>> /\ read = <<>>

-----------------------------------------------------------------------------
(* A frame that passed a filter. In a full FIFO the STM32H7 keeps what it   *)
(* has; the STM32L4, with RFLM cleared, overwrites the newest element.      *)
Stored(elements, n) ==
    IF Len(elements) < FifoSize THEN Append(elements, n)
    ELSE IF rx_h7 THEN elements ELSE [elements EXCEPT ![Len(elements)] = n]

FrameArrives(f) ==
    /\ arrived < MaxFrames
    /\ arrived' = arrived + 1 /\ route' = Append(route, f)
    /\ fifo' = [fifo EXCEPT ![f] = Stored(@, arrived + 1)]
    /\ IF Len(fifo[f]) < FifoSize
       THEN /\ new_flag' = new_flag \cup (IF rx_h7 THEN {f} ELSE {})
            /\ UNCHANGED full_flag
       ELSE full_flag' = full_flag \cup {f} /\ UNCHANGED new_flag
    /\ UNCHANGED <<rx_h7, rx_at, rx_todo, queue, count_rx, count_rx_dropped,
                   told_overrun, told_dropped, read>>

IrqPending(f) == f \in full_flag \/ f \in (IF rx_h7 THEN new_flag
                                           ELSE {g \in Fifos : fifo[g] # <<>>})

(* _uni_hal_can_irq: flags taken and acknowledged, lost frames reported.    *)
IrqH7 ==
    /\ rx_h7 /\ rx_at = Idle
    /\ \E f \in Fifos : IrqPending(f)
    /\ told_overrun' = told_overrun \cup full_flag
    /\ full_flag' = {} /\ new_flag' = {}
    /\ rx_todo' = new_flag
    /\ rx_at' = Between
    /\ UNCHANGED <<rx_h7, fifo, queue, count_rx, count_rx_dropped, told_dropped,
                   arrived, route, read>>

AckedOnExit == {}       \* mutant: the flags are acknowledged after the work

\* "a flag that is set again meanwhile raises the interrupt once more"
FlagsOnExit == new_flag

IrqNext ==
    /\ rx_at = Between
    /\ IF rx_todo = {}
       THEN rx_at' = Idle /\ new_flag' = FlagsOnExit /\ UNCHANGED rx_todo
       ELSE /\ rx_at' = (IF 0 \in rx_todo THEN 0 ELSE 1)
            /\ rx_todo' = rx_todo \ {rx_at'}
            /\ UNCHANGED new_flag
    /\ UNCHANGED <<rx_h7, fifo, full_flag, queue, count_rx, count_rx_dropped,
                   told_overrun, told_dropped, arrived, route, read>>

(* The handler of one FIFO of the STM32L4.                                  *)
IrqL4(f) ==
    /\ ~rx_h7 /\ rx_at = Idle /\ IrqPending(f)
    /\ told_overrun' = told_overrun \cup (full_flag \cap {f})
    /\ full_flag' = full_flag \ {f}
    /\ rx_at' = f
    /\ UNCHANGED <<rx_h7, fifo, new_flag, rx_todo, queue, count_rx,
                   count_rx_dropped, told_dropped, arrived, route, read>>

\* A push into a full ring buffer overwrites its oldest frame.
PushFrame(q, n) == Append(IF Len(q) < QueueSize THEN q ELSE Tail(q), n)

Unasked(q) == TRUE              \* mutant: pushed without a look

Room(q) == Len(q) < QueueSize

(* The body of the loop of _uni_hal_can_irq_rx: a frame leaves the FIFO and *)
(* goes to the queue, or is dropped, counted and reported.                  *)
Drain ==
    /\ rx_at \in Fifos /\ fifo[rx_at] # <<>>
    /\ fifo' = [fifo EXCEPT ![rx_at] = Tail(@)]
    /\ LET n == Head(fifo[rx_at]) IN
       IF Room(queue)
       THEN /\ queue' = PushFrame(queue, n) /\ count_rx' = count_rx + 1
            /\ UNCHANGED <<count_rx_dropped, told_dropped>>
       ELSE /\ UNCHANGED queue
            /\ count_rx_dropped' = count_rx_dropped + 1
            /\ told_dropped' = told_dropped + 1
            /\ UNCHANGED count_rx
    /\ UNCHANGED <<rx_h7, full_flag, new_flag, rx_at, rx_todo, told_overrun,
                   arrived, route, read>>

DrainEnd ==
    /\ rx_at \in Fifos /\ fifo[rx_at] = <<>>
    /\ rx_at' = IF rx_h7 THEN Between ELSE Idle
    /\ UNCHANGED <<rx_h7, fifo, full_flag, new_flag, rx_todo, queue, count_rx,
                   count_rx_dropped, told_overrun, told_dropped, arrived, route, read>>

(* uni_hal_can_receive: one frame, with the interrupts paused.              *)
Receive ==
    /\ rx_at = Idle /\ queue # <<>>
    /\ read' = Append(read, Head(queue)) /\ queue' = Tail(queue)
    /\ UNCHANGED <<rx_h7, fifo, full_flag, new_flag, rx_at, rx_todo, count_rx,
                   count_rx_dropped, told_overrun, told_dropped, arrived, route>>

RxIrq == IrqH7 \/ IrqNext \/ Drain \/ DrainEnd \/ \E f \in Fifos : IrqL4(f)

RxNext == RxIrq \/ Receive \/ \E f \in Fifos : FrameArrives(f)

-----------------------------------------------------------------------------
RxTypeOK ==
    /\ rx_h7 \in BOOLEAN /\ fifo \in [Fifos -> Seq(1..MaxFrames)]
    /\ full_flag \subseteq Fifos /\ new_flag \subseteq Fifos
    /\ rx_at \in Fifos \cup {Idle, Between} /\ rx_todo \subseteq Fifos
    /\ queue \in Seq(1..MaxFrames) /\ read \in Seq(1..MaxFrames)
    /\ count_rx \in 0..MaxFrames /\ count_rx_dropped \in 0..MaxFrames
    /\ told_overrun \subseteq Fifos /\ told_dropped \in 0..MaxFrames
    /\ arrived \in 0..MaxFrames /\ route \in Seq(Fifos)

\* The frames uni_hal_can_receive has returned and those it is to return.
Got == read \o queue

\* Frames that are neither in a FIFO nor in the queue nor read.
Gone == (1..arrived) \ (ToSet(fifo[0]) \cup ToSet(fifo[1]) \cup ToSet(Got))

(* What the application gets are the frames of each FIFO in the order they  *)
(* arrived in; the counters add up with it, and when more frames are gone   *)
(* than count_rx_dropped tells, a FIFO has overrun and this was reported or *)
(* is about to be.                                                          *)
ReceptionAccounted ==
    /\ \A i, j \in DOMAIN Got : i < j /\ route[Got[i]] = route[Got[j]] => Got[i] < Got[j]
    /\ count_rx = Len(Got) /\ told_dropped = count_rx_dropped
    /\ Cardinality(Gone) >= count_rx_dropped
    /\ Cardinality(Gone) > count_rx_dropped =>
           \E f \in told_overrun \cup full_flag : \E n \in Gone : route[n] = f

(* A frame in a FIFO leaves it, whenever it arrived: during the             *)
(* acknowledgement, the drain, or on the way out of the handler.            *)
FrameLeaves == \A f \in Fifos : fifo[f] # <<>> ~> fifo[f] = <<>>
=============================================================================
