------------------------------ MODULE UartPort ------------------------------
(***************************************************************************)
(* What the STM32H7 and the STM32L4 serial drivers have in common: the IO  *)
(* context (io/uni_hal_io_c.c) with its two byte buffers and statistics,   *)
(* the USART registers the drivers use, the transmitter and the receiver   *)
(* behind them, the calls an application makes, and the receive half of    *)
(* the interrupt handler.  UartH7 and UartL4 add the transmit half, which  *)
(* is where the two drivers differ.                                        *)
(*                                                                         *)
(* Granularity.  One task step is one register access or one buffer access *)
(* (buffer accesses run in a critical section).  The handler runs with no  *)
(* task in between, so its steps are cut only where the hardware or an     *)
(* interrupt of higher priority can make a difference.                     *)
(*                                                                         *)
(* Characters on the receive line are numbered in the order they arrive;   *)
(* only identity and order matter to the properties.                       *)
(***************************************************************************)
EXTENDS Integers, Sequences

CONSTANTS
    Byte,         \* payload of a transmitted character
    Chunk,        \* the byte strings callers pass to uni_hal_io_transmit_data
    Task,         \* tasks that call the driver
    Peer,         \* ports whose interrupt preempts this one and tunnels into it
    TxSize,       \* bytes buf_tx can hold
    RxSize,       \* bytes buf_rx can hold
    Tunnel,       \* "none", "opaque" or "transparent": tunnel_ctx of this port
    IrqControl,   \* the application uses uni_hal_usart_irq_enable
    Latency,      \* how slow interrupts can be compared to a character, see below
    MaxTx,        \* bound: characters accepted in one behaviour
    MaxRx         \* bound: characters arriving in one behaviour

ASSUME PortAssumption ==
    /\ Chunk \subseteq Seq(Byte)
    /\ TxSize \in Nat \ {0} /\ RxSize \in Nat \ {0}
    /\ Tunnel \in {"none", "opaque", "transparent"}
    /\ IrqControl \in BOOLEAN /\ Latency \in {"any", "handler", "none"}
    /\ MaxTx \in Nat /\ MaxRx \in Nat

(* The tasks that call uni_hal_usart_irq_enable. *)
Switcher == IF IrqControl THEN Task ELSE {}

VARIABLES
    cr1,             \* interrupt enables: txe, tc, rxne, idle
    flags,           \* latched events: tc, idle, ore
    tdr, shift,      \* transmit data register and shift register: <<>> or one byte
    rdr,             \* receive data register: <<>> or one character
    rx_active,       \* characters arrived since the line was last idle
    buf_tx, buf_rx,  \* the buffers of the IO context
    stats,           \* rx_received, rx_overrun, tx_transmited
    in_transmission,
    de,              \* line driver: on from the tx_start to the tx_end handler
    isr,             \* where the interrupt handler is, "idle" when not running
    pc,              \* what each task does next inside a driver call
    accepted, line,  \* history: bytes taken from callers, bytes sent
    arrived, lost,   \* history: number of characters received, lost in the receiver
    received,        \* history: characters the application took from buf_rx
    tunnelled        \* history: characters an opaque tunnel consumed

hwTx   == <<tdr, shift, line>>
hwRx   == <<rdr, rx_active, arrived, lost>>
ioRx   == <<buf_rx, received, tunnelled>>
ioTx   == <<buf_tx, accepted>>
vars   == <<cr1, flags, hwTx, hwRx, ioTx, ioRx, stats, in_transmission, de, isr, pc>>

-----------------------------------------------------------------------------
(* Types. IsrStep and PcStep cover both drivers.                            *)

IsrStep == {"idle", "rx", "txe", "empty", "tc", "complete", "idle_line"}
PcStep  == {"ready", "clear_tc", "disable_tc", "enable_txe", "enable_tc",
            "off_txe", "off_tc", "off_flags", "on_tc", "on_txe"}

Reg(S) == {s \in Seq(S) : Len(s) <= 1}

TypeOK ==
    /\ cr1 \in [{"txe", "tc", "rxne", "idle"} -> BOOLEAN]
    /\ flags \in [{"tc", "idle", "ore"} -> BOOLEAN]
    /\ tdr \in Reg(Byte) /\ shift \in Reg(Byte) /\ rdr \in Reg(Nat)
    /\ buf_tx \in Seq(Byte) /\ Len(buf_tx) <= TxSize
    /\ buf_rx \in Seq(Nat) /\ Len(buf_rx) <= RxSize
    /\ stats \in [{"rx_received", "rx_overrun", "tx_transmited"} -> Nat]
    /\ in_transmission \in BOOLEAN /\ de \in BOOLEAN /\ rx_active \in BOOLEAN
    /\ isr \in IsrStep /\ pc \in [Task -> PcStep]
    /\ accepted \in Seq(Byte) /\ line \in Seq(Byte)
    /\ arrived \in Nat /\ lost \in Nat /\ received \in Seq(Nat) /\ tunnelled \in Seq(Nat)

(* State at the end of a successful uni_hal_usart_init: receive interrupts  *)
(* on, transmit interrupts off, uni_hal_io_init made the buffers empty and  *)
(* the statistics zero. `idleIrq` tells whether the driver uses IDLE.       *)
PortInit(idleIrq) ==
    /\ cr1 = [txe |-> FALSE, tc |-> FALSE, rxne |-> TRUE, idle |-> idleIrq]
    /\ flags = [tc |-> FALSE, idle |-> FALSE, ore |-> FALSE]
    /\ tdr = <<>> /\ shift = <<>> /\ rdr = <<>> /\ rx_active = FALSE
    /\ buf_tx = <<>> /\ buf_rx = <<>>
    /\ stats = [rx_received |-> 0, rx_overrun |-> 0, tx_transmited |-> 0]
    /\ in_transmission = FALSE /\ de = FALSE
    /\ isr = "idle" /\ pc = [t \in Task |-> "ready"]
    /\ accepted = <<>> /\ line = <<>>
    /\ arrived = 0 /\ lost = 0 /\ received = <<>> /\ tunnelled = <<>>

-----------------------------------------------------------------------------
(* Interrupt line and scheduling.                                           *)

IrqPending ==
    \/ cr1.txe /\ tdr = <<>>
    \/ cr1.tc /\ flags.tc
    \/ cr1.rxne /\ (rdr # <<>> \/ flags.ore)
    \/ cr1.idle /\ flags.idle

(* Latency = "any": characters end at any moment, also inside the handler,  *)
(*   which an interrupt of higher priority may hold up.                     *)
(* Latency = "handler": no character sent ends while the handler runs.      *)
(* Latency = "none": in addition an interrupt is served before a character  *)
(*   ends or a task goes on.                                                *)
Served == Latency = "none" => ~IrqPending

(* Tasks wait while the handler runs. *)
TasksRun == isr = "idle" /\ Served

CharacterTime == Served /\ (Latency # "any" => isr = "idle")

-----------------------------------------------------------------------------
(* The transmitter (hardware).                                              *)

(* The shift register is free: it takes over the byte in TDR. *)
LoadShift ==
    /\ tdr # <<>> /\ shift = <<>>
    /\ shift' = tdr /\ tdr' = <<>>
    /\ UNCHANGED <<cr1, flags, line, hwRx, ioTx, ioRx, stats, in_transmission, de, isr, pc>>

(* The last bit of a character leaves. TC is raised when nothing follows.   *)
ShiftDone ==
    /\ shift # <<>> /\ CharacterTime
    /\ line' = line \o shift
    /\ shift' = tdr /\ tdr' = <<>>
    /\ flags' = [flags EXCEPT !.tc = @ \/ tdr = <<>>]
    /\ UNCHANGED <<cr1, hwRx, ioTx, ioRx, stats, in_transmission, de, isr, pc>>

(* What a write to TDR does: TC drops with it. *)
TransmitData(b) ==
    /\ tdr' = <<b>>
    /\ flags' = [flags EXCEPT !.tc = FALSE]

-----------------------------------------------------------------------------
(* The receiver (hardware).                                                 *)

(* A character is complete. If RDR still holds the one before, it is lost   *)
(* and the overrun flag is raised.                                          *)
CharArrives ==
    /\ arrived < MaxRx /\ Served
    /\ arrived' = arrived + 1 /\ rx_active' = TRUE
    /\ IF rdr = <<>>
       THEN rdr' = <<arrived + 1>> /\ UNCHANGED <<flags, lost>>
       ELSE /\ flags' = [flags EXCEPT !.ore = TRUE]
            /\ lost' = lost + 1 /\ rdr' = rdr
    /\ UNCHANGED <<cr1, hwTx, ioTx, ioRx, stats, in_transmission, de, isr, pc>>

(* The line stays quiet for a character time after traffic. *)
LineIdle ==
    /\ rx_active /\ Served
    /\ rx_active' = FALSE
    /\ flags' = [flags EXCEPT !.idle = TRUE]
    /\ UNCHANGED <<cr1, hwTx, rdr, arrived, lost, ioTx, ioRx, stats, in_transmission, de, isr, pc>>

-----------------------------------------------------------------------------
(* The IO layer.                                                            *)

(* A write stores what fits and refuses the rest. *)
FittingUnlimited(data, room) == data     \* mutant
Fitting(data, room) == IF Len(data) <= room THEN data ELSE SubSeq(data, 1, room)

(* _uni_hal_io_buf_write on buf_tx, one critical section. *)
BufferWrite(data) ==
    LET stored == Fitting(data, TxSize - Len(buf_tx))
    IN  /\ Len(accepted) + Len(stored) <= MaxTx
        /\ buf_tx' = buf_tx \o stored
        /\ accepted' = accepted \o stored

(* uni_hal_io_transmit_data up to the call of the trigger hook, whose first *)
(* step is `first`.                                                         *)
Transmit(t, first) ==
    /\ pc[t] = "ready" /\ TasksRun
    /\ \E data \in Chunk : BufferWrite(data)
    /\ pc' = [pc EXCEPT ![t] = first]
    /\ UNCHANGED <<cr1, flags, hwTx, hwRx, ioRx, stats, in_transmission, de, isr>>

(* One buffer access of uni_hal_io_receive_data: up to n characters.        *)
Receive(t) ==
    /\ pc[t] = "ready" /\ TasksRun /\ buf_rx # <<>>
    /\ \E n \in 1..Len(buf_rx) :
          /\ received' = received \o SubSeq(buf_rx, 1, n)
          /\ buf_rx' = SubSeq(buf_rx, n + 1, Len(buf_rx))
    /\ UNCHANGED <<tunnelled, cr1, flags, hwTx, hwRx, ioTx, stats, in_transmission, de, isr, pc>>

(* uni_hal_usart_transmit_busy *)
TransmitBusyBufferOnly == buf_tx # <<>>  \* mutant
TransmitBusy == buf_tx # <<>> \/ in_transmission

(* A task executes one instruction of a call and goes on to `next`.         *)
Step(t, here, next) ==
    /\ pc[t] = here /\ TasksRun
    /\ pc' = [pc EXCEPT ![t] = next]

-----------------------------------------------------------------------------
(* The interrupt handler up to its transmit half.                           *)

(* Entry, and the overrun flag, which is looked at in every run. *)
IsrEnter ==
    /\ isr = "idle" /\ IrqPending
    /\ isr' = "rx"
    /\ IF flags.ore
       THEN /\ stats' = [stats EXCEPT !.rx_overrun = @ + 1]
            /\ flags' = [flags EXCEPT !.ore = FALSE]
       ELSE UNCHANGED <<stats, flags>>
    /\ UNCHANGED <<cr1, hwTx, hwRx, ioTx, ioRx, in_transmission, de, pc>>

(* uni_hal_io_tunnel_transmit: whether the other port had room decides      *)
(* between FAIL and the two kinds of success.                               *)
TunnelResult ==
    CASE Tunnel = "none"        -> {"TRANSPARENT"}
      [] Tunnel = "opaque"      -> {"FAIL", "OK"}
      [] Tunnel = "transparent" -> {"FAIL", "TRANSPARENT"}

(* A received character goes to buf_rx unless the tunnel consumed it. The   *)
(* mutants: the oldest character is overwritten; a loss is not counted.     *)
PushReceivedOverwriting(c) ==
    /\ buf_rx' = Append(IF Len(buf_rx) < RxSize THEN buf_rx ELSE Tail(buf_rx), c)
    /\ stats' = [stats EXCEPT !.rx_received = @ + 1] /\ lost' = lost

PushReceivedUncounted(c) ==
    IF Len(buf_rx) < RxSize
    THEN /\ buf_rx' = Append(buf_rx, c)
         /\ stats' = [stats EXCEPT !.rx_received = @ + 1] /\ lost' = lost
    ELSE lost' = lost + 1 /\ UNCHANGED <<buf_rx, stats>>

PushReceivedUnlimited(c) ==
    /\ buf_rx' = Append(buf_rx, c)
    /\ stats' = [stats EXCEPT !.rx_received = @ + 1] /\ lost' = lost

PushReceived(c) ==
    IF Len(buf_rx) < RxSize
    THEN /\ buf_rx' = Append(buf_rx, c)
         /\ stats' = [stats EXCEPT !.rx_received = @ + 1] /\ lost' = lost
    ELSE /\ stats' = [stats EXCEPT !.rx_overrun = @ + 1]
         /\ lost' = lost + 1 /\ buf_rx' = buf_rx

IsrRxne ==
    /\ isr = "rx" /\ isr' = "txe"
    /\ IF cr1.rxne /\ rdr # <<>>
       THEN /\ rdr' = <<>>
            /\ \E result \in TunnelResult :
                  IF result = "OK"
                  THEN /\ tunnelled' = Append(tunnelled, rdr[1])
                       /\ UNCHANGED <<buf_rx, stats, lost>>
                  ELSE PushReceived(rdr[1]) /\ tunnelled' = tunnelled
       ELSE UNCHANGED <<rdr, buf_rx, tunnelled, stats, lost>>
    /\ UNCHANGED <<cr1, flags, hwTx, rx_active, arrived, received, ioTx, in_transmission, de, pc>>

(* The two transmit conditions of the handler: source enabled and flag up.  *)
TxeFiresUnchecked == cr1.txe             \* mutant
TxeFires == cr1.txe /\ tdr = <<>>

TcFiresUnchecked == cr1.tc               \* mutant
TcFires == cr1.tc /\ flags.tc

-----------------------------------------------------------------------------
(* Properties both drivers are checked against.                             *)

(* Every byte a call of uni_hal_io_transmit_data reported as taken is in    *)
(* exactly one place (buffer, TDR, shift register, line), in the order of   *)
(* acceptance, whatever tasks, interrupts and hardware do; tx_transmited    *)
(* counts those handed to the USART.                                        *)
Conserved ==
    /\ line \o shift \o tdr \o buf_tx = accepted
    /\ stats.tx_transmited = Len(line) + Len(shift) + Len(tdr)

(* When a task sees uni_hal_usart_transmit_busy return false, the last bit  *)
(* of everything accepted so far has left (a reset may follow) and the line *)
(* driver has been released.                                                *)
NotBusyMeansDone == isr = "idle" /\ ~TransmitBusy => line = accepted /\ ~de

(* Every bit of every character lies between the tx_start and the tx_end    *)
(* handler, in which an RS-485 driver is switched.                          *)
DriverCoversLine == (tdr # <<>> \/ shift # <<>>) => de

(* The inductive invariant behind the three properties above: TC is up only  *)
(* when the transmitter is empty, and without uni_hal_usart_irq_enable the  *)
(* software state follows the transmitter.                                  *)
TransmitterInv ==
    /\ flags.tc \/ isr = "complete" => tdr = <<>> /\ shift = <<>>
    /\ in_transmission \/ tdr # <<>> \/ shift # <<>> => de

TrackingInv ==
    /\ ~in_transmission => tdr = <<>> /\ shift = <<>> /\ ~de
    /\ \A t \in Task : pc[t] \in {"ready", "clear_tc", "disable_tc", "enable_txe", "enable_tc"}

PortInv ==
    /\ TypeOK /\ Conserved /\ TransmitterInv
    /\ ~IrqControl => TrackingInv

(* Bytes in the buffer with no call in progress: some interrupt source that *)
(* will fire is armed, so the bytes do not wait for the next call.          *)
NoStall ==
    isr = "idle" /\ buf_tx # <<>> /\ (\A t \in Task : pc[t] = "ready")
        => \/ cr1.txe
           \/ cr1.tc /\ (flags.tc \/ tdr # <<>> \/ shift # <<>>)

(* A received character is never duplicated, reordered or dropped without   *)
(* being counted as lost, with or without a tunnel.                         *)
ReceivedInOrder ==
    LET seen == received \o buf_rx
    IN  /\ \A i, j \in 1..Len(seen) : i < j => seen[i] < seen[j]
        /\ stats.rx_received = Len(seen)
        /\ arrived = Len(seen) + Len(tunnelled) + lost + Len(rdr)

(* A character that was lost, in the receiver or at a full buffer, shows up *)
(* in rx_overrun, or will once the pending overrun flag is served.          *)
LossReported == lost > 0 => stats.rx_overrun > 0 \/ flags.ore

(* The byte stream the port offers, whatever the state of the registers.    *)
Stream == INSTANCE ByteStream WITH accepted <- accepted, sent <- line
StreamSpec == Stream!Spec
StreamFairSpec == Stream!FairSpec

(* A call of uni_hal_io_transmit_data (or of the interrupt switch) returns. *)
CallsReturn == \A t \in Task : pc[t] # "ready" ~> pc[t] = "ready"

(* "Polls this function until it returns false": transmit_busy does.        *)
BusyEnds == TransmitBusy ~> ~TransmitBusy
=============================================================================
