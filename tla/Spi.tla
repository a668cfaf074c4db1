-------------------------------- MODULE Spi --------------------------------
(***************************************************************************)
(* The SPI driver of the STM32H743, spi/uni_hal_spi_stm32h7.c: blocking    *)
(* transfers, asynchronous ones over two DMA streams that end in an        *)
(* interrupt and a callback, and uni_hal_spi_abort.                        *)
(*                                                                         *)
(* One task uses the driver and asks uni_hal_spi_is_busy first; the        *)
(* callback may start the next transfer.  As the driver sets the bus up, a *)
(* slave only receives.  Every asynchronous transfer has a number, and a   *)
(* buffer of its own with the same number.                                 *)
(***************************************************************************)
EXTENDS Naturals

CONSTANTS
    Depth,              \* bytes in each FIFO
    MaxLen,             \* bytes in a transfer
    MaxTransfers,       \* asynchronous transfers
    Modes,              \* "master", "slave"
    CallbackStarts      \* whether the callback may start the next transfer

ASSUME SpiAssumption ==
    /\ Depth \in Nat \ {0} /\ MaxLen \in Nat \ {0} /\ MaxTransfers \in Nat
    /\ Modes \subseteq {"master", "slave"} /\ CallbackStarts \subseteq BOOLEAN

VARIABLES
    mode,
    restarts,
    on,             \* SPE
    left,           \* bytes of the transfer the bus has still to carry
    flags,          \* "EOT", "OVR"
    ie,             \* the EOT interrupt is enabled
    req,            \* DMA requests: "rx", "tx"
    txf, rxf,       \* bytes in the FIFOs
    rx, tx,         \* what each stream has still to move; disabled at 0
    to,             \* the buffer that the receiving stream writes
    in_process,
    last_rx,        \* last_rx_data is not NULL
    last_len,
    last_errors,    \* "none", "overrun"
    nss,            \* TRUE when the slave is selected
    isr,            \* "idle", "callback"
    pc,             \* "idle"; "abort", "masked", "halted";
                    \* "poll", "sent", "quiet", "late", "eot", "end"
    transmit,       \* the blocking call is uni_hal_spi_transmit
    len,            \* its length
    idx_tx, idx_rx,
    expired,        \* the bus has made no progress for too long
    stalled,
    n,              \* the latest asynchronous transfer
    got,            \* history: bytes of its own that each buffer received
    told,           \* history: "none", "clean", "overrun", "stopped", "twice"
    stray,          \* history: since n started, the stream wrote another buffer
    tainted         \* history: a transfer overran, and its stream was still enabled
                    \* when n started (or n itself overran)

config  == <<mode, restarts>>
streams == <<rx, tx, to>>
status  == <<in_process, last_rx, last_len, last_errors, nss>>
block   == <<transmit, len, idx_tx, idx_rx, expired, stalled>>
history == <<got, told, stray, tainted>>
vars == <<config, on, left, flags, ie, req, txf, rxf, streams, status, isr, pc, block,
          n, history>>

Transfers == 1..MaxTransfers

Init ==
    /\ mode \in Modes /\ restarts \in CallbackStarts
    /\ on = FALSE /\ left = 0 /\ flags = {} /\ ie = FALSE /\ req = {} /\ txf = 0 /\ rxf = 0
    /\ rx = 0 /\ tx = 0 /\ to = 0
    /\ in_process = FALSE /\ last_rx = FALSE /\ last_len = 0 /\ last_errors = "none"
    /\ nss = FALSE
    /\ isr = "idle" /\ pc = "idle"
    /\ transmit = FALSE /\ len = 0 /\ idx_tx = 0 /\ idx_rx = 0
    /\ expired = FALSE /\ stalled = FALSE
    /\ n = 0
    /\ got = [t \in Transfers |-> 0] /\ told = [t \in Transfers |-> "none"]
    /\ stray = FALSE /\ tainted = FALSE

-----------------------------------------------------------------------------
(* The peripheral and the streams.                                         *)

(* A byte goes out while one comes in.  A master waits for a byte to send, *)
(* a slave for its master.  A byte that finds the FIFO full is lost.       *)
Clock ==
    /\ on /\ left > 0 /\ (mode = "master" => txf > 0)
    /\ left' = left - 1
    /\ txf' = IF mode = "master" THEN txf - 1 ELSE txf
    /\ rxf' = IF rxf < Depth THEN rxf + 1 ELSE rxf
    /\ flags' = flags \cup (IF rxf < Depth THEN {} ELSE {"OVR"})
                      \cup (IF left = 1 THEN {"EOT"} ELSE {})
    /\ UNCHANGED <<config, on, ie, req, streams, status, isr, pc, block, n, history>>

DmaTx ==
    /\ on /\ "tx" \in req /\ tx > 0 /\ txf < Depth
    /\ tx' = tx - 1 /\ txf' = txf + 1
    /\ UNCHANGED <<config, on, left, flags, ie, req, rxf, rx, to, status, isr, pc, block,
                   n, history>>

CanDmaRx == on /\ "rx" \in req /\ rx > 0 /\ rxf > 0

DmaRx ==
    /\ CanDmaRx
    /\ rx' = rx - 1 /\ rxf' = rxf - 1
    /\ got' = [t \in Transfers |-> IF t = n /\ to = n THEN got[t] + 1 ELSE got[t]]
    /\ stray' = (stray \/ to # n)
    /\ UNCHANGED <<config, on, left, flags, ie, req, txf, tx, to, status, isr, pc, block,
                   n, told, tainted>>

-----------------------------------------------------------------------------
(* The interrupt.                                                          *)

IrqPending == ie /\ "EOT" \in flags

TaskRuns == isr = "idle" /\ ~IrqPending

(* A stream that is still enabled ignores its set-up.                      *)
SetUp(stream, l) == IF stream = 0 THEN l ELSE stream

Begin(dirs, l) ==
    /\ n < MaxTransfers /\ n' = n + 1
    /\ in_process' = TRUE /\ last_rx' = ("rx" \in dirs) /\ last_len' = l
    /\ last_errors' = "none"
    /\ nss' = TRUE
    /\ rx' = IF "rx" \in dirs THEN SetUp(rx, l) ELSE rx
    /\ to' = IF "rx" \in dirs /\ rx = 0 THEN n' ELSE to
    /\ tx' = IF "tx" \in dirs THEN SetUp(tx, l) ELSE tx
    /\ req' = req \cup dirs
    /\ on' = TRUE /\ left' = l /\ ie' = TRUE
    /\ stray' = FALSE /\ tainted' = (tainted /\ rx > 0)
    /\ UNCHANGED <<config, flags, txf, rxf, pc, block, got, told>>

Directions == IF mode = "master" THEN {{"tx"}, {"rx", "tx"}} ELSE {{"rx"}}

FlagsKept == flags              \* mutant: the flags are not cleared

FlagsCleared == {}

(* LL_SPI_Disable empties the FIFOs.                                       *)
Disable == on' = FALSE /\ txf' = 0 /\ rxf' = 0

Tell(outcome) ==
    told' = [t \in Transfers |-> IF t # n THEN told[t]
                                 ELSE IF told[t] = "none" THEN outcome ELSE "twice"]

(* The stream has served its last request by the time the handler runs.    *)
(* An overrun leaves it short of its count, and enabled.                   *)
IsrComplete ==
    /\ IrqPending /\ isr = "idle" /\ ~CanDmaRx
    /\ nss' = FALSE
    /\ last_errors' = IF "OVR" \in flags THEN "overrun" ELSE "none"
    /\ flags' = FlagsCleared
    /\ Disable
    /\ ie' = FALSE /\ req' = {}
    /\ in_process' = FALSE /\ isr' = "callback"
    /\ Tell(IF "OVR" \in flags THEN "overrun" ELSE "clean")
    /\ tainted' = (tainted \/ (last_rx /\ "OVR" \in flags))
    /\ UNCHANGED <<config, left, streams, last_rx, last_len, pc, block, n, got, stray>>

IsrReturn ==
    /\ isr = "callback" /\ isr' = "idle"
    /\ UNCHANGED <<config, on, left, flags, ie, req, txf, rxf, streams, status, pc, block,
                   n, history>>

IsrRestart ==
    /\ isr = "callback" /\ isr' = "idle" /\ restarts
    /\ \E dirs \in Directions, l \in 1..MaxLen : Begin(dirs, l)

-----------------------------------------------------------------------------
(* Asynchronous transfers and their end before time.                       *)

TransceiveAsync ==
    /\ TaskRuns /\ pc = "idle" /\ ~in_process
    /\ \E dirs \in Directions, l \in 1..MaxLen : Begin(dirs, l)
    /\ UNCHANGED isr

(* The transfer may complete after this look at in_process, and the        *)
(* callback start another one.                                             *)
Abort ==
    /\ TaskRuns /\ pc = "idle" /\ in_process /\ pc' = "abort"
    /\ UNCHANGED <<config, on, left, flags, ie, req, txf, rxf, streams, status, isr, block,
                   n, history>>

MaskNot == ie                   \* mutant: the interrupt stays enabled

Mask == FALSE

AbortMask ==
    /\ TaskRuns /\ pc = "abort" /\ pc' = "masked"
    /\ ie' = Mask
    /\ UNCHANGED <<config, on, left, flags, req, txf, rxf, streams, status, isr, block,
                   n, history>>

StreamLeft(stream) == stream    \* mutant: abort leaves the streams enabled

StreamOff(stream) == 0

AbortStreams ==
    /\ TaskRuns /\ pc = "masked" /\ pc' = "halted"
    /\ rx' = StreamOff(rx) /\ tx' = StreamOff(tx) /\ req' = {}
    /\ UNCHANGED <<config, on, left, flags, ie, txf, rxf, to, status, isr, block, n,
                   history>>

AbortEnd ==
    /\ TaskRuns /\ pc = "halted" /\ pc' = "idle"
    /\ Disable /\ flags' = FlagsCleared
    /\ nss' = FALSE /\ in_process' = FALSE
    /\ told' = [t \in Transfers |-> IF t = n /\ told[t] = "none" THEN "stopped" ELSE told[t]]
    /\ UNCHANGED <<config, left, ie, req, streams, last_rx, last_len, last_errors, isr, block, n,
                   got, stray, tainted>>

-----------------------------------------------------------------------------
(* Blocking transfers of a master: uni_hal_spi_transmit, _receive and      *)
(* _transmitreceive; only the first marks the driver busy and selects.     *)

Blocking ==
    /\ TaskRuns /\ pc = "idle" /\ ~in_process /\ mode = "master" /\ pc' = "poll"
    /\ transmit' \in BOOLEAN /\ in_process' = transmit' /\ nss' = (nss \/ transmit')
    /\ len' \in 1..MaxLen
    /\ flags' = FlagsCleared /\ on' = TRUE /\ left' = len'
    /\ idx_tx' = 0 /\ idx_rx' = 0 /\ expired' = FALSE /\ stalled' = FALSE
    /\ UNCHANGED <<config, ie, req, txf, rxf, streams, last_rx, last_len, last_errors, isr, n,
                   history>>

(* One turn of the loop: a byte may go into one FIFO, and then one come    *)
(* out of the other; the bus goes on in between.                           *)
PollTx ==
    /\ TaskRuns /\ pc = "poll" /\ (idx_tx < len \/ idx_rx < len)
    /\ IF idx_tx < len /\ txf < Depth
       THEN pc' = "sent" /\ idx_tx' = idx_tx + 1 /\ txf' = txf + 1
       ELSE pc' = "quiet" /\ UNCHANGED <<idx_tx, txf>>
    /\ UNCHANGED <<config, on, left, flags, ie, req, rxf, streams, status, isr, transmit, len,
                   idx_rx, expired, stalled, n, history>>

PollRx ==
    /\ TaskRuns /\ pc \in {"sent", "quiet"}
    /\ LET read == idx_rx < len /\ rxf > 0
       IN  /\ IF read THEN idx_rx' = idx_rx + 1 /\ rxf' = rxf - 1
                      ELSE UNCHANGED <<idx_rx, rxf>>
           /\ IF read \/ pc = "sent" THEN pc' = "poll" /\ expired' = FALSE
                                    ELSE pc' = "late" /\ UNCHANGED expired
    /\ UNCHANGED <<config, on, left, flags, ie, req, txf, streams, status, isr, transmit, len,
                   idx_tx, stalled, n, history>>

GiveUpNever == FALSE            \* mutant: a master waits for ever

GiveUp == expired

(* The clock is read after the flags, which may have come up meanwhile.    *)
Late ==
    /\ TaskRuns /\ pc = "late"
    /\ pc' = IF GiveUp THEN "end" ELSE "poll"
    /\ stalled' = GiveUp
    /\ UNCHANGED <<config, on, left, flags, ie, req, txf, rxf, streams, status, isr,
                   transmit, len, idx_tx, idx_rx, expired, n, history>>

AllMoved ==
    /\ TaskRuns /\ pc = "poll" /\ idx_tx = len /\ idx_rx = len /\ pc' = "eot"
    /\ UNCHANGED <<config, on, left, flags, ie, req, txf, rxf, streams, status, isr, block,
                   n, history>>

WaitEot ==
    /\ TaskRuns /\ pc = "eot" /\ pc' = "end"
    /\ "EOT" \in flags \/ GiveUp
    /\ stalled' \in {s \in BOOLEAN : IF s THEN GiveUp ELSE "EOT" \in flags}
    /\ UNCHANGED <<config, on, left, flags, ie, req, txf, rxf, streams, status, isr,
                   transmit, len, idx_tx, idx_rx, expired, n, history>>

BlockingEnd ==
    /\ TaskRuns /\ pc = "end" /\ pc' = "idle"
    /\ Disable /\ flags' = FlagsCleared
    /\ in_process' = FALSE /\ nss' = (nss /\ ~transmit)
    /\ UNCHANGED <<config, left, ie, req, streams, last_rx, last_len, last_errors, isr, block, n,
                   history>>

Expire ==
    /\ pc \in {"poll", "sent", "quiet", "late", "eot"} /\ expired' = TRUE
    /\ UNCHANGED <<config, on, left, flags, ie, req, txf, rxf, streams, status, isr, pc,
                   transmit, len, idx_tx, idx_rx, stalled, n, history>>

-----------------------------------------------------------------------------

Handler == IsrComplete \/ IsrReturn \/ IsrRestart

AbortStep == AbortMask \/ AbortStreams \/ AbortEnd

BlockingStep == PollTx \/ PollRx \/ Late \/ AllMoved \/ WaitEot \/ BlockingEnd

Next ==
    \/ Clock \/ DmaTx \/ DmaRx
    \/ Handler
    \/ TransceiveAsync \/ Abort \/ AbortStep
    \/ Blocking \/ BlockingStep \/ Expire

Spec == Init /\ [][Next]_vars

(* A master clocks, the streams serve their requests, the handler runs, a  *)
(* call is scheduled and its clock runs.  The master of a slave may stay   *)
(* silent, and nobody has to call the driver.                              *)
FairSpec ==
    /\ Spec
    /\ WF_vars(mode = "master" /\ Clock) /\ WF_vars(DmaTx) /\ WF_vars(DmaRx)
    /\ WF_vars(Handler) /\ WF_vars(AbortStep) /\ WF_vars(BlockingStep) /\ WF_vars(Expire)

-----------------------------------------------------------------------------

TypeOK ==
    /\ mode \in Modes /\ restarts \in BOOLEAN
    /\ on \in BOOLEAN /\ left \in 0..MaxLen /\ flags \subseteq {"EOT", "OVR"}
    /\ ie \in BOOLEAN /\ req \subseteq {"rx", "tx"} /\ txf \in 0..Depth /\ rxf \in 0..Depth
    /\ rx \in 0..MaxLen /\ tx \in 0..MaxLen /\ to \in 0..MaxTransfers
    /\ in_process \in BOOLEAN /\ last_rx \in BOOLEAN /\ last_errors \in {"none", "overrun"}
    /\ nss \in BOOLEAN
    /\ isr \in {"idle", "callback"}
    /\ pc \in {"idle", "abort", "masked", "halted", "poll", "sent", "quiet", "late", "eot", "end"}
    /\ transmit \in BOOLEAN /\ idx_tx \in 0..MaxLen /\ idx_rx \in 0..MaxLen
    /\ expired \in BOOLEAN /\ stalled \in BOOLEAN
    /\ n \in 0..MaxTransfers /\ len \in 0..MaxLen /\ last_len \in 0..MaxLen
    /\ got \in [Transfers -> Nat]
    /\ told \in [Transfers -> {"none", "clean", "overrun", "stopped", "twice"}]
    /\ stray \in BOOLEAN /\ tainted \in BOOLEAN

Waiting == n > 0 /\ told[n] = "none"

(* A receiving transfer that ended without an error has filled its buffer, *)
(* and no transfer writes the buffer of another: uni_hal_spi.h on          *)
(* uni_hal_spi_get_last_errors, "UNI_HAL_SPI_ERROR_NONE when the transfer  *)
(* was clean".                                                             *)
CleanMeansReceived ==
    /\ n > 0 /\ told[n] = "clean" /\ last_rx => got[n] = last_len
    /\ ~stray

(* That is so unless an earlier transfer overran and left its stream       *)
(* enabled; abort, or enough bytes of later transfers, disable it.         *)
CleanUntilOverrun == ~tainted => CleanMeansReceived

(* A transfer is reported or stopped, not both and not twice: once abort   *)
(* has stopped it, "the completion callback is not called", and no stale   *)
(* flag makes the interrupt of the next one.                               *)
OneOutcome == \A t \in Transfers : told[t] # "twice" /\ (t < n => told[t] # "none")

(* When the driver is not busy nothing of the last transfer is left to     *)
(* disturb the next one, however it ended; the receiving stream after an   *)
(* overrun is the exception.                                               *)
IdleIsClean ==
    TaskRuns /\ pc = "idle" /\ ~in_process =>
        /\ ~on /\ ~ie /\ flags = {} /\ req = {} /\ ~nss /\ tx = 0
        /\ ~Waiting /\ (~tainted => rx = 0)

(* A transfer of a master ends, and so does every call, even of a slave    *)
(* whose master stays silent.                                              *)
TransfersEnd ==
    (mode = "master" /\ in_process) \/ pc # "idle" ~> pc = "idle" /\ ~in_process
=============================================================================
