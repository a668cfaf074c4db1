# Uni.HAL in TLA+

A verification development for Uni.HAL, a hardware abstraction layer in C for STM32H743 and
STM32L496 microcontrollers. The modules model the drivers' own logic: what a task, an interrupt
handler and the peripheral do to each other's state. They are translated from the code under
`src/src`; the peripherals themselves (shift registers, flags, a bus) are external and modelled
from how the drivers use them.

## The system

| Component | State it keeps | Operations | Hard part | Modules |
|---|---|---|---|---|
| IO (`io/`) | one receive and one transmit buffer, statistics, the matching position of `receive_sync`, hooks | transmit, receive, receive until a pattern, clear, tunnel between two ports | several writers, resuming a search across calls | `UartPort`, `IoSync` |
| UART (`uart/`) | `in_transmission`, interrupt enables, flags | trigger hook, interrupt handler, `transmit_busy`, switching the interrupts | task, handler, nested handler of a tunnel and shift register in any order | `UartPort`, `UartH7`, `UartL4`, `ByteStream` |
| I2C (`i2c/`) | step of the transfer, waiting task, notification | blocking and interrupt-driven transfers, bus recovery, timing | completion after a timeout, two tasks | `I2cBus` |
| SPI (`spi/`) | busy flag, DMA streams, callback | blocking, asynchronous with DMA, abort | abort against completion, callbacks that start again | `Spi` |
| CAN (`can/`) | transmit slots, receive queue, callbacks, bus-off recovery | queue a frame, receive, filters, bit timing, DLC codes | slots reused by callbacks, flags that rise while the handler acknowledges, queue limits | `CanTx`, `CanRx`, `CanBus`, `CanFilter`, `CanTiming` |
| Flash (`flash/`) | bank lock, completion flags | erase, program in flash words, swap banks | completion after a timeout, resets | `Flash` |
| RCC (`rcc/`) | oscillators, PLLs, bus clocks, fall-back status, enable bits and multiplexers | one initialisation with fall-backs, clock calls for every driver | every failing oscillator, clock order, the NMI in mid-call, shared bits | `Clocks`, `PeriphClock` |
| RTC (`rtc/`) | backup domain, clock source | initialisation, set, get, backup registers | preserving the domain over resets | `Backup` |
| ADC (`adc/`) | ADC state, DMA target | initialisation, start, getters | failing half way, two ADCs in one block, overruns | `Adc` |
| DMA (`dma/`) | stream contexts, callbacks | initialise, start, stop, interrupt | flags of one stream cleared under another | in `Spi`, `Adc` |
| TIM (`tim/`) | overflow count, captured value | capture, PWM, start, stop, clear | overflow and capture at once | `Tim` |
| GPIO (`gpio/`) | pins, the context of each interrupt line | set-up, level, interrupt callback, tear-down | lines and vectors shared by pins | `Gpio` |
| CRC (`crc/`) | one unit | initialise, append, reset, calculate | cuts and alignment, contexts that share the unit | `Crc` |
| RNG, IWDG | one peripheral each | initialisation, one operation | initialisation order | clocks in `PeriphClock` |
| DWT, SysTick | cycle and millisecond counters | get, delay | wrap-around | time-outs in every model |
| PWR, core | registers | voltage, backup access, interrupts | order of voltage and frequency | in `Clocks`, `Backup` |
| Peripheral chips (`periph/`) | none, or shadow registers | register access over I2C and SPI | partial failure | none |
| SEGGER RTT, libc | none | output stubs | none | none |

Components call each other downwards only (UART on IO, IO on SysTick and the OS, SPI on DMA,
peripheral chips on I2C); upwards go callbacks (TC and IDLE of a UART, reception of CAN, the end
of a transfer), most of them in interrupt context. All shared state is shared between a task and
an interrupt handler, or between tasks without a lock.

## Serial ports: ByteStream, UartPort, UartH7, UartL4

`ByteStream` is the promise: bytes are accepted from callers and sent, each once, in order.
`UartPort` holds what both drivers share: the IO buffers, the USART registers the drivers touch,
the transmitter and receiver behind them, and the receive half of the handler. `UartH7` and
`UartL4` add the trigger hook, the transmit half of the handler and `uni_hal_usart_irq_enable`,
one action per register access of a task and one per part of the handler between which the
hardware or an interrupt of higher priority can act.

| Variable | In the code |
|---|---|
| `cr1` | TXEIE, TCIE, RXNEIE, IDLEIE |
| `flags` | TC, IDLE, ORE; TXE and RXNE are `tdr = <<>>` and `rdr # <<>>` |
| `tdr`, `shift`, `rdr`, `rx_active` | the USART's data registers and its receiver |
| `buf_tx`, `buf_rx`, `stats` | `uni_hal_io_context_t` |
| `in_transmission`, `de` | the driver's flag; what `tx_start` and `tx_end` switch |
| `isr`, `pc` | where the handler and each task are |
| `accepted`, `line`, `arrived`, `lost`, `received`, `tunnelled` | history only |

`Latency` says how slow interrupts are against characters: `any` (a character may end at any
moment, also inside the handler), `handler` (not while the handler runs), `none` (interrupts are
served before a character ends or a task goes on). The H7 is run with `any`. The L4 driver keeps its
promise only with `handler`: at TC it ends the transmission without looking at the buffer.
`Peer` are ports whose handlers preempt this one and forward into it through a tunnel.

Runs. Buffers of 2 bytes, two byte values, two tasks and three accepted bytes are enough for a
refused byte, for a refill while the last character is shifted out, for the next transmission and
for two trigger hooks overlapping each other; every flag can change at each point of the handler.
Four arriving characters fill a one-byte buffer, overrun it and overrun the receiver.

| Run | Shows |
|---|---|
| `UartLive` | both drivers (`MCUart`): soundness of `transmit_busy`, no forgotten bytes, everything accepted is sent in order; on the H7 (two tasks, any latency) every call returns; on the L4 (one task that sends up to two bytes, latency `handler`) with a busy receiver the order and the reporting of lost characters |
| `UartNested` | for both drivers, chosen in the initial state: the inductive invariant `PortInv` and `ByteStream` as refinement, with a tunnelling port, the interrupt switch and any latency |
| `UartH7BusyStuck` | finding: `transmit_busy` can stay true for good |
| `UartL4CallHangs` | finding: the L4 handler can starve the task that started it |

Fairness: the handler and the hardware do not stop, and a task inside a driver call gets the
processor again (weak fairness). On the L4 the end of a character is strongly fair: it is a
matter of time, however often the handler runs meanwhile. Nobody has to call the driver. The runs
under fairness set `CHECK_DEADLOCK FALSE`: traffic is bounded, and a port with no more traffic stops.

Proved (`UartPort_proofs`, `UartH7_proofs`, `UartL4_proofs`), for any number of tasks and peers,
any buffer size, any latency and any bound: `PortInv` is an invariant; hence `Conserved`,
`DriverCoversLine` and, without the interrupt switch, `NotBusyMeansDone`; and `Spec => StreamSpec`.
Of the receive half `ReceivedInOrder` and `LossReported`, and of the transmit half `NoStall`.
The argument: bytes move only along buffer, TDR, shift register, line (`Conserved`). That the
line driver may be released needs to know what TC means, which is `TransmitterInv` (TC up, or the
handler past its TC test, only with an empty transmitter), and that `transmit_busy` may be trusted
needs `TrackingInv` (no `in_transmission`, no byte in the transmitter). `TransmitterInv` is
inductive because a write to TDR takes TC down and only the handler writes TDR. The assumption is
`PortAssumption`: the constants have their types and the buffers hold something.

`ReceivedInOrder` needs that every character seen so far is older than the one in RDR (`OrderInv`);
`LossReported` is inductive once the types are known, because ORE goes down only where the overrun
is counted. `NoStall` needs `StallInv`: the handler comes to the steps that end a transmission only
with an empty buffer, and TCIE is armed only in a transmission. The theorems have the hypotheses that
the runs have, each for a reason in the code: `LossReported` of the H7 is without the interrupt
switch, which clears ORE unreported; `NoStall` is without the switch and without peers, for the gap
below, and on the L4 not with `Latency = "any"`, where TC ends a transmission with bytes left.
Liveness (`CallsOfH7Return` and `StreamFairSpec`) is model-checked only: it rests on fairness.

Known gaps, each a finding or left out by the constants or the wording of a property:

- A tunnelling handler of higher priority may write between the empty pop and `DisableIT_TXE` of
  the H7 handler (`uni_hal_uart_stm32h7.c:294`): its byte then waits for the next call. `NoStall`
  and `StreamFairSpec` are checked without peers.
- `transmit_busy` can stay true for good: a TC raised while the trigger hook has its interrupt off is
  cleared by the handler on an empty pop (`:298`) and nothing is left to reset the flag. `UartH7BusyStuck`
  shows it with one task and no latency. Switched off in mid-transmission it becomes false with a
  byte on its way (`:573`); `NotBusyMeansDone` is therefore stated without the switch.
- The trigger clears IDLE and may swallow the end-of-frame callback of the receiver (`:222`).
- A tunnel is set up in steps (`uni_hal_io_tunnel_c.c:28`) while handlers may use it; in the model it
  exists from the start.

## IO: searching the received bytes (`IoSync`)

`uni_hal_io_receive_sync` compares byte by byte and keeps one number, the length of the current
match. A call may time out in mid-pattern; the number is then stored in `buf_rx.sync_idx` and the
next call goes on from it. One step is one byte taken (`SyncByte`), with the whole body of the loop:
continue, succeed, or look for the longest overlap (`Overlaps`). `SyncTimeout` is the branch of a
read that found nothing after the time was over; `Expire` is the clock. `ReceiveData` and
`ReceiveClear` are the other readers; bytes come from `Push` at any moment and are dropped when the
buffer is full. When a stored match is longer than a new pattern the code compares memory behind the
pattern: `SyncBeyond` lets the index end anywhere.

`taken` keeps the last `Window` bytes of the open search. `MatchIsLongest` says the number is the
longest prefix of the pattern these bytes end with, which is what makes success come at the first
occurrence (`NothingMissed`) and only there (`KeptPatternFound`). The run `Streams` uses patterns
with borders of several lengths over two letters and all streams of them; two letters are enough
for every way two bytes can differ, and a window as long as the longest pattern forgets nothing
(lemma `RecentEnds`). `QuietCallReturns` assumes that the reading task is scheduled and its clock
runs; then a call returns once the line is quiet.

`switching` tells callers that keep a pattern they partly have from callers that may change it or
read data in between; both are explored. The latter can succeed on bytes that do not contain the
pattern, because `sync_idx` is resumed whatever pattern it belongs to; `KeptPatternFound` is
therefore promised to the former only.

Proved for every set of patterns, buffer size and window (`Drivers_proofs`): `MatchIsLongest`,
`KeptPatternFound`, `NothingMissed`. The argument is the one behind the Knuth-Morris-Pratt search:
one more byte can only extend a prefix that was matched before (`AppendEnds`), all of these are
inside the known match (`EndsWithin`, `OneMoreByte`), hence the candidates of the loop are all there
are (`Continued`, `Fallback`). `QuietCallReturns` is only model-checked.

Known gap: `uni_hal_io_receive_clear` of another task under a running `receive_sync`
(`uni_hal_io_c.c:230`) resets `sync_idx` and the buffer behind its back; one task reads in the model.

## I2C: transfers, timeouts and recovery (`I2cBus`)

The STM32L4 driver starts a memory transfer with `irq_enable`, notes the calling task in
`state.irq_task`, and sleeps until the interrupt handler notifies that task or the time is over. A
call that timed out leaves its transfer running: `xfer` is then `"stale"`, and the handler still
notifies whoever is in `irq_task`. A call is the steps `MemCall`, `WaitReady` (the loop on the HAL
state), `Arm` (note the task, forget earlier outcomes), `Start` (the HAL accepts or refuses; with a
timeout of 0 the call ends here), `Woken` or `WaitTimeout`; `Callback` can run between any two of
them. `I2cExpire` is the clock, for the loop and again for the wait. `BlockingCall`, `TrySuccess` and
`TryFailure` are `isready`, `master_receive` and `master_transmit`. With `irq_enable` off a memory
transfer is the wait for the bus followed by one blocking transfer; it is not modelled.

The driver has no lock: a second task that enters while one waits would overwrite `irq_task`. The
application keeps tasks apart, and the model starts a call only when no call runs.

The slave is the list of bits it still wants to send: empty when it has let go of SDA, arbitrary
after a transfer was cut short by `Restart`, `BusDeinit` or an error. `uni_hal_i2c_recover` is
`RecoverCall` (peripheral off), up to nine times `RecoverClock`, and `RecoverStop`, or
`RecoverNoPins` when the pins cannot be configured. The initialisation at the end may fail
(`Initialise`); `RecoverTells` asks that the driver is initialised when the answer is `true`. A slave
that holds SCL, which no clock can help, is not modelled: it ends in `false`.

The run `Streams` has two tasks here, which is enough for a late outcome to reach another task, and every
rest of up to `MaxBits` = 4 bits, enough for a slave that is freed, one that blocks the STOP
condition and one that does not hold the line at all. Fairness: the calling task is scheduled
(`CallStep`) and its clock runs (`I2cExpire`); the transfer itself may hang. Recovery stops sending
clocks at the first 1 bit of a slave in mid-byte; the clock of the STOP condition then brings the
next bit, and a 0 keeps SDA low although fewer than nine clocks were sent. The call returns `false`
(`RecoverTells`), and a repeated call goes on from there.

Proved for any number of tasks (`I2cBus_proofs`): `I2cTypeOK`, `SuccessMeansDone`, `WaiterInformed` and
`RecoverTells`.
The inductive invariant says that the HAL is busy while a transfer runs (`Handle`), that a transfer
belongs to the waiting call exactly until it ends, that `irq_task` is the waiting task, and that
nothing is pending when a transfer starts (`Caller`); without the last two, a late notification
could not be told from the awaited one. `RecoverTells` adds that a recovery without its STOP has not
answered `true`. `CallReturns` is a liveness property and only model-checked.

Known gaps: two tasks in a call at once would notify only the later one
(`uni_hal_i2c_stm32l4.c:538`), and after a timeout the transfer goes on writing to the caller's
buffer (`:566`); the model has neither, as the first is against the driver's use and the second has
no state in the driver.

## CAN: transmission (`CanTx`)

Both drivers put a frame into a free slot (an FDCAN buffer, a bxCAN mailbox), request it, and learn
later what became of it: the blocking `uni_hal_can_transmit` watches the request of its slot, and
the transmit interrupt reports slots that are done to a callback. One module models both; `driver`
says which, and whether FDCAN's buffers are dedicated (the lowest free one is taken) or a FIFO. The
put index of the FIFO and the bxCAN field `CODE` are taken to name any free slot.

| Model | FDCAN | bxCAN |
|---|---|---|
| `request`, `cancel` | `TXBRP`, `TXBCR` | mailboxes without `TME`, `ABRQ` |
| `success` | `TXBTO`, until the next request | `TXOK`, cleared with `RQCP` |
| `booked` | `tx_inflight`, set with the request, masked | `RQCP`, set by the peripheral |
| `flag` | `TC` or `TCF` in `IR` | none: `RQCP` is the interrupt |
| `tx_ok` | written, never read | read by a waiting call whose `TXOK` is gone |

A call is `Transmit` (find a slot), `Fill`, `Request`, `WaitDone` or `WaitTimeout`, and `Look`, once
for the flag of the peripheral and on bxCAN once more for `tx_ok`. The handler is `IsrAck`, `IsrTake`
(all slots that are done come off the books), `IsrReport` or `IsrReportSend` for one slot after the
other, `IsrExit`. It preempts the task before anything but the last reads of a waiting call, which
may come between the end of a frame and its interrupt. `FrameEnds` is the peripheral: a frame ends
sent, or lost because it was cancelled or its only attempt failed. `BusOff` is FDCAN's own stop and
the recovery by the status interrupt; `Stop` is the driver's, and a start that fails, which on FDCAN opens the configuration
and thereby throws pending frames away.

Only one task sends, and the callback is registered while nothing is pending, as the header asks.
The run `CanTx` has two slots: one for the frame in question and one whose handling it overlaps.
`OutcomeTold` is about the waiting call, `TaskFramesReported` about the callback, `NothingLeftBehind`
about the order of acknowledging and reading; `TransmitReturns` assumes that the handler ends, the
call is scheduled and its clock runs, while the bus may stay silent for ever.

When the callback sends as well, which the header allows, `EveryFrameReported` fails (as
an INVARIANT of `CanTx.cfg`): a frame that ends after `IsrTake` leaves its slot free, the callback
of another frame takes it, and the report of the first is lost. The waiting call can be misled the
same way, so `OutcomeTold` and `TransmitReturns` speak of callbacks that do not send.

Proved for any number of slots and both drivers (`CanTx_proofs`): `OutcomeTold`,
`TaskFramesReported` and `NothingLeftBehind`. The inductive invariant has four parts: outside the
handler everything that is done has raised its interrupt (`BooksOK`); the slot of a call is not on
its way through the handler (`SlotOK`); what is still to be reported of a slot can be read from
`booked`, `request` and `success` (`OwedOK`); and the fate of a blocking frame is visible in exactly
one place, the flag, the handler's hands or `tx_ok` (`FateOK`). `TransmitReturns` is only
model-checked. Not covered by a property are a frame that ends between the reading of `TXBRP` and
the clearing of `TC` (`uni_hal_can_stm32h7.c:963`) and the frames `uni_hal_can_stop` throws away
(`:776`), neither of which is reported to a callback.

## CAN: reception, error state, filters, bit timing (`CanRx`, `CanBus`, `CanFilter`, `CanTiming`)

`CanRx` (run `Streams`) has the two hardware FIFOs, the handlers that drain them and the queue. The H7
handler is `IrqH7` (flags taken and acknowledged), the drain one frame at a time, and the exit; the
L4 has a handler per FIFO. Frames arrive between any two of these. `FrameLeaves` says no frame gets
stuck, because a flag raised during the drain survives the acknowledgement; `ReceptionAccounted` that
what is lost was counted or reported, whether the full FIFO keeps what it has (H7) or overwrites its
newest frame (L4). FIFOs and queue of two and five frames let each overflow while
the other does not. Fairness: a pending interrupt is served.

`CanBus` (run `Drivers`) has `uni_hal_can_start`, `uni_hal_can_stop`, the error state and the status
interrupt with the recovery from bus-off. `ToldIsState` compares what the error callback was told
last with the node when no interrupt is pending. It is stated for FDCAN: bxCAN's handler reads ESR
before it acknowledges ERRI (`uni_hal_can_stm32l4.c:390`) and reports no recovery.

`CanFilter` writes one filter register at a time while frames arrive. `FilterExact` says what a bank
lets through between calls and during one, in words of four kinds of bits. The H7 does not look at
RTR, which the property excludes; FINIT of bxCAN is shared by both instances, and two tasks that set
filters at once can close it under each other (`uni_hal_can_stm32l4.c:628`): one task is modelled.

`CanTiming` is the search of `uni_hal_can_timing_calc` and `_data` for one clock and rate, one number
of quanta per step, against every setting the peripheral could take (`TimingBest`). The clocks tried
are all small ones and those around the limits of the prescaler.

Proved (`Drivers_proofs`), for FIFOs and queues of any size, any number of banks, any bound and any
clock and bit rate:

- `ReceptionAccounted`. `RxPlaced` says where the numbered frames are: each FIFO holds arrivals in
  order, all newer than those of the same FIFO that were got. `RxCounted` counts them: `Gone` has at
  least as many frames as were counted as dropped, and more only under an overrun flag or report. The
  cardinalities step by one because a frame leaves a FIFO into the queue or into `Gone`, never both.
- `ToldIsState`. `BusOnBooks` is what the handler owes: if the last report is wrong in the bit
  "passive" or in the bit "bus-off", that bit's flag is up or in the handler's hands. That alone does
  not survive a node that leaves the bus and comes back while the handler runs; `BusOffTold` adds that
  both flags then are in the same place.
- `FilterExact`. `FilterInv` says, for every step of a call, which filter's standard and extended
  frames the bank lets through (`StdHolds`, `ExtHolds`), on bxCAN what the words of an active bank are
  while reception is off. The lemmas about `Equal` are where the format bits of the words come in.

- `TimingBest`. Two facts about numbers carry it: the split the code computes for a number of quanta is
  valid and closest to the sample point whenever any split of that number is (`SplitsAre`, one
  instance for each of the 18 and 21 numbers of quanta, both exact in the code's integer divisions),
  and a setting gives exactly the bit rate if and only if its number of quanta divides the ticks of a
  bit (`ExactDivides`). `TimingInv` is the search: what is kept is the best of the numbers tried, and
  of equals the one with most quanta.

`FrameLeaves` is a liveness property and only model-checked.

## SPI: the STM32H743 driver (`Spi`)

A transfer can be blocking (`uni_hal_spi_transmit`, `_receive`, `_transmitreceive`, a polling loop)
or asynchronous: `uni_hal_spi_transceive_async` sets up one or two DMA streams, the peripheral
raises EOT after the last byte, the interrupt reads the errors, switches everything off and calls
the application's callback, which may start the next transfer. `uni_hal_spi_abort` ends an
asynchronous transfer from a task.

| Variable | In the code |
|---|---|
| `on`, `left`, `flags`, `ie`, `req` | SPE, the bytes of TSIZE still to be carried, EOT and OVR, EOTIE, the DMA request enables |
| `txf`, `rxf` | the number of bytes in the FIFOs |
| `rx`, `tx`, `to` | what the streams have still to move (`NDTR`; 0 means disabled), and the buffer the receiving one writes |
| `in_process`, `last_rx`, `last_len`, `last_errors` | the driver's status |
| `nss` | the slave is selected by software |
| `isr`, `pc` | where the handler and the calling task are |
| `n`, `got`, `told`, `stray`, `tainted` | history: which transfer it is, what its buffer received, how it ended |

`TransceiveAsync` is the whole call: the interrupt that belongs to it comes last. `Abort`,
`AbortMask`, `AbortStreams` and `AbortEnd` are the four parts of abort between which the transfer
can still end, or its last byte arrive. `Blocking`, `PollTx`, `PollRx`, `Late`, `AllMoved`, `WaitEot`
and `BlockingEnd` are a blocking call. Writing a byte, reading one and looking at the clock are three
steps: a task that is preempted after the write can lose a byte to an overrun, and then only the
stall time-out ends the call. `IsrComplete` is the handler up to its callback.
`Clock`, `DmaTx` and `DmaRx` are the peripheral and the streams: a byte that finds the FIFO full is
lost and raises OVR, a stream that is still enabled ignores its set-up, as the comment in abort says.

Assumed of callers and hardware: one task uses the driver and asks `uni_hal_spi_is_busy` first; an
asynchronous transfer of a master has data to send and one of a slave receives only, as the driver
sets the bus up; blocking calls are a master's. When the handler runs, the receiving stream has
moved what was in the FIFO. Errors other than an overrun, and the cache, are left out.

Runs. `Spi` has a FIFO of one byte, transfers of one or two bytes and three of them: one can
overrun, the second meet the stream that was left enabled, and the third find it used up or
still in the way; each can be aborted at every point, and blocking transfers come in between.
`SpiStaleStream` is the finding: after an overrun the stream is still short of its count, the next
transfer's bytes go into the buffer of the earlier one, and the callback is told that all is well.
`CleanUntilOverrun` is what remains true: until a transfer has overrun, and again once abort or later
bytes have disabled the stream, a clean transfer has filled its own buffer.

A transfer that only transmits has nobody to empty the receive FIFO: if it is longer than the FIFO
it always reports an overrun. Nothing says what that error means for it, so no property forbids it.

Fairness: a master clocks, streams serve their requests, the handler ends, a call in progress is
scheduled and its clock runs. The master of a slave may stay silent for ever, and nobody has to
call; hence `TransfersEnd` speaks of a master's transfers and of calls. When all transfers are
used up the model stops (`CHECK_DEADLOCK FALSE`).

Proved for any depth, length and number of transfers (`Spi_proofs`): type correctness,
`CleanUntilOverrun`, `OneOutcome` and `IdleIsClean`. A transfer that has not ended owns the peripheral, the
interrupt, the requests and the streams (`PhaseOK`, `StreamsOK`); while it does, received bytes,
bytes in the FIFO and bytes to come add up to its length unless one was lost (`CountOK`), so that
EOT without OVR and an idle stream means a full buffer (`ToldOK`). The assumption is
`SpiAssumption`, the types of the constants. `TransfersEnd` is only model-checked.

## Clocks: initialisation and the loss of the crystal (`Clocks`)

`uni_hal_rcc_init` starts the oscillators, programs the PLLs and moves the system clock, with the
flash wait states and on the H7 the voltage raised before a faster clock and lowered after a slower
one. Each start, lock and switch may fail by a time-out. When the crystal (HSE) stops under the clock
security system, the NMI runs `_pll` and `_sysclk` again, the functions that the task may be in the
middle of. Both run as the same actions with a context, `"task"` or `"nmi"`.

| Model | In the code |
|---|---|
| `osc`, `pll`, `pllsrc`, `div`, `sw`, `want`, `ahb`, `vos`, `lat`, `css` | registers of RCC, PWR and FLASH |
| `st_osc`, `st_pll`, `st_sys`, `inited` | `g_uni_hal_rcc_status` |
| `RccInit`, `HseH7`, `HseL4`, `Csi`, `Hsi` | oscillators, up or timed out |
| `PllChoose` to `PllEnd` | `_uni_hal_stm_rcc_pll`, one action per PLL and register step |
| `SysChoose` to `SysAdjust`, `End` | `_uni_hal_stm_rcc_sysclk` |
| `HseFailure` | the NMI handlers |

The oscillators have the frequencies of the two boards the drivers are written for; what PLL1 may
deliver is a constant (`H7Freqs`, `L4Freqs`), and the latency tables are those of the code. The
voltage has two variables: `vos` is the scale in the register, which `uni_hal_pwr_init` leaves as it
asked for it when a wait times out and which the flash driver reads; `level` is the scale the
regulator has reached, which is what the flash needs. `FlashCovers` looks at every state, not only at
the end of a call. `StatusTrue` is about a settled system.

The run `Clocks` has PLL1 switched off and at 80, 120 and 480 MHz on the H7 (in
the first and second row of the VOS3 table, and beyond VOS1) and at 48 and 80 MHz on the L4; two PLLs
on the H7 are enough for one that is needed and one that is not, and two calls for one that repeats
another that failed. `InitReturns` needs the code to run (`CodeStep`) and switches that are under
way to happen (`Hardware`); a lock or an oscillator need not come.

Left out by the properties, because the code does not keep them:

- `_uni_hal_stm_rcc_sysclk` sets the wait states of the clock to come before
  the AHB prescaler (`uni_hal_rcc_stm32h7.c:671`, `:678`). With PLL1P at 90 MHz or less at VOS3 they
  are 0 while the AXI clock still is HSI undivided, 64 MHz, which needs 1. `SetEarly` is that one
  step; `FlashTableKept` states the rule without the exception and fails as an INVARIANT of this run.
- When a wait of `uni_hal_pwr_init` times out, the register has a scale that the regulator has not
  reached, and the table read is the wrong one (`VoltageTrue`); the application has been told.
- The NMI does not look at `g_uni_hal_rcc_reconfig_in_progress`; when it strikes while a call is in
  `_pll` or `_sysclk` and PLL1 is not the system clock, the call goes on with a status that is no
  longer true (`uni_hal_rcc_stm32h7.c:1822`). `hit` tells these cases from the others.
- Without `scale` an L4 PLL runs at another frequency from an internal oscillator, and the wait
  states belong to the nominal one (`Portable`). The L4 handler also runs its PLL at the wait states
  of the internal oscillator while it waits.
- The SysTick does not advance in the NMI, so the L4 handler waits for a lock that may never come
  (`uni_hal_rcc_stm32l4.c:371`): `NmiStuck`.
- After a second call that fails, the H7 status may be that of the first one.

Proved (`Clocks_proofs`) for both chips, any frequencies of PLL1 (up to 80 MHz on the L4, even
numbers of MHz on the H7) and any number of PLLs and calls, from `ClocksAssumption`
alone:

- `FlashCovers`. `ClkInv` follows the order of the code: a PLL that is on runs from the source its
  divider was written for (`PllKnown`), a PLL1 that is chosen for the system clock is on
  (`PllReported`), and the wait states are enough for it from the moment it is asked for (`SpeedOK`),
  on the STM32H7 for undivided HSI until the prescaler is set. Task and handler are never in
  `_pll` or `_sysclk` together in the cases the property is about; what else the handler needs is
  that it finds nothing reported (`pc["nmi"]` in the first steps means `st_pll = {}`).
- `StatusTrue`. `StatInv` adds which of the reported PLLs are locked at each step of the loop over
  them (`PllsTold`) and that the source chosen for the system clock stays the best one reported until
  the report is made (`SysTold`). It holds while `Steady`: a failure of the crystal, if any, came
  after the first call had succeeded, and there was no second one.

That the tables give enough wait states is a lemma about their shape (`SelectedCovers`): whatever row
the driver selects, its limit is not below the clock.

## Peripheral clocks (`PeriphClock`)

The enable bits, kernel clock multiplexers and clock outputs of the RCC, and the initialisation of
every driver as the sequence of RCC calls it makes. `Start` is one initialisation, in the chip's
order and with its early returns; `Switch` is `uni_hal_rcc_clk_set` by the application; `McoEnable`
routes a clock to a pin. `ClkSet` returns what the code returns, which is not always what it did:

- the L4 refuses a clock that already has the asked state (`uni_hal_rcc_stm32l4.c:771`), against
  `uni_hal_rcc.h:91`: `ClkSetTold` states the header's line and fails;
- the L4 disables UART 2 to 5 in APB2, where these bits are those of other peripherals
  (`uni_hal_rcc_stm32l4.c:1023`), and so may take the clock of TIM16 or TIM17 away;
- the H7 has no answer for some of the peripherals it can switch (`OnlySetH7`), none for the source
  of USART1 and USART6, and none for TIM 12 to 14, whose failure `uni_hal_tim_init` overwrites.

`StartedClocked` says that a driver that reports success keeps its clock and, when all users of a
multiplexer agree on the source, the rate it computed with. The users in `MCDrivers` share bits and
multiplexers in every way the table of the chips has; three starts and two switches let one user
disturb another and a third one retry. Enable registers are changed in one step: two tasks in the
RCC driver at once are not modelled.

Proved for any set of users (`StartedIsClocked` in `Clocks_proofs`): `StartedClocked`. The inductive
invariant adds to it that a multiplexer whose users agree carries their source if it takes it
(`SourceKept`), without which a later user that asks for the same source could still move it. The
assumption `ClockAssumption` says that no driver asks for the clock of the power controller, which on
the H7 has no bit; `uni_hal_rcc_init` alone does.

## Other drivers (runs `Drivers` and `Domain`)

Drivers that share no state are checked in one run: `Drivers` (module `MCDrivers`) has `Tim`,
`PeriphClock`, `Flash`, `CanBus`, `CanFilter`, `CanTiming` and `Crc`, `Domain` (module `MCDomain`) has
`Adc`, `Backup` and `Gpio`. `part` says whose behaviour it is, the others stay at their initial states.
Each driver is a module of its own with its own `Init`, `Next` and invariant. The bounds are in the
`.cfg` files; the paragraphs below say why they suffice. A behaviour stops when its bounds are used
up (`CHECK_DEADLOCK FALSE`).

**`Adc`.** Initialisation step by step (clock, DMA, common block, sequence, calibration, enable,
trigger), each of which may time out, for two ADCs in one block or in two, and again for one that
converts, which nothing in the code refuses; conversions, the DMA's pointer into the array, overruns
and transfer errors come at any moment. `ChannelTrue` compares each getter with the channel that was
really sampled, and asks that it was connected if the initialisation connects it at all (`Served`).
Configurations differ in DMA, channels that are pins or internal, and dividers that exist or not;
four initialisations are enough for one that fails, its repetition, and two of the other ADC in
between. On the STM32H7 a channel's pin is connected when its bit in
PCSEL is set, and `uni_hal_adc_stm32h7.c:650` sets that of `channels[0]` only; the ranks and sampling
times set for the others do not, so the second channel's samples are not
its pin's: `ChannelConnected` asks for the connection of every pin and fails as an INVARIANT of `Domain`.
Known: an overrun
shifts array and sequence on the L4 and freezes the H7, and a stream that a transfer error has
stopped is started at the array's begin under a running sequence when its ADC is initialised again
(`shifted`; `ChannelTrueAlways` leaves neither out, and fails); the internal channels are not connected
when the block is in use; an L4 ADC that is initialised again reports that this failed, because its
clock is on, and is taken for not initialised while it goes on converting; the handlers of some L4
DMA channels are empty, so an error keeps their interrupt pending for ever (`TaskRuns`); two tasks
that initialise ADCs of one block race for it.

**`Tim`.** Input capture of the L4: `Tick` is the counter, `Edge` the input, `IrqUpdate` and the
steps of `IrqCapture` the two interrupts, with start, clear and stop of a task. `PeriodTrue` says a
valid period is the distance of the last edges, on either side of an overflow. A period of 6 ticks, a
latency below half of it (the assumption the code itself makes) and a counter of overflows that wraps
after `CountSize` periods let an edge fall on, before and after an overflow with either interrupt
first, and two calls for a start of a timer that runs (`StartAgain`, `StartFlags`): it counts on, and
the interrupts come between the writes. A period of more than 32 bits, for which the code reports
none (`uni_hal_tim_stm32l4.c:418`), is not told from others. Known: an edge before the counter runs
or between the writes of a start, an overcapture between its check and the reading,
the lap in which the overflow count wraps.

**`Flash`** (H7). Calls with an interrupt-driven erase that may time out and end later, in the middle
of the next call; writes word by word; resets during an erase; swapped banks. `FlashTold`: what a call
answers is true of the flash, and nothing else has changed. Two sectors a bank, ranges at the edge of
words, sectors, banks and the end of the flash, and three calls. Known: an end that comes between
`_uni_hal_flash_done_clear` and the start of the next erase is taken for its own (`raced`).

**`Backup`.** The backup domain over boots and resets: the RTC's initialisation and the setting of the
calendar register by register, backup registers, and the RCC and PWR calls of another task, which
open the access to the domain for their own write and close it again (`OtherCall`, `OtherReturn`)
although `uni_hal_rtc.h:104` says it stays open. `LL_RTC_Init`, `LL_RTC_DATE_Init` and
`LL_RTC_TIME_Init` are one sequence with a `job`: ask for the initialisation mode, wait, write, leave,
wait for the calendar (`RtcEnterInit` to `RtcSync`); each write is lost if the access is closed by then.
`BackupKept`: what was reported as written survives until a reset of the domain was asked for, and an
RTC that reports to be initialised has a clock, its prescalers and, if it says so, a calendar. Boards
are all combinations of chip, source and permissions; three boots and three calls let a move be cut
by a reset and be met by the next boot. Finding (run `RtcCut`, module `MCBackup`): a call of another driver in the wait
for the initialisation mode loses the write of the prescalers, and the initialisation reports success
(`uni_hal_rtc_stm32.c:191`). `disturbed` marks a domain in which that has happened, to which the second
half of `BackupKept` does not apply until the domain is reset or the mode is left. Known: the domain's
reset bit stays set when a reset comes between its two writes; date and time are set one after the
other, so a failure in between leaves half of them (`half_set`), and a date in the year 2000 leaves
INITS clear (`uni_hal_rtc.h:90`); the H7 starts its LSI only when the crystal has failed, so an RTC on
LSI stops once the crystal works; `uni_hal_rcc_clksrc_set` answers true for an RTC source that is
written once.

**`Gpio`.** Pins with their configuration, level and tear-down, and the interrupt lines that pins of
one number share. A registration is eight steps (`SetInterruptCallback` to `EnableLine`), between
which edges and handlers come; a handler serves each latched line of its vector. `EdgesAnswered`: a
complete registration keeps its line, its edges and its callback whatever other contexts of the same
line or vector do, and no callback of a context that is not initialised runs. `PinsDriven`: an output
never drives a level that was not asked for, not while it becomes one either. Two pins on one line,
a third on the same vector, five calls and two edges are enough for one pin to take a line from
another and for the first to be torn down afterwards. The application may switch the clock of SYSCFG
(`SyscfgClock`); a registration without it reports success but leaves the line at its old port, and
the property asks nothing of such a line. Known: during a registration a stale edge can
still reach the new callback, because the line has its new context before it is routed
(`uni_hal_gpio_stm32l4.c:583`) and `LL_EXTI_Init` unmasks it before the flag is cleared (`:603`),
against the comment at `:600`; a second registration of one context pairs the new callback with the
old cookie for one step.

**`Crc`.** One unit for all contexts. Its data register is kept as initial value and bytes fed, which
is what a CRC is a function of; the polynomial is a register of its own. `CrcSame`: the value a context
reads is the one of its own polynomial over the bytes it appended, for every cut, alignment and
driver, as long as no other context has used the unit since. Up to seven bytes a call reach every
tail, alone and behind a word, at both alignments. Known: `uni_hal_crc_reset` does not put the
polynomial back, so a context that is used after the initialisation of another one computes with the
other's polynomial; and on the L4 a second context cannot be initialised at all, as its clock is
already on.

Proved (`Drivers_proofs`), for every value of the constants the assumptions allow:

- `FlashTold`, for any number of sectors and any ranges of addresses. `BoundsInv`: no word outside
  `may_change` has changed, and what the hardware or the call still erases is inside. `EraseInv`: as
  long as nothing failed, timed out or raced, each claimed word is erased or in a sector the call has
  still to erase, and a completed signal means that its own sector is. That a range's sectors are the
  ones its addresses touch is arithmetic of its own (`SectorNumbers`, `SectorsOfRange`).
- `PinsServed`, for any pins, edges and contexts, if a pin has one context and contexts are those the
  types allow (`GpioAssumption`). `PinInv` is about the steps in which a pin becomes an output;
  `LineInv` says how far a registration has come and that its line promises nothing meanwhile.

- `ChannelTrue`, for any configurations of one to sixteen channels (`AdcAssumption`; the data array
  has sixteen places) and any number of initialisations and faults. The invariant says of each ADC
  (`AdcHolds`) that its sequence is that of its channels once an initialisation has passed the
  configuration, its first one preselected (`SetUp`), that the internal channels stay connected from the moment it has found
  its block free until another finds it free again, which needs it disabled (`Connected`), that the
  stream is at the rank the converter is at (`Aligned`), and that the array holds samples of the
  channels it is read for (`Filled`). Each is needed for the last.
- `PeriodTrue`, for every period, size of the overflow count and latency below half a period
  (`TimAssumption`), which is what the code needs and cannot check. `LapsCounted`: overflows counted
  and pending are the laps of the counter. `InService`: without an overcapture the interrupt works on
  the edge that asked for it, less than a latency old; `CapturedIs` follows, by the four cases of an
  overflow pending or not and an edge before or after it. `ChannelHolds` keeps lap and count of the
  edge before, so that `DeltaIs` gives the distance.
- `CrcSame`, for any contexts and messages of any length. `CrcInv`: the context that has used the unit
  alone has its polynomial in it, and the data register stands for its initial value and its bytes.
  The step rests on `FedIs`: the words the drivers write, joined, are the bytes given (`WordsH7Are`,
  `WordsL4Are`), by `FlattenIs`: a sequence cut in pieces is what the pieces give when they are
  joined. The join is a recursive function; the prefixes up to each cut satisfy its equation, and a
  least index at which two solutions differ cannot exist (`LeastExists`), which replaces an
  induction. `CrcAssumption` only says that no context is the value the model has for none.

Proved in `Clocks_proofs`:

- `BackupKept`, for any boards. A domain whose INITS is set has a clock, its prescalers and a calendar
  (`ClockMade`, `CalendarMade`), in the middle of a call too; the initialisation mode is asked for
  with access and left with it, unless disturbed (`ModeInv`), and a job that nobody has disturbed is in
  the mode it asked for (`JobInv`); and the domain is reset by the RTC driver only if nothing of it
  is relied on or the loss was accepted.

## Plan

The order is by how much a mistake would cost and how little a unit test would reach it.

| Step | Modules | Content | State |
|---|---|---|---|
| 1 | `UartPort`, `UartH7`, `UartL4`, `ByteStream` | both UART drivers, against a reliable stream | done, proved |
| 2 | `IoSync` | `receive_sync` and the reading side of the buffers | done, proved |
| 3 | `I2cBus` | calls, callbacks and recovery of the STM32L4 driver | done, proved |
| 4 | `CanTx` | transmission of both CAN drivers | done, proved |
| 5 | `Spi` | STM32H7 SPI: blocking, asynchronous, abort, with the DMA streams it uses | done, proved |
| 6 | `CanRx`, `CanBus`, `CanFilter`, `CanTiming` | reception, error state and bus-off, filters, bit timing of both drivers | done, proved |
| 7 | `Clocks` | initialisation of both clock trees and the NMI: fall-backs, latency and voltage before frequency | done, proved |
| 8 | `PeriphClock` | enable bits, multiplexers, clock outputs and every initialisation that uses them | done, proved |
| 9 | `Flash`, `Backup` | erase, program and bank swap; the backup domain and the RTC over resets | done, proved |
| 10 | `Adc`, `Tim` | sequences against the data array with DMA; input capture | done, proved |
| 11 | `Gpio`, `Crc` | pins and shared interrupt lines; the CRC unit | done, proved |
| 12 | `Drivers_proofs`, `Clocks_proofs` | inductive invariants for steps 2 and 6 to 11 | done |
| 13 | `Periph` | MCP23017, ADS1015, CY15B064J over a bus that may fail at each transfer | open |
| 14 | `Timing` | DWT waits, TIM prescalers, I2C timing words, with the width of the registers | open |

**Abstract specifications.** `ByteStream` is refined by both UART drivers. Worth stating next: a
one-slot transfer with exactly one outcome (SPI `transceive_async`, abort and callback; the blocking
forms of I2C), and a memory of words that are erased or hold one value (`Flash`).

**Composition.** `UartH7` and `UartL4` share `UartPort`, and `UartNested` runs both with a second
port. `Adc` contains the DMA stream it uses, `PeriphClock` the initialisations of all drivers over one
RCC, `Backup` the RTC with the RCC and PWR calls of others. A driver that exists for both chips is one
module with the chip as a variable chosen in the initial state, so that one run checks both. Small
modules that share no state are checked in one run: `Drivers`, `Domain`
(the larger `Adc`, `Backup` and `Gpio`) and `Streams` (`IoSync`, `CanRx` and `I2cBus`), each a module
`MC...` whose `part` says which of them a behaviour belongs to.

**Runs and bounds.** Two transfers, frames or registrations per actor, one interruption at each
point, and timers that expire at any moment; a violation run only where a documented promise is not
kept.

## Not modelled, and why

- IWDG, DWT and SysTick: one register each; time-outs expire at any moment in every model.
- RNG reading, PWM output, PWR and core calls other than those above: a wait or a register write
  without state of the driver.
- Memory-to-memory DMA, the STM32H7 I2C and STM32L4 SPI transfers: one blocking loop each.
- The peripheral chips: one to three bus transfers a call, of which the driver keeps nothing.
- Conversions: raw ADC values to volts and degrees, calendar dates, CAN frames to register words.
- The PC stand-ins (`*_pc.c`): they return constants for host builds.
- SEGGER RTT and libc stubs: output only.
- The OS layer: macros over FreeRTOS; the models use what they guarantee (a notification is kept
  until taken, a wait ends at its time-out, a tick advances).
- Electrical behaviour and the register set-up of pins inside the modelled drivers.
