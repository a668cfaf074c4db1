--------------------------------- MODULE Adc ---------------------------------
(***************************************************************************)
(* The ADC drivers with their circular DMA: the initialisation, one step   *)
(* of it at a time, while ADCs that are already up convert their sequence  *)
(* into the data array the getters read. ADC1..3 of the STM32L4 share one  *)
(* common block, on the STM32H7 ADC3 has its own.                          *)
(***************************************************************************)
EXTENDS Integers, Sequences, FiniteSetsExt, SequencesExt

CONSTANTS
    AdcConfigs,     \* functions from Adcs to uni_hal_adc_config_t that are tried
    MaxInits,       \* bound: calls of uni_hal_adc_init
    MaxFaults       \* bound: pins, clocks and DMA streams that fail to set up

Adcs == {2, 3}

\* The array holds 16 channels; a call without any does nothing.
ASSUME AdcAssumption ==
    /\ MaxInits \in Nat /\ MaxFaults \in Nat
    /\ \A c \in AdcConfigs, a \in Adcs :
          c[a].channels \in Seq(Nat) /\ Len(c[a].channels) \in 1..16

VARIABLES
    chip,
    config,         \* of each ADC
    initialized,    \* state.initialized
    init_of,        \* the ADC being initialised, or 0
    init_step,      \* where its initialisation is
    init_result,    \* what it returns so far
    converter,      \* of each ADC: registers and position in the sequence
    paths,          \* internal channels that are connected, by common block
    dma,            \* DMA stream of each ADC
    data,           \* the array of each configuration
    clocked,        \* clock of the ADCs: the STM32L4 has one bit for all
    skipped,        \* history: ADCs that found their common block in use
    shifted,        \* history: ADCs that have lost a sample to an overrun, or whose
                    \* stream has been started again under a running sequence
    inits, faults

adcVars == <<chip, config, initialized, init_of, init_step, init_result, converter, paths,
             dma, data, clocked, skipped, shifted, inits, faults>>
fixed == <<chip, config>>
initVars == <<init_of, init_step, init_result, initialized>>

Unset == <<>>

AdcInit ==
    /\ chip \in {"h7", "l4"} /\ config \in AdcConfigs
    /\ initialized = [a \in Adcs |-> FALSE]
    /\ init_of = 0 /\ init_step = "idle" /\ init_result = FALSE
    /\ converter = [a \in Adcs |->
           [calibrating |-> FALSE, aden |-> FALSE, adrdy |-> FALSE, adstart |-> FALSE,
            sequence |-> <<>>, pcsel |-> {}, next |-> 1, ovr |-> FALSE]]
    /\ paths = [b \in {12, 3} |-> {}]
    /\ dma = [a \in Adcs |->
                [inited |-> FALSE, length |-> 0, en |-> FALSE, next |-> 1, te |-> FALSE]]
    /\ data = [a \in Adcs |-> [r \in DOMAIN config[a].channels |-> Unset]]
    /\ clocked = FALSE /\ skipped = {} /\ shifted = {} /\ inits = 0 /\ faults = 0

-----------------------------------------------------------------------------
(* The settings. A setting the ADC does not have fails the initialisation.  *)
Block(a) == IF chip = "h7" /\ a = 3 THEN 3 ELSE 12

ChannelH7(ch) == CASE ch = 20 -> "REFINT" [] ch = 21 -> "TEMPSENSOR" [] ch = 22 -> "VBAT"
                   [] OTHER -> "pin"
ChannelL4(ch) == CASE ch = 19 -> "REFINT" [] ch = 20 -> "TEMPSENSOR" [] ch = 21 -> "VBAT"
                   [] OTHER -> "pin"
Channel(ch) == IF chip = "h7" THEN ChannelH7(ch) ELSE ChannelL4(ch)

AsyncDividers == {1, 2, 4, 6, 8, 10, 12, 16, 32, 64, 128, 256}
SyncDividers == {1, 2, 4}
Divider(c, default) == IF c.divider = 0 THEN default ELSE c.divider
ClockH7(c) == IF c.sync THEN Divider(c, 1) \in SyncDividers ELSE Divider(c, 8) \in AsyncDividers
ClockL4(c) == Divider(c, 1) \in (IF c.sync THEN SyncDividers ELSE AsyncDividers)
HasClock(c) == IF chip = "h7" THEN ClockH7(c) ELSE ClockL4(c)

\* The shortest sampling time that is long enough; 0 asks for the longest.
LongEnough(times, cycles) == IF cycles = 0 THEN {Max(times)} ELSE {t \in times : t >= cycles}
SamplingH7(cycles) == LongEnough({1, 2, 8, 16, 32, 64, 387, 810}, cycles)
SamplingL4(cycles) == LongEnough({2, 6, 12, 24, 47, 92, 247, 640}, cycles)
ResolutionH7 == {0, 8, 10, 12, 14, 16}
ResolutionL4 == {0, 6, 8, 10, 12}

HasSettings(c) ==
    IF chip = "h7" THEN SamplingH7(c.sampling) # {} /\ c.resolution \in ResolutionH7
    ELSE SamplingL4(c.sampling) # {} /\ c.resolution \in ResolutionL4

ScanLength(n) == IF n \in 2..16 THEN n ELSE 1
Rank(i) == IF i \in 1..16 THEN i ELSE 0

-----------------------------------------------------------------------------
(* uni_hal_adc_init.                                                        *)
\* an endless interrupt keeps the task from running
TaskRuns == \A a \in Adcs : ~dma[a].te /\ ~(chip = "l4" /\ converter[a].ovr)

At(step) == init_step = step /\ TaskRuns
Goto(step, ok) ==
    /\ init_step' = step /\ init_result' = ok
    /\ UNCHANGED <<init_of, initialized, clocked, fixed, inits>>

Works(ok) == faults' = faults + (IF ok THEN 0 ELSE 1) /\ faults' <= MaxFaults

\* Pins, kernel clock source and clock of the ADC: the STM32L4 refuses a clock
\* that is already on. Nothing asks whether the ADC is up.
InitCall(a) ==
    /\ init_of = 0 /\ TaskRuns /\ inits < MaxInits
    /\ inits' = inits + 1 /\ init_of' = a /\ init_step' = "dma"
    /\ \E ok \in BOOLEAN : Works(ok) /\ init_result' = (ok /\ ~(chip = "l4" /\ clocked))
    /\ clocked' = TRUE
    /\ UNCHANGED <<initialized, converter, paths, dma, data, skipped, shifted, fixed>>

\* The registers of a stream that is enabled do not change.
Configured(d) ==
    IF d.en THEN d ELSE [d EXCEPT !.length = Len(config[init_of].channels), !.next = 1]

DmaInited(ok) == dma[init_of].inited \/ ok

DmaH7(ok) ==
    LET d == [Configured(dma[init_of]) EXCEPT !.inited = DmaInited(ok)]
    IN  /\ dma' = [dma EXCEPT ![init_of] = [d EXCEPT !.en = @ \/ d.inited]]
        /\ Goto("common", d.inited /\ init_result)

DmaL4(ok) ==
    LET d == Configured(dma[init_of])
    IN  /\ dma' = IF init_result /\ DmaInited(ok)
                  THEN [dma EXCEPT ![init_of] = [d EXCEPT !.inited = TRUE, !.en = TRUE]]
                  ELSE dma
        /\ Goto("common", init_result /\ DmaInited(ok))

\* A stream that a transfer error has stopped starts at the array's begin.
Restarts ==
    dma'[init_of].en /\ ~dma[init_of].en /\ converter[init_of].adstart

InitDma ==
    /\ At("dma")
    /\ \E ok \in BOOLEAN :
           /\ Works(ok)
           /\ IF config[init_of].dma
              THEN IF chip = "h7" THEN DmaH7(ok) ELSE DmaL4(ok)
              ELSE ok /\ UNCHANGED dma /\ Goto("common", init_result)
    /\ shifted' = shifted \cup {a \in {init_of} : Restarts}
    /\ UNCHANGED <<converter, paths, data, skipped>>

AlwaysFree(b) == TRUE       \* mutant: the block is set up whoever uses it

BlockFree(b) == \A a \in Adcs : Block(a) = b => ~converter[a].aden

ConfigureCommon ==
    /\ At("common")
    /\ LET b == Block(init_of)
           wanted == {Channel(ch) : ch \in ToSet(config[init_of].channels)} \ {"pin"}
       IN  IF HasClock(config[init_of]) /\ BlockFree(b)
           THEN paths' = [paths EXCEPT ![b] = wanted] /\ skipped' = skipped \ {init_of}
           ELSE /\ UNCHANGED paths
                /\ skipped' = IF HasClock(config[init_of]) /\ ~converter[init_of].aden
                              THEN skipped \cup {init_of} ELSE skipped
    /\ Goto("configure", HasClock(config[init_of]) /\ init_result)
    /\ UNCHANGED <<converter, dma, data, shifted, faults>>

\* The STM32H7 connects a channel to the converter when it is preselected.
Preselected(c) == IF chip = "h7" THEN {c.channels[1]} ELSE {}

Configure ==
    /\ At("configure")
    /\ LET c == config[init_of]  n == Len(c.channels) IN
       /\ converter' =
              IF HasSettings(c)
              THEN [converter EXCEPT
                       ![init_of].sequence = [i \in 1..ScanLength(n) |-> c.channels[Rank(i)]],
                       ![init_of].pcsel = @ \cup Preselected(c)]
              ELSE converter
       /\ Goto("powerup", HasSettings(c) /\ init_result)
    /\ UNCHANGED <<paths, dma, data, skipped, shifted, faults>>

\* An ADC that an earlier call has enabled takes no calibration.
Powerup ==
    /\ At("powerup")
    /\ converter' = [converter EXCEPT ![init_of].calibrating = ~converter[init_of].aden]
    /\ Goto("calibration", init_result)
    /\ UNCHANGED <<paths, dma, data, skipped, shifted, faults>>

Enable ==
    /\ At("calibration") /\ ~converter[init_of].calibrating
    /\ converter' = [converter EXCEPT ![init_of].aden = @ \/ init_result]
    /\ Goto(IF init_result THEN "ready" ELSE "return", init_result)
    /\ UNCHANGED <<paths, dma, data, skipped, shifted, faults>>

Timeout ==
    /\ \/ At("calibration") /\ converter[init_of].calibrating
       \/ At("ready") /\ ~converter[init_of].adrdy
    /\ Goto("return", FALSE)
    /\ UNCHANGED <<converter, paths, dma, data, skipped, shifted, faults>>

Ready ==
    /\ At("ready") /\ converter[init_of].adrdy
    /\ Goto("return", TRUE)
    /\ UNCHANGED <<converter, paths, dma, data, skipped, shifted, faults>>

Return ==
    /\ At("return")
    /\ initialized' = [initialized EXCEPT ![init_of] = init_result]
    /\ converter' = [converter EXCEPT ![init_of].adstart = @ \/ init_result]
    /\ init_of' = 0 /\ init_step' = "idle"
    /\ UNCHANGED <<init_result, paths, dma, data, clocked, skipped, shifted, inits, faults, fixed>>

-----------------------------------------------------------------------------
(* The hardware.                                                            *)
hwUnchanged == UNCHANGED <<initVars, paths, clocked, skipped, inits, faults, fixed>>

Calibrated(a) ==
    /\ converter[a].calibrating
    /\ converter' = [converter EXCEPT ![a].calibrating = FALSE]
    /\ hwUnchanged /\ UNCHANGED <<dma, data, shifted>>

BecomesReady(a) ==
    /\ converter[a].aden /\ ~converter[a].adrdy
    /\ converter' = [converter EXCEPT ![a].adrdy = TRUE]
    /\ hwUnchanged /\ UNCHANGED <<dma, data, shifted>>

Following(i, n) == IF i < n THEN i + 1 ELSE 1

Sample(a) ==
    LET ch == converter[a].sequence[converter[a].next]
    IN  <<ch, /\ chip = "h7" => ch \in converter[a].pcsel
              /\ Channel(ch) \in paths[Block(a)] \cup {"pin"}>>

\* A conversion, and the DMA request it makes unless an overrun blocks it.
Convert(a) ==
    /\ converter[a].adstart
    /\ converter' = [converter EXCEPT ![a].next = Following(@, Len(converter[a].sequence))]
    /\ IF dma[a].en /\ ~converter[a].ovr
       THEN /\ data' = [data EXCEPT ![a][dma[a].next] = Sample(a)]
            /\ dma' = [dma EXCEPT ![a].next = Following(@, dma[a].length)]
       ELSE UNCHANGED <<data, dma>>
    /\ hwUnchanged /\ UNCHANGED shifted

\* The DMA is late: the sample is lost and further requests are blocked.
Overrun(a) ==
    /\ converter[a].adstart /\ dma[a].en /\ ~converter[a].ovr
    /\ converter' = [converter EXCEPT ![a].ovr = TRUE,
                                      ![a].next = Following(@, Len(converter[a].sequence))]
    /\ shifted' = shifted \cup {a}
    /\ hwUnchanged /\ UNCHANGED <<dma, data>>

\* ADCx_IRQHandler: the STM32L4 asks for the overrun interrupt and clears OVR.
AdcIrq(a) ==
    /\ chip = "l4" /\ converter[a].ovr
    /\ converter' = [converter EXCEPT ![a].ovr = FALSE]
    /\ hwUnchanged /\ UNCHANGED <<dma, data, shifted>>

\* A transfer error stops the stream; the STM32L4 asks for its interrupt.
TransferError(a) ==
    /\ dma[a].en /\ converter[a].adstart
    /\ dma' = [dma EXCEPT ![a].en = FALSE, ![a].te = chip = "l4"]
    /\ hwUnchanged /\ UNCHANGED <<converter, data, shifted>>

\* DMA1_Channel1..3: the flag is cleared. The other handlers are empty, which
\* leaves it, and the interrupt, pending for good.
DmaIrq(a) ==
    /\ dma[a].te /\ config[a].handled
    /\ dma' = [dma EXCEPT ![a].te = FALSE]
    /\ hwUnchanged /\ UNCHANGED <<converter, data, shifted>>

AdcNext ==
    \/ InitDma \/ ConfigureCommon \/ Configure \/ Powerup \/ Enable \/ Timeout
    \/ Ready \/ Return
    \/ \E a \in Adcs :
           InitCall(a) \/ Calibrated(a) \/ BecomesReady(a) \/ Convert(a) \/ Overrun(a)
             \/ AdcIrq(a) \/ TransferError(a) \/ DmaIrq(a)

-----------------------------------------------------------------------------
(* The getters.                                                             *)
HasChannel(a, ch) == initialized[a] /\ ch \in ToSet(config[a].channels)

GetRankRaw(a, r) == IF initialized[a] /\ r < Len(config[a].channels) THEN data[a][r + 1]
                    ELSE "UINT16_MAX"

GetChannelRaw(a, ch) ==
    IF HasChannel(a, ch)
    THEN data[a][Min({r \in DOMAIN config[a].channels : config[a].channels[r] = ch})]
    ELSE "UINT16_MAX"

(* The channels an initialisation connects: on the STM32H7 the first one    *)
(* only, and no internal one where the block was in use.                    *)
Served(a, ch) ==
    /\ chip = "h7" => ch = config[a].channels[1]
    /\ a \in skipped => Channel(ch) = "pin"

(* What the getters return for a channel is a sample of that very channel,  *)
(* taken while it was connected if it is one that is, or the array's first  *)
(* content: no initialisation of this ADC or of one that shares its block,  *)
(* failed, repeated, or made while the ADC converts, shifts the sequence    *)
(* against the array or disconnects a channel. Left out is an ADC that has  *)
(* lost a sample or whose stream was started again under its sequence, see  *)
(* ChannelTrueAlways.                                                       *)
OwnSample(a, ch) ==
    LET s == GetChannelRaw(a, ch)
    IN  s = Unset \/ (s[1] = ch /\ (Served(a, ch) => s[2]))

ChannelTrue ==
    \A a \in Adcs \ shifted : \A ch \in ToSet(config[a].channels) :
        initialized[a] => OwnSample(a, ch)

(* The same whatever happened: "DMA in circular mode keeps the data array   *)
(* current". An overrun blocks the requests; the handler of the STM32L4     *)
(* clears it without restarting the sequence.                               *)
ChannelTrueAlways ==
    \A a \in Adcs : \A ch \in ToSet(config[a].channels) :
        initialized[a] => OwnSample(a, ch)

(* Every channel at a pin that has_channel reports as converted is          *)
(* connected when it is: the STM32H7 driver preselects the first one only.  *)
ChannelConnected ==
    \A a \in Adcs \ shifted : \A ch \in ToSet(config[a].channels) :
        HasChannel(a, ch) /\ Channel(ch) = "pin" =>
            LET s == GetChannelRaw(a, ch) IN s = Unset \/ s[2]

-----------------------------------------------------------------------------
(* The tasks, interrupts, converters and streams in any order.              *)
AdcSpec == AdcInit /\ [][AdcNext]_adcVars
=============================================================================
