------------------------------ MODULE PeriphClock ------------------------------
(***************************************************************************)
(* The clocks of the peripherals: the enable bits and the kernel clock     *)
(* multiplexers of the RCC, which several peripherals share, and the way   *)
(* the drivers' initialisations ask for them. A call is one step: two      *)
(* tasks in a read-modify-write of one register are not modelled.          *)
(***************************************************************************)
EXTENDS Integers, FiniteSets

CONSTANTS
    Users,          \* drivers: records [chip, periph, id, source]
    Switchable,     \* peripherals the application switches on and off itself
    MaxStarts,      \* bound: initialisations
    MaxSwitches     \* bound: calls of the application

\* The clock of the power controller is asked for by uni_hal_rcc_init alone.
ASSUME ClockAssumption ==
    /\ MaxStarts \in Nat /\ MaxSwitches \in Nat
    /\ \A u \in Users : u.periph # <<"PWR", 1>>

VARIABLES
    rcc_chip,
    on,             \* enable bits that are set
    mux,            \* what the kernel clock multiplexers select
    mco,            \* what the clock outputs carry
    started,        \* drivers that report to be initialised
    rate,           \* kernel clock each of them has computed its divider for
    asked,          \* last call of uni_hal_rcc_clk_set or mco_enable, and its answer
    misdirected,    \* history: a clock was switched off in the wrong register
    starts, switches

clockVars == <<rcc_chip, on, mux, mco, started, rate, asked, misdirected, starts, switches>>

P(kind, numbers) == {<<kind, n>> : n \in numbers}

-----------------------------------------------------------------------------
(* Enable bits.                                                             *)
GateH7(p) ==
    CASE p \in P("ADC", {1, 2}) -> <<"ADC", 12>>
      [] p \in P("CAN", {1, 2}) -> <<"CAN", 12>>
      [] p \in P("DAC", {1, 2}) -> <<"DAC", 12>>
      [] OTHER -> p
GateL4(p) == IF p \in P("ADC", 1..3) THEN <<"ADC", 123>> ELSE p
Gate(p) == IF rcc_chip = "h7" THEN GateH7(p) ELSE GateL4(p)

SystemH7 == P("ADC", 1..3) \cup P("CAN", 1..2) \cup P("DAC", 1..2) \cup P("DMA", 1..2)
              \cup P("GPIO", 1..9) \cup P("I2C", 1..4) \cup P("CRC", {1}) \cup P("RNG", {1})
              \cup P("RTC", {1}) \cup P("SYSCFG", {1})
SerialH7 == P("SPI", 1..6) \cup P("TIM", 1..8 \cup 15..17) \cup P("UART", 1..5)
OnlySetH7 == P("ETH", {1}) \cup P("UART", 6..8)

SystemL4 == P("ADC", 1..3) \cup P("CAN", 1..2) \cup P("DAC", {1}) \cup P("DMA", 1..2)
              \cup P("GPIO", 1..9) \cup P("I2C", 1..4) \cup P("LPUART", {1}) \cup P("PWR", {1})
              \cup P("CRC", {1}) \cup P("RNG", {1}) \cup P("RTC", {1}) \cup P("SYSCFG", {1})
SerialL4 == P("SPI", 1..3) \cup P("TIM", 1..8 \cup 15..17) \cup P("UART", 1..5)

ClkGetH7(o, p) == p = <<"PWR", 1>> \/ (p \in SystemH7 \cup SerialH7 /\ GateH7(p) \in o)
ClkGetL4(o, p) == p \in SystemL4 \cup SerialL4 /\ GateL4(p) \in o
ClkGet(o, p) == IF rcc_chip = "h7" THEN ClkGetH7(o, p) ELSE ClkGetL4(o, p)

Switched(o, bits, state) == IF state THEN o \cup bits ELSE o \ bits

\* uni_hal_rcc_clk_set: [on, answer]
ClkSetH7(o, p, state) ==
    LET known == p \in SystemH7 \cup SerialH7 \cup OnlySetH7 IN
    IF state = ClkGetH7(o, p) THEN [on |-> o, answer |-> TRUE]
    ELSE [on |-> IF known THEN Switched(o, {GateH7(p)}, state) ELSE o,
          answer |-> known \/ p = <<"PWR", 1>>]

\* The bit of an UART of APB1 in the register of APB2: a timer's, or none.
Misread(p) == CASE p = <<"UART", 2>> -> {<<"TIM", 16>>} [] p = <<"UART", 3>> -> {<<"TIM", 17>>}
                [] OTHER -> {}

DisabledApb1(p) == {GateL4(<<"TIM", 16>>)}      \* mutant: every disable hits that bit

DisabledL4(p) == IF p \in P("UART", 2..5) THEN Misread(p) ELSE {GateL4(p)}

EnabledL4(p) == IF p = <<"CAN", 2>> THEN P("CAN", {1, 2}) ELSE {GateL4(p)}

ClkSetL4(o, p, state) ==
    IF state = ClkGetL4(o, p) \/ p \notin SystemL4 \cup SerialL4
    THEN [on |-> o, answer |-> FALSE]
    ELSE [on |-> Switched(o, IF state THEN EnabledL4(p) ELSE DisabledL4(p), state),
          answer |-> TRUE]

ClkSet(o, p, state) == IF rcc_chip = "h7" THEN ClkSetH7(o, p, state) ELSE ClkSetL4(o, p, state)

-----------------------------------------------------------------------------
(* Kernel clocks.                                                           *)
MuxH7(p) ==
    CASE p[1] = "ADC" -> "ADC"
      [] p \in P("I2C", 1..3) -> "I2C123"
      [] p[1] = "CAN" -> "FDCAN"
      [] p \in P("SPI", 1..3) -> "SPI123"
      [] p \in P("SPI", 4..5) -> "SPI45"
      [] p \in P("UART", {2, 3, 4, 5, 7, 8}) -> "USART234578"
      [] p \in P("UART", {1, 6}) -> "USART16"
      [] p = <<"RNG", 1>> -> "RNG"
      [] p = <<"I2C", 4>> -> "I2C4"
      [] p = <<"SPI", 6>> -> "SPI6"
      [] OTHER -> "none"
MuxL4(p) == CASE p[1] = "ADC" -> "ADC" [] p[1] = "LPUART" -> "LPUART" [] OTHER -> "none"
Mux(p) == IF rcc_chip = "h7" THEN MuxH7(p) ELSE MuxL4(p)
Muxes == {"ADC", "I2C123", "I2C4", "FDCAN", "SPI123", "SPI45", "SPI6", "USART234578",
          "USART16", "RNG", "LPUART", "none"}

\* The sources uni_hal_rcc_clksrc_set takes for a multiplexer.
BusSourcesH7(m) ==
    CASE m = "ADC"    -> {"PLL2P", "PLL3R", "CLKP"}
      [] m = "I2C123" -> {"PCLK1", "PLL3R", "HSI", "CSI"}
      [] m = "I2C4"   -> {"PCLK4", "PLL3R", "HSI", "CSI"}
      [] m = "FDCAN"  -> {"HSE", "PLL1Q", "PLL2Q"}
      [] m = "RNG"    -> {"HSI48", "PLL1Q", "LSE", "LSI"}
      [] OTHER -> {}
SerialSourcesH7(m) ==
    CASE m = "SPI123" -> {"PLL1Q", "PLL2P", "PLL3P", "I2S_CKIN", "CLKP"}
      [] m = "SPI45"  -> {"PCLK2", "PLL2Q", "PLL3Q", "HSI", "CSI", "HSE"}
      [] m = "SPI6"   -> {"PCLK4", "PLL2Q", "PLL3Q", "HSI", "CSI", "HSE"}
      [] m = "USART234578" -> {"CSI", "LSE", "HSI", "PCLK1", "PLL2Q", "PLL3Q"}
      [] OTHER -> {}
SourcesL4(m) == IF m = "ADC" THEN {"SYSCLK", "NONE"} ELSE {}
Sources(m) == IF rcc_chip = "h7" THEN BusSourcesH7(m) \cup SerialSourcesH7(m) ELSE SourcesL4(m)

\* An LPUART whose source is none of the four runs from SYSCLK.
LpuartSource(s) == IF s \in {"PCLK1", "SYSCLK", "HSI", "LSE"} THEN s ELSE "SYSCLK"

SourceTaken(p, s) == Mux(p) = "LPUART" \/ s \in Sources(Mux(p))
Selected(x, p, s) ==
    IF Mux(p) = "LPUART" THEN [x EXCEPT !["LPUART"] = LpuartSource(s)]
    ELSE IF SourceTaken(p, s) THEN [x EXCEPT ![Mux(p)] = s] ELSE x

\* uni_hal_rcc_clk_get_freq: the clock whose frequency it returns
FreqH7(x, p) ==
    IF p[1] \in {"CAN", "I2C", "SPI", "UART"} THEN x[MuxH7(p)] ELSE "0 Hz"
FreqL4(x, p) ==
    CASE p[1] = "CAN" -> "PCLK1"
      [] p[1] \in {"I2C", "UART"} -> "own"
      [] p[1] = "LPUART" -> x["LPUART"]
      [] p \in P("TIM", {1, 8} \cup 15..17) -> "APB2 timers"
      [] p \in P("TIM", 2..7) -> "APB1 timers"
      [] OTHER -> "0 Hz"
Freq(x, p) == IF rcc_chip = "h7" THEN FreqH7(x, p) ELSE FreqL4(x, p)

-----------------------------------------------------------------------------
ClockInit ==
    /\ rcc_chip \in {"h7", "l4"}
    /\ on = {} /\ mux = [m \in Muxes |-> "reset"] /\ mco = <<"off", "off">>
    /\ started = {} /\ rate = [u \in Users |-> "none"]
    /\ asked = [call |-> "none", wanted |-> TRUE, got |-> TRUE, answer |-> TRUE]
    /\ misdirected = FALSE /\ starts = 0 /\ switches = 0

(* The initialisation of a driver, as far as clocks go; other settings may  *)
(* fail it.                                                                 *)
\* the source it asks for, which is not always the one of its configuration
Wanted(u) ==
    CASE u.periph[1] = "LPUART" -> "PCLK1"
      [] u.source = "UNKNOWN" /\ u.periph[1] = "RNG" /\ rcc_chip = "h7" -> "PLL1Q"
      [] u.source = "UNKNOWN" /\ u.periph[1] = "ADC" /\ rcc_chip = "l4" -> "SYSCLK"
      [] OTHER -> u.source

\* a clock that is asked for only when what came before has worked
Then(done, p) == IF done.answer THEN ClkSet(done.on, p, TRUE) ELSE done
Begin(ok) == [on |-> on, answer |-> ok]

\* UART, ADC: the source and the clock, whichever fails
StartBoth(u) ==
    [ClkSet(on, u.periph, TRUE) EXCEPT
         !.answer = @ /\ (Mux(u.periph) = "none" \/ SourceTaken(u.periph, Wanted(u)))]

\* SPI of the STM32H7, RNG, FDCAN: the clock if the source was taken; FDCAN and
\* RNG of the STM32L4 may keep the one that is selected
StartChained(u) ==
    Then(Begin(Wanted(u) \in {"UNKNOWN"} \cup Sources(Mux(u.periph)) \/ rcc_chip = "l4"), u.periph)

\* I2C, DMA, CRC, SPI of the STM32L4: the clock alone counts
StartClock(u) == ClkSet(on, u.periph, TRUE)

\* Timers of the STM32H7: the answer is overwritten by that of LL_TIM_Init.
StartTimH7(u) ==
    [ClkSet(on, u.periph, TRUE) EXCEPT !.answer = @ \/ u.periph \in P("TIM", 1..8 \cup 12..17)]

\* bxCAN: CAN2 asks for the clock of CAN1 as well
StartBxCan(u) ==
    LET own == ClkSet(on, u.periph, TRUE)
    IN  IF u.periph = <<"CAN", 2>> THEN Then(own, <<"CAN", 1>>) ELSE own

StartH7(u) ==
    CASE u.periph[1] \in {"UART", "ADC"} -> StartBoth(u)
      [] u.periph[1] \in {"SPI", "RNG", "CAN"} -> StartChained(u)
      [] u.periph[1] = "TIM" -> StartTimH7(u)
      [] OTHER -> StartClock(u)
StartL4(u) ==
    CASE u.periph[1] \in {"UART", "LPUART", "ADC"} -> StartBoth(u)
      [] u.periph[1] = "RNG" -> StartChained(u)
      [] u.periph[1] = "CAN" -> StartBxCan(u)
      [] OTHER -> StartClock(u)

Start(u) ==
    /\ u.chip = rcc_chip /\ u \notin started /\ starts < MaxStarts
    /\ starts' = starts + 1
    /\ LET set == IF rcc_chip = "h7" THEN StartH7(u) ELSE StartL4(u)  p == u.periph IN
       /\ on' = set.on
       /\ mux' = Selected(mux, p, Wanted(u))
       /\ \E ok \in BOOLEAN :
              started' = IF set.answer /\ ok THEN started \cup {u} ELSE started
       /\ rate' = IF u \in started' THEN [rate EXCEPT ![u] = Freq(mux', p)] ELSE rate
    /\ UNCHANGED <<rcc_chip, mco, asked, misdirected, switches>>

(* The application switches a clock; off only if no driver relies on it.    *)
Switch(p, state) ==
    /\ switches < MaxSwitches
    /\ ~state => \A u \in started : Gate(u.periph) # Gate(p)
    /\ switches' = switches + 1
    /\ LET set == ClkSet(on, p, state) IN
       /\ on' = set.on
       /\ asked' = [call |-> "clk_set", wanted |-> state, got |-> ClkGet(on', p),
                   answer |-> set.answer]
    /\ misdirected' = (misdirected
           \/ (rcc_chip = "l4" /\ ~state /\ p \in P("UART", 2..5) /\ p \in on))
    /\ UNCHANGED <<rcc_chip, mux, mco, started, rate, starts>>

(* uni_hal_rcc_stm32_mco_enable.                                            *)
McoSourcesH7(index) ==
    IF index = 0 THEN {"HSI", "LSE", "HSE", "PLL1Q", "HSI48"}
    ELSE {"HSE", "SYSCLK", "PLL1P", "PLL2P", "CSI", "LSI"}
McoSourcesL4 == {"HSI", "LSE", "HSE", "PLL1R", "HSI48", "SYSCLK", "MSI", "LSI"}

\* [routed, answer], for a pin that is set up or not
McoH7(index, source, divider, pin) ==
    LET routed == index < 2 /\ divider \in 1..15 /\ pin /\ source \in McoSourcesH7(index)
    IN  [routed |-> routed, answer |-> routed]
McoL4(index, source, divider, pin) ==
    LET offered == index = 0 /\ divider \in {1, 2, 4, 8, 16}
        routed == offered /\ source \in McoSourcesL4
    IN  [routed |-> routed, answer |-> routed \/ (offered /\ pin)]

McoEnable(index, source, divider, pin) ==
    /\ switches < MaxSwitches /\ switches' = switches + 1
    /\ LET m == IF rcc_chip = "h7" THEN McoH7(index, source, divider, pin)
                ELSE McoL4(index, source, divider, pin)
       IN  /\ mco' = IF m.routed THEN [mco EXCEPT ![index + 1] = source] ELSE mco
           /\ asked' = [call |-> "mco_enable", wanted |-> TRUE, got |-> m.routed,
                       answer |-> m.answer]
    /\ UNCHANGED <<rcc_chip, on, mux, started, rate, misdirected, starts>>

ClockNext ==
    \/ \E u \in Users : Start(u)
    \/ \E p \in Switchable, state \in BOOLEAN : Switch(p, state)
    \/ \E index \in 0..2, source \in {"HSI", "SYSCLK"}, divider \in {1, 3}, pin \in BOOLEAN :
           McoEnable(index, source, divider, pin)

-----------------------------------------------------------------------------
(* A driver that reports to be initialised has its clock, and runs from the *)
(* kernel clock it has computed its divider for, whatever other drivers of  *)
(* the same bit or multiplexer do, fail at or retry. Left out: timers the   *)
(* STM32H7 has no clock for, drivers that do not agree on the source of a   *)
(* shared multiplexer, and timers after a clock was switched off in the     *)
(* wrong register.                                                          *)
Agreed(u) ==
    \A v \in Users : (v.chip = u.chip /\ Mux(v.periph) = Mux(u.periph)) => Wanted(v) = Wanted(u)

StartedClocked ==
    \A u \in started :
        u.periph \notin P("TIM", 12..14) =>
            /\ Gate(u.periph) \in on \/ (misdirected /\ u.periph[1] = "TIM")
            /\ Agreed(u) => rate[u] = Freq(mux, u.periph)

(* "true in case of success, false on error": the answer tells whether the  *)
(* clock has the state that was asked for. The STM32L4 refuses a clock that *)
(* is already on, and with it the second driver of every shared bit and     *)
(* every retry.                                                             *)
ClkSetTold == asked.call = "clk_set" => asked.answer = (asked.got = asked.wanted)
=============================================================================
