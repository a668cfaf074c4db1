------------------------------ MODULE MCDrivers ------------------------------
(* The drivers that share no state, in one instance for TLC: a behaviour is *)
(* one of the part it starts with.                                          *)
EXTENDS Tim, PeriphClock, Flash, CanBus, CanFilter, CanTiming, Crc

VARIABLE part

canVars == <<busVars, filterVars, timingVars>>
driversAll == <<part, timVars, clockVars, flashVars, canVars, crcVars>>

DriversInit ==
    /\ part \in {"tim", "clock", "flash", "bus", "filter", "timing", "crc"}
    /\ TimInit /\ ClockInit /\ FlashInit /\ BusInit /\ FilterInit
    /\ CrcInit
    /\ part # "clock" => rcc_chip = "h7"
    /\ part # "bus" => bus_h7 /\ auto_bus_off
    /\ part # "filter" => fl_h7
    /\ part # "crc" => crc_chip = "h7"
    /\ IF part = "timing" THEN TimingInit
       ELSE /\ clock = 0 /\ bitrate = 0 /\ limits = Nominal
            /\ quanta = 0 /\ best_error = Worst /\ timing = NoTiming

Of(name, others) == part = name /\ UNCHANGED <<part, others>>

DriversNext ==
    \/ Of("tim", <<clockVars, flashVars, canVars, crcVars>>) /\ TimNext
    \/ Of("clock", <<timVars, flashVars, canVars, crcVars>>) /\ ClockNext
    \/ Of("flash", <<timVars, clockVars, canVars, crcVars>>) /\ FlashNext
    \/ /\ Of("bus", <<timVars, clockVars, flashVars, crcVars>>)
       /\ BusNext /\ UNCHANGED <<filterVars, timingVars>>
    \/ /\ Of("filter", <<timVars, clockVars, flashVars, crcVars>>)
       /\ FilterNext /\ UNCHANGED <<busVars, timingVars>>
    \/ /\ Of("timing", <<timVars, clockVars, flashVars, crcVars>>)
       /\ TimingNext /\ UNCHANGED <<busVars, filterVars>>
    \/ Of("crc", <<timVars, clockVars, flashVars, canVars>>) /\ CrcNext

DriversSpec == DriversInit /\ [][DriversNext]_driversAll

-----------------------------------------------------------------------------
(* Clocks: drivers that share an enable bit or a multiplexer, ones that the *)
(* clock calls cannot serve, and peripherals the application switches.      *)
User(of, kind, n, id, source) == [chip |-> of, periph |-> <<kind, n>>, id |-> id, source |-> source]
SharingUsers ==
    {User("h7", "UART", 1, 0, "PCLK2"), User("h7", "UART", 2, 0, "PCLK1"),
     User("h7", "UART", 8, 0, "PCLK1"), User("h7", "SPI", 1, 0, "PLL1Q"),
     User("h7", "RNG", 1, 0, "UNKNOWN"), User("h7", "CAN", 2, 0, "UNKNOWN"),
     User("h7", "TIM", 15, 0, ""), User("h7", "TIM", 13, 0, ""),
     User("l4", "DMA", 1, 1, ""), User("l4", "DMA", 1, 2, ""), User("l4", "CAN", 2, 0, ""),
     User("l4", "ADC", 1, 0, "SYSCLK"), User("l4", "ADC", 2, 0, "SYSCLK"),
     User("l4", "TIM", 16, 0, ""), User("l4", "RNG", 1, 0, "HSI48")}
SwitchedPeriphs == {<<"CAN", 1>>, <<"UART", 2>>, <<"ADC", 1>>, <<"TIM", 16>>, <<"ETH", 1>>}

(* Flash: ranges at the edges of words, sectors and banks, and past the end. *)
EdgeRanges ==
    {<<0, 2>>, <<0, 5>>, <<1, 2>>, <<2, 4>>, <<3, 2>>, <<3, 5>>, <<4, 0>>, <<4, 5>>, <<6, 2>>,
     <<7, 1>>, <<8, 8>>, <<9, 8>>, <<14, 2>>, <<14, 4>>, <<15, 1>>, <<16, 2>>}

(* CAN: filters of a few bits, clocks around the limits of the timing.      *)
FilterIds == {{}, {"s"}, {"s", "l"}, {"i"}, {"s", "l", "i"}}
FilterMasks == {{}, {"s"}, {"i"}, {"s", "i"}, {"s", "l"}, {"s", "l", "i"}, WordBits}
ClockRates == (0..130) \cup {1000, 1024 * 25, 1025 * 25, 32 * 25, 33 * 25, 33 * 5, 32 * 5}

(* CRC: contexts of different polynomials, one of a size the unit lacks.    *)
Crc(coef, size, initial) == [coef |-> coef, size |-> size, initial |-> initial]
Polynomials == {Crc("a", 16, "zero"), Crc("b", 7, "ones"), Crc("a", 5, "ones")}
=============================================================================
