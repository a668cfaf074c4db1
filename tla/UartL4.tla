------------------------------- MODULE UartL4 -------------------------------
(***************************************************************************)
(* The serial driver of the STM32L4, uart/uni_hal_uart_stm32l4.c (the      *)
(* LPUART and the USART handlers are the same but for the register names). *)
(* Unlike the H7 driver it arms TXE and TC together and disarms them only  *)
(* when the transmission is complete, so that TXE keeps firing while the   *)
(* last character is shifted out.                                          *)
(***************************************************************************)
EXTENDS UartPort

-----------------------------------------------------------------------------
(* Task context.                                                            *)

IoTransmit(t) == Transmit(t, "clear_tc")

(* _uni_hal_usart_tx_trigger: clear TC, enable TXE, enable TC. *)
TriggerClearTc(t) ==
    /\ Step(t, "clear_tc", "enable_txe")
    /\ flags' = [flags EXCEPT !.tc = FALSE]
    /\ UNCHANGED <<cr1, hwTx, hwRx, ioTx, ioRx, stats, in_transmission, de, isr>>

TxeEnabledNot == cr1                     \* mutant
TxeEnabled == [cr1 EXCEPT !.txe = TRUE]

TriggerEnableTxe(t) ==
    /\ Step(t, "enable_txe", "enable_tc")
    /\ cr1' = TxeEnabled
    /\ UNCHANGED <<flags, hwTx, hwRx, ioTx, ioRx, stats, in_transmission, de, isr>>

TriggerEnableTc(t) ==
    /\ Step(t, "enable_tc", "ready")
    /\ cr1' = [cr1 EXCEPT !.tc = TRUE]
    /\ UNCHANGED <<flags, hwTx, hwRx, ioTx, ioRx, stats, in_transmission, de, isr>>

Trigger(t) == TriggerClearTc(t) \/ TriggerEnableTxe(t) \/ TriggerEnableTc(t)

(* uni_hal_usart_irq_enable(ctx, false): the receive interrupt, then TXE,   *)
(* TC and the TC flag; in_transmission stays as it is.                      *)
IrqOffRx(t) ==
    /\ IrqControl /\ Step(t, "ready", "off_txe")
    /\ cr1' = [cr1 EXCEPT !.rxne = FALSE]
    /\ UNCHANGED <<flags, hwTx, hwRx, ioTx, ioRx, stats, in_transmission, de, isr>>

IrqOffTxe(t) ==
    /\ Step(t, "off_txe", "off_tc")
    /\ cr1' = [cr1 EXCEPT !.txe = FALSE]
    /\ UNCHANGED <<flags, hwTx, hwRx, ioTx, ioRx, stats, in_transmission, de, isr>>

IrqOffTc(t) ==
    /\ Step(t, "off_tc", "off_flags")
    /\ cr1' = [cr1 EXCEPT !.tc = FALSE]
    /\ UNCHANGED <<flags, hwTx, hwRx, ioTx, ioRx, stats, in_transmission, de, isr>>

IrqOffFlags(t) ==
    /\ Step(t, "off_flags", "ready")
    /\ flags' = [flags EXCEPT !.tc = FALSE]
    /\ UNCHANGED <<cr1, hwTx, hwRx, ioTx, ioRx, stats, in_transmission, de, isr>>

(* uni_hal_usart_irq_enable(ctx, true): the receive interrupt only. *)
IrqOn(t) ==
    /\ IrqControl /\ Step(t, "ready", "ready")
    /\ cr1' = [cr1 EXCEPT !.rxne = TRUE]
    /\ UNCHANGED <<flags, hwTx, hwRx, ioTx, ioRx, stats, in_transmission, de, isr>>

IrqEnable(t) ==
    IrqOffRx(t) \/ IrqOffTxe(t) \/ IrqOffTc(t) \/ IrqOffFlags(t) \/ IrqOn(t)

-----------------------------------------------------------------------------
(* Interrupt context.                                                       *)

(* Another port's handler forwards one character here: write and trigger    *)
(* run as one, at any moment, inside this port's handler too.               *)
PeerTransmit(p) ==
    /\ \E b \in Byte : BufferWrite(<<b>>)
    /\ flags' = [flags EXCEPT !.tc = FALSE]
    /\ cr1' = [cr1 EXCEPT !.txe = TRUE, !.tc = TRUE]
    /\ UNCHANGED <<hwTx, hwRx, ioRx, stats, in_transmission, de, isr, pc>>

(* The transmission starts whether or not the buffer holds anything. *)
StartTransmission ==
    in_transmission' = TRUE /\ de' = (de \/ ~in_transmission)

(* TDR gets the oldest byte of the buffer, if there is one. *)
FeedTdr ==
    IF buf_tx # <<>>
    THEN /\ buf_tx' = Tail(buf_tx)
         /\ TransmitData(Head(buf_tx))
         /\ stats' = [stats EXCEPT !.tx_transmited = @ + 1]
    ELSE UNCHANGED <<buf_tx, tdr, flags, stats>>

IsrTxe ==
    /\ isr = "txe" /\ isr' = "tc"
    /\ IF TxeFires
       THEN StartTransmission /\ FeedTdr
       ELSE UNCHANGED <<buf_tx, in_transmission, de, tdr, flags, stats>>
    /\ UNCHANGED <<cr1, shift, line, hwRx, accepted, ioRx, pc>>

(* TC: the flag stays up when no transmission is under way. *)
IsrTc ==
    /\ isr = "tc"
    /\ isr' = IF TcFires /\ in_transmission THEN "complete" ELSE "idle"
    /\ UNCHANGED <<cr1, flags, hwTx, hwRx, ioTx, ioRx, stats, in_transmission, de, pc>>

(* End of a transmission: sources off, tx_end handler, completion callback. *)
IsrComplete ==
    /\ isr = "complete" /\ isr' = "idle"
    /\ cr1' = [cr1 EXCEPT !.txe = FALSE, !.tc = FALSE]
    /\ flags' = [flags EXCEPT !.tc = FALSE]
    /\ in_transmission' = FALSE /\ de' = FALSE
    /\ UNCHANGED <<hwTx, hwRx, ioTx, ioRx, stats, pc>>

-----------------------------------------------------------------------------
Isr == IsrEnter \/ IsrRxne \/ IsrTxe \/ IsrTc \/ IsrComplete

Init == PortInit(FALSE)

Next ==
    \/ \E t \in Task : IoTransmit(t) \/ Trigger(t) \/ Receive(t)
    \/ \E t \in Switcher : IrqEnable(t)
    \/ \E p \in Peer : PeerTransmit(p)
    \/ Isr
    \/ LoadShift \/ ShiftDone \/ CharArrives \/ LineIdle

Spec == Init /\ [][Next]_vars

(* The interrupt controller never stops, a character ends however often the *)
(* handler runs meanwhile (strong fairness: its end is a matter of time),   *)
(* and a task inside a driver call goes on if interrupts leave it the       *)
(* processor for good (weak fairness: the handler has priority).            *)
Fairness ==
    /\ WF_vars(Isr) /\ WF_vars(LoadShift) /\ SF_vars(ShiftDone)
    /\ \A t \in Task : WF_vars(Trigger(t))

FairSpec == Spec /\ Fairness
=============================================================================
