------------------------------- MODULE UartH7 -------------------------------
(***************************************************************************)
(* The serial driver of the STM32H7, uart/uni_hal_uart_stm32h7.c: the      *)
(* trigger hook that starts a transmission, the transmit half of the       *)
(* interrupt handler, and the call that turns the interrupts off and on.   *)
(***************************************************************************)
EXTENDS UartPort

-----------------------------------------------------------------------------
(* Task context.                                                            *)

IoTransmit(t) == Transmit(t, "clear_tc")

(* _uni_hal_usart_tx_trigger: clear TC, disable TC, clear IDLE, enable TXE. *)
TriggerClearTc(t) ==
    /\ Step(t, "clear_tc", "disable_tc")
    /\ flags' = [flags EXCEPT !.tc = FALSE]
    /\ UNCHANGED <<cr1, hwTx, hwRx, ioTx, ioRx, stats, in_transmission, de, isr>>

TriggerDisableTc(t) ==
    /\ Step(t, "disable_tc", "enable_txe")
    /\ cr1' = [cr1 EXCEPT !.tc = FALSE]
    /\ flags' = [flags EXCEPT !.idle = FALSE]
    /\ UNCHANGED <<hwTx, hwRx, ioTx, ioRx, stats, in_transmission, de, isr>>

TxeEnabledNot == [cr1 EXCEPT !.tc = TRUE]     \* mutant
TxeEnabled == [cr1 EXCEPT !.txe = TRUE]

TriggerEnableTxe(t) ==
    /\ Step(t, "enable_txe", "ready")
    /\ cr1' = TxeEnabled
    /\ UNCHANGED <<flags, hwTx, hwRx, ioTx, ioRx, stats, in_transmission, de, isr>>

Trigger(t) == TriggerClearTc(t) \/ TriggerDisableTc(t) \/ TriggerEnableTxe(t)

(* uni_hal_usart_irq_enable(ctx, false) *)
IrqOffRx(t) ==
    /\ IrqControl /\ Step(t, "ready", "off_txe")
    /\ cr1' = [cr1 EXCEPT !.rxne = FALSE, !.idle = FALSE]
    /\ UNCHANGED <<flags, hwTx, hwRx, ioTx, ioRx, stats, in_transmission, de, isr>>

IrqOffTxe(t) ==
    /\ Step(t, "off_txe", "off_tc")
    /\ cr1' = [cr1 EXCEPT !.txe = FALSE]
    /\ UNCHANGED <<flags, hwTx, hwRx, ioTx, ioRx, stats, in_transmission, de, isr>>

IrqOffTc(t) ==
    /\ Step(t, "off_tc", "off_flags")
    /\ cr1' = [cr1 EXCEPT !.tc = FALSE]
    /\ UNCHANGED <<flags, hwTx, hwRx, ioTx, ioRx, stats, in_transmission, de, isr>>

IrqOffFlags(t) ==
    /\ Step(t, "off_flags", "ready")
    /\ flags' = [tc |-> FALSE, idle |-> FALSE, ore |-> FALSE]
    /\ in_transmission' = FALSE
    /\ UNCHANGED <<cr1, hwTx, hwRx, ioTx, ioRx, stats, de, isr>>

(* uni_hal_usart_irq_enable(ctx, true) *)
IrqOnRx(t) ==
    /\ IrqControl /\ Step(t, "ready", "on_tc")
    /\ cr1' = [cr1 EXCEPT !.rxne = TRUE, !.idle = TRUE]
    /\ UNCHANGED <<flags, hwTx, hwRx, ioTx, ioRx, stats, in_transmission, de, isr>>

IrqOnTc(t) ==
    /\ Step(t, "on_tc", "on_txe")
    /\ cr1' = [cr1 EXCEPT !.tc = FALSE]
    /\ UNCHANGED <<flags, hwTx, hwRx, ioTx, ioRx, stats, in_transmission, de, isr>>

IrqOnTxe(t) ==
    /\ Step(t, "on_txe", "ready")
    /\ cr1' = [cr1 EXCEPT !.txe = FALSE]
    /\ flags' = [flags EXCEPT !.tc = FALSE]
    /\ UNCHANGED <<hwTx, hwRx, ioTx, ioRx, stats, in_transmission, de, isr>>

IrqEnable(t) ==
    \/ IrqOffRx(t) \/ IrqOffTxe(t) \/ IrqOffTc(t) \/ IrqOffFlags(t)
    \/ IrqOnRx(t) \/ IrqOnTc(t) \/ IrqOnTxe(t)

-----------------------------------------------------------------------------
(* Interrupt context.                                                       *)

(* Another port's handler forwards one character here: write and trigger    *)
(* run as one, at any moment, inside this port's handler too.               *)
PeerTransmit(p) ==
    /\ \E b \in Byte : BufferWrite(<<b>>)
    /\ flags' = [flags EXCEPT !.tc = FALSE, !.idle = FALSE]
    /\ cr1' = [cr1 EXCEPT !.tc = FALSE, !.txe = TRUE]
    /\ UNCHANGED <<hwTx, hwRx, ioRx, stats, in_transmission, de, isr, pc>>

(* A byte goes from the buffer to TDR; the first one of a transmission      *)
(* turns the line driver on.                                                *)
SendNext ==
    /\ buf_tx' = Tail(buf_tx)
    /\ cr1' = [cr1 EXCEPT !.tc = FALSE]
    /\ in_transmission' = TRUE /\ de' = (de \/ ~in_transmission)
    /\ TransmitData(Head(buf_tx))
    /\ stats' = [stats EXCEPT !.tx_transmited = @ + 1]
    /\ isr' = "tc"

IsrTxe ==
    /\ isr = "txe"
    /\ IF TxeFires
       THEN IF buf_tx # <<>>
            THEN SendNext
            ELSE /\ isr' = "empty"
                 /\ UNCHANGED <<buf_tx, cr1, in_transmission, de, tdr, flags, stats>>
       ELSE /\ isr' = "tc"
            /\ UNCHANGED <<buf_tx, cr1, in_transmission, de, tdr, flags, stats>>
    /\ UNCHANGED <<shift, line, hwRx, accepted, ioRx, pc>>

(* The pop above found nothing: wait for the last byte to shift out.        *)
WaitForTcKeepTxe == [cr1 EXCEPT !.tc = @ \/ in_transmission]   \* mutant
WaitForTc == [cr1 EXCEPT !.txe = FALSE, !.tc = @ \/ in_transmission]

IsrTxEmpty ==
    /\ isr = "empty" /\ isr' = "tc"
    /\ cr1' = WaitForTc
    /\ flags' = [flags EXCEPT !.tc = @ /\ ~in_transmission]
    /\ UNCHANGED <<hwTx, hwRx, ioTx, ioRx, stats, in_transmission, de, pc>>

(* TC: nothing under way, the end of a transmission, or new data to send.   *)
Resume == [cr1 EXCEPT !.tc = FALSE, !.txe = @ \/ in_transmission]

IsrTc ==
    /\ isr = "tc"
    /\ IF TcFires
       THEN /\ flags' = [flags EXCEPT !.tc = FALSE]
            /\ IF in_transmission /\ buf_tx = <<>>
               THEN isr' = "complete" /\ cr1' = cr1
               ELSE /\ isr' = "idle_line"
                    /\ cr1' = Resume
       ELSE isr' = "idle_line" /\ UNCHANGED <<flags, cr1>>
    /\ UNCHANGED <<hwTx, hwRx, ioTx, ioRx, stats, in_transmission, de, pc>>

(* End of a transmission: tx_end handler, completion callback. *)
IsrComplete ==
    /\ isr = "complete" /\ isr' = "idle_line"
    /\ cr1' = [cr1 EXCEPT !.txe = FALSE, !.tc = FALSE]
    /\ in_transmission' = FALSE /\ de' = FALSE
    /\ UNCHANGED <<flags, hwTx, hwRx, ioTx, ioRx, stats, pc>>

(* IDLE callback, and return from the interrupt. *)
IsrIdleLine ==
    /\ isr = "idle_line" /\ isr' = "idle"
    /\ flags' = [flags EXCEPT !.idle = @ /\ ~cr1.idle]
    /\ UNCHANGED <<cr1, hwTx, hwRx, ioTx, ioRx, stats, in_transmission, de, pc>>

-----------------------------------------------------------------------------
Isr == \/ IsrEnter \/ IsrRxne \/ IsrTxe \/ IsrTxEmpty
       \/ IsrTc \/ IsrComplete \/ IsrIdleLine

Init == PortInit(TRUE)

Next ==
    \/ \E t \in Task : IoTransmit(t) \/ Trigger(t) \/ Receive(t)
    \/ \E t \in Switcher : IrqEnable(t)
    \/ \E p \in Peer : PeerTransmit(p)
    \/ Isr
    \/ LoadShift \/ ShiftDone \/ CharArrives \/ LineIdle

Spec == Init /\ [][Next]_vars

(* The hardware and the interrupt controller never stop, and a task inside  *)
(* a driver call gets the processor again. Nobody has to call the driver.   *)
Fairness ==
    /\ WF_vars(Isr) /\ WF_vars(LoadShift) /\ WF_vars(ShiftDone)
    /\ \A t \in Task : WF_vars(Trigger(t))

FairSpec == Spec /\ Fairness
=============================================================================
