---------------------------- MODULE UartH7_proofs ----------------------------
(***************************************************************************)
(* PortInv is an invariant of the H7 driver, for any number of tasks and   *)
(* tunnelling peers, any buffer size and any interrupt latency; with it    *)
(* the driver implements ByteStream.                                       *)
(***************************************************************************)
EXTENDS UartH7, UartPort_proofs

(* The trigger hook touches interrupt enables and flags only. *)
LEMMA TriggerInv == ASSUME NEW t \in Task, PortInv, Trigger(t) PROVE PortInv'
<1>0. TypeOK /\ cr1 \in Cr1Type /\ flags \in FlagsType /\ in_transmission \in BOOLEAN
  BY DEF PortInv, TypeOK, Cr1Type, FlagsType
<1>1. /\ cr1' \in Cr1Type /\ flags' \in FlagsType /\ (flags'.tc => flags.tc)
      /\ UNCHANGED <<hwTx, hwRx, ioTx, ioRx, stats, in_transmission, de, isr>>
  BY <1>0 DEF Trigger, TriggerClearTc, TriggerDisableTc, TriggerEnableTxe, TxeEnabled, Cr1Type, FlagsType
<1>2. PICK next \in {"ready", "disable_tc", "enable_txe"} : pc' = [pc EXCEPT ![t] = next]
  BY DEF Trigger, TriggerClearTc, TriggerDisableTc, TriggerEnableTxe, Step
<1>3. TypeOK'
  BY <1>0, <1>1, <1>2, TaskStepType DEF PcStep, Cr1Type, FlagsType
<1>4. ~IrqControl => \A u \in Task :
          pc'[u] \in {"ready", "clear_tc", "disable_tc", "enable_txe", "enable_tc"}
  BY <1>2 DEF PortInv, TrackingInv, TypeOK
<1>. QED  BY <1>1, <1>3, <1>4, TaskStepInv DEF hwTx, ioTx

(* The interrupt switch changes in_transmission too; nothing is claimed     *)
(* about tracking once the application uses it.                             *)
LEMMA IrqEnableInv == ASSUME NEW t \in Task, PortInv, IrqEnable(t) PROVE PortInv'
<1> USE DEF IrqEnable, IrqOffRx, IrqOffTxe, IrqOffTc, IrqOffFlags, IrqOnRx, IrqOnTc, IrqOnTxe
<1>0. TypeOK /\ cr1 \in Cr1Type /\ flags \in FlagsType /\ in_transmission \in BOOLEAN
  BY DEF PortInv, TypeOK, Cr1Type, FlagsType
<1>1. /\ cr1' \in Cr1Type
      /\ UNCHANGED <<hwTx, hwRx, ioTx, ioRx, stats, de, isr>>
  BY <1>0 DEF Cr1Type
<1>2. /\ flags' \in FlagsType /\ (flags'.tc => flags.tc)
      /\ in_transmission' \in {in_transmission, FALSE}
  <2>1. CASE IrqOffFlags(t)
    BY <2>1, RegisterValues
  <2>2. CASE IrqOnTxe(t)
    BY <1>0, <2>2 DEF FlagsType
  <2>3. CASE UNCHANGED <<flags, in_transmission>>
    BY <1>0, <2>3
  <2>. QED  BY <2>1, <2>2, <2>3
<1>3. PICK next \in PcStep : pc' = [pc EXCEPT ![t] = next]
  BY DEF Step, PcStep
<1>4. IrqControl
  BY DEF PortInv, TrackingInv, Step
<1>5. TypeOK'
  BY <1>0, <1>1, <1>2, <1>3, TaskStepType DEF Cr1Type, FlagsType
<1>6. Conserved'
  BY <1>1, KeepsConserved DEF PortInv, hwTx, ioTx
<1>7. TransmitterInv'
  BY <1>1, <1>2 DEF PortInv, TransmitterInv, hwTx
<1>. QED  BY <1>4, <1>5, <1>6, <1>7 DEF PortInv

(* A tunnelling port writes into the buffer in the middle of anything. *)
LEMMA PeerTransmitInv == ASSUME NEW p \in Peer, PortInv, PeerTransmit(p) PROVE PortInv'
<1>1. PICK b \in Byte : BufferWrite(<<b>>)
  BY DEF PeerTransmit
<1>2. /\ buf_tx' \in Seq(Byte) /\ Len(buf_tx') <= TxSize /\ accepted' \in Seq(Byte)
      /\ line \o shift \o tdr \o buf_tx' = accepted'
  <2>1. <<b>> \in Seq(Byte)
    OBVIOUS
  <2>. QED  BY <1>1, <2>1, BufferWriteEffect DEF PortInv
<1>3. TypeOK'
  <2>1. cr1' \in Cr1Type /\ flags' \in FlagsType
    BY DEF PortInv, TypeOK, PeerTransmit, Cr1Type, FlagsType
  <2>. QED  BY <1>2, <2>1 DEF PortInv, TypeOK, PeerTransmit, hwTx, hwRx, ioRx, Cr1Type, FlagsType
<1>4. Conserved'
  BY <1>2 DEF PortInv, Conserved, PeerTransmit, hwTx
<1>5. TransmitterInv'
  BY DEF PortInv, TypeOK, TransmitterInv, PeerTransmit, hwTx
<1>6. ~IrqControl => TrackingInv'
  BY DEF PortInv, TrackingInv, PeerTransmit, hwTx
<1>. QED  BY <1>3, <1>4, <1>5, <1>6 DEF PortInv

(* TXE: the oldest byte of the buffer goes to TDR. *)
LEMMA SendNextInv == PortInv /\ IsrTxe /\ TxeFires /\ buf_tx # <<>> => PortInv'
<1> SUFFICES ASSUME PortInv, IsrTxe, TxeFires, buf_tx # <<>> PROVE PortInv'
  OBVIOUS
<1>0. /\ tdr = <<>> /\ shift \in Seq(Byte) /\ line \in Seq(Byte) /\ buf_tx \in Seq(Byte)
      /\ Len(buf_tx) \in Nat /\ Len(buf_tx) <= TxSize /\ TxSize \in Nat
  BY PortAssumption, LenProperties DEF PortInv, TypeOK, TxeFires, Reg
<1>1. SendNext /\ UNCHANGED <<shift, line, hwRx, accepted, ioRx, pc>>
  BY DEF IsrTxe
<1>2. Head(buf_tx) \in Byte /\ Tail(buf_tx) \in Seq(Byte) /\ Len(Tail(buf_tx)) <= TxSize
  BY <1>0, HeadTailProperties
<1>3. tdr' = <<Head(buf_tx)>> /\ tdr' \in Reg(Byte)
  BY <1>1, <1>2 DEF SendNext, TransmitData, Reg
<1>4. /\ stats' \in [{"rx_received", "rx_overrun", "tx_transmited"} -> Nat]
      /\ stats'.tx_transmited = stats.tx_transmited + 1
  <2>1. /\ stats \in [{"rx_received", "rx_overrun", "tx_transmited"} -> Nat]
        /\ stats.tx_transmited + 1 \in Nat
    BY DEF PortInv, TypeOK
  <2>. QED  BY <1>1, <2>1, FieldSet DEF SendNext
<1>5. /\ cr1' \in Cr1Type /\ flags' \in FlagsType /\ ~flags'.tc
      /\ in_transmission' = TRUE /\ de' \in BOOLEAN
  BY <1>1 DEF PortInv, TypeOK, SendNext, TransmitData, Cr1Type, FlagsType
<1>6. TypeOK'
  BY <1>1, <1>2, <1>3, <1>4, <1>5
  DEF PortInv, TypeOK, SendNext, IsrStep, hwRx, ioRx, Cr1Type, FlagsType
<1>7. Conserved'
  <2>1. Placed(line, shift, <<Head(buf_tx)>>, Tail(buf_tx)) = Placed(line, shift, <<>>, buf_tx)
    BY <1>0, PlacedPop
  <2>2. line' \o shift' \o tdr' \o buf_tx' = accepted'
    BY <1>0, <1>1, <1>3, <2>1 DEF PortInv, Conserved, SendNext, Placed
  <2>3. Len(tdr') = Len(tdr) + 1 /\ Len(line) \in Nat /\ Len(shift) \in Nat
    BY <1>0, <1>3
  <2>4. stats'.tx_transmited = Len(line') + Len(shift') + Len(tdr')
    BY <1>1, <1>4, <2>3, <1>0 DEF PortInv, Conserved
  <2>. QED  BY <2>2, <2>4 DEF Conserved
<1>8. de' = TRUE
  BY <1>1 DEF PortInv, TransmitterInv, SendNext, TypeOK
<1>9. TransmitterInv'
  BY <1>1, <1>5, <1>8 DEF TransmitterInv, SendNext
<1>10. ~IrqControl => TrackingInv'
  BY <1>1, <1>5 DEF PortInv, TrackingInv
<1>. QED  BY <1>6, <1>7, <1>9, <1>10 DEF PortInv

(* The rest of the handler moves no byte. *)
LEMMA IsrRestInv ==
    ASSUME PortInv,
           (IsrTxe /\ ~(TxeFires /\ buf_tx # <<>>)) \/ IsrTxEmpty \/ IsrTc \/ IsrIdleLine
    PROVE  PortInv'
<1>0. /\ TypeOK /\ cr1 \in Cr1Type /\ flags \in FlagsType /\ in_transmission \in BOOLEAN
      /\ cr1.tc \in BOOLEAN /\ cr1.txe \in BOOLEAN /\ flags.tc \in BOOLEAN
      /\ flags.idle \in BOOLEAN /\ cr1.idle \in BOOLEAN
  BY DEF PortInv, TypeOK, Cr1Type, FlagsType
<1>1. /\ UNCHANGED <<hwTx, hwRx, ioTx, ioRx, stats, in_transmission, de, pc>>
  BY DEF IsrTxe, IsrTxEmpty, IsrTc, IsrIdleLine, hwTx, hwRx, ioTx, ioRx
<1>2. isr' \in IsrStep
  BY DEF IsrTxe, IsrTxEmpty, IsrTc, IsrIdleLine, IsrStep
<1>3. cr1' \in Cr1Type
  <2>1. (cr1.tc \/ in_transmission) \in BOOLEAN /\ (cr1.txe \/ in_transmission) \in BOOLEAN
    BY Zenon
  <2>2. WaitForTc \in Cr1Type
    <3>1. [cr1 EXCEPT !.txe = FALSE] \in Cr1Type
      BY <1>0 DEF Cr1Type
    <3>2. WaitForTc = [[cr1 EXCEPT !.txe = FALSE] EXCEPT !.tc = cr1.tc \/ in_transmission]
      BY <1>0 DEF WaitForTc, Cr1Type
    <3>. QED  BY <2>1, <3>1, <3>2, FieldSet DEF Cr1Type
  <2>3. Resume \in Cr1Type
    <3>1. [cr1 EXCEPT !.tc = FALSE] \in Cr1Type
      BY <1>0 DEF Cr1Type
    <3>2. Resume = [[cr1 EXCEPT !.tc = FALSE] EXCEPT !.txe = cr1.txe \/ in_transmission]
      BY <1>0 DEF Resume, Cr1Type
    <3>. QED  BY <2>1, <3>1, <3>2, FieldSet DEF Cr1Type
  <2>. QED  BY <1>0, <2>2, <2>3 DEF IsrTxe, IsrTxEmpty, IsrTc, IsrIdleLine
<1>4. flags' \in FlagsType /\ (flags'.tc => flags.tc)
  <2>1. (flags.tc /\ ~in_transmission) \in BOOLEAN /\ (flags.idle /\ ~cr1.idle) \in BOOLEAN
    BY Zenon
  <2>2. CASE IsrTxEmpty
    <3>1. flags' = [flags EXCEPT !.tc = flags.tc /\ ~in_transmission]
      BY <2>2 DEF IsrTxEmpty
    <3>2. flags' \in FlagsType
      BY <1>0, <2>1, <3>1, FieldSet DEF FlagsType
    <3>. QED  BY <1>0, <3>1, <3>2 DEF FlagsType
  <2>3. CASE IsrIdleLine
    <3>1. flags' = [flags EXCEPT !.idle = flags.idle /\ ~cr1.idle]
      BY <2>3 DEF IsrIdleLine
    <3>2. flags' \in FlagsType
      BY <1>0, <2>1, <3>1, FieldSet DEF FlagsType
    <3>. QED  BY <1>0, <3>1, <3>2 DEF FlagsType
  <2>4. CASE IsrTc
    BY <1>0, <2>4 DEF IsrTc, FlagsType
  <2>5. CASE IsrTxe /\ ~(TxeFires /\ buf_tx # <<>>)
    BY <1>0, <2>5 DEF IsrTxe
  <2>. QED  BY <2>2, <2>3, <2>4, <2>5
<1>5. TypeOK'
  BY <1>0, <1>1, <1>2, <1>3, <1>4 DEF TypeOK, hwTx, hwRx, ioTx, ioRx, Cr1Type, FlagsType
<1>6. Conserved'
  BY <1>1, KeepsConserved DEF PortInv, hwTx, ioTx
<1>7. isr' = "complete" => flags.tc
  BY DEF IsrTxe, IsrTxEmpty, IsrTc, IsrIdleLine, TcFires
<1>8. TransmitterInv'
  BY <1>1, <1>4, <1>7 DEF PortInv, TransmitterInv, hwTx
<1>9. ~IrqControl => TrackingInv'
  BY <1>1 DEF PortInv, TrackingInv, hwTx
<1>. QED  BY <1>5, <1>6, <1>8, <1>9 DEF PortInv

(* The end of a transmission: the transmitter is empty, so the line driver  *)
(* may be released.                                                         *)
LEMMA IsrCompleteInv == PortInv /\ IsrComplete => PortInv'
<1> SUFFICES ASSUME PortInv, IsrComplete PROVE PortInv'
  OBVIOUS
<1>1. tdr = <<>> /\ shift = <<>>
  BY DEF PortInv, TransmitterInv, IsrComplete
<1>2. TypeOK'
  <2>1. cr1' \in Cr1Type
    BY DEF PortInv, TypeOK, IsrComplete, Cr1Type
  <2>. QED  BY <2>1 DEF PortInv, TypeOK, IsrComplete, IsrStep, hwTx, hwRx, ioTx, ioRx, Cr1Type
<1>3. Conserved'
  BY KeepsConserved DEF PortInv, IsrComplete, hwTx, ioTx
<1>4. TransmitterInv'
  BY <1>1 DEF TransmitterInv, IsrComplete, hwTx
<1>5. ~IrqControl => TrackingInv'
  BY <1>1 DEF PortInv, TrackingInv, IsrComplete, hwTx
<1>. QED  BY <1>2, <1>3, <1>4, <1>5 DEF PortInv

(* Every step of the driver, its callers and the hardware keeps PortInv. *)
LEMMA NextInv == PortInv /\ [Next]_vars => PortInv'
<1> SUFFICES ASSUME PortInv, [Next]_vars PROVE PortInv'
  OBVIOUS
<1>1. ASSUME NEW t \in Task, IoTransmit(t) \/ Trigger(t) \/ IrqEnable(t) \/ Receive(t)
      PROVE  PortInv'
  BY <1>1, TransmitInv, TriggerInv, IrqEnableInv, ReceiveInv DEF IoTransmit
<1>2. ASSUME NEW p \in Peer, PeerTransmit(p) PROVE PortInv'
  BY <1>2, PeerTransmitInv
<1>3. CASE Isr
  BY <1>3, IsrEnterInv, IsrRxneInv, SendNextInv, IsrRestInv, IsrCompleteInv DEF Isr
<1>4. CASE LoadShift \/ ShiftDone \/ CharArrives \/ LineIdle
  BY <1>4, LoadShiftInv, ShiftDoneInv, ReceiverInv
<1>5. CASE UNCHANGED vars
  <2>1. TypeOK'
    BY <1>5 DEF PortInv, TypeOK, vars, hwTx, hwRx, ioTx, ioRx
  <2>. QED  BY <1>5, <2>1, KeepsTransmitter DEF vars, hwTx, ioTx
<1>. QED  BY <1>1, <1>2, <1>3, <1>4, <1>5 DEF Next, Switcher

-----------------------------------------------------------------------------
(* The theorems. *)

(* PortInv holds in every reachable state: types, conservation of the       *)
(* accepted bytes, and the relation of in_transmission, the TC flag and the *)
(* line driver to the transmitter.                                          *)
THEOREM PortInvariant == Spec => []PortInv
<1>1. Init => PortInv
  BY PortInitInv DEF Init
<1>. QED  BY <1>1, NextInv, PTL DEF Spec

(* Every accepted byte is in exactly one place, in order, whatever tasks,   *)
(* interrupts, tunnels and hardware do.                                     *)
THEOREM BytesConserved == Spec => []Conserved
<1>1. PortInv => Conserved
  BY DEF PortInv
<1>. QED  BY <1>1, PortInvariant, PTL

(* Every character is shifted out between tx_start and tx_end, so an RS-485 *)
(* line driver is on for all of it.                                         *)
THEOREM DriverOn == Spec => []DriverCoversLine
<1>1. PortInv => DriverCoversLine
  BY DEF PortInv, TransmitterInv, DriverCoversLine
<1>. QED  BY <1>1, PortInvariant, PTL

(* Unless the application switches the interrupts off, transmit_busy        *)
(* returns false only when everything accepted has left the line.           *)
THEOREM BusyIsSound == ASSUME ~IrqControl PROVE Spec => []NotBusyMeansDone
<1>1. PortInv => NotBusyMeansDone
  <2> SUFFICES ASSUME PortInv, ~TransmitBusy PROVE line = accepted /\ ~de
    BY DEF NotBusyMeansDone
  <2>1. buf_tx = <<>> /\ shift = <<>> /\ tdr = <<>> /\ ~de
    BY DEF PortInv, TrackingInv, TransmitBusy
  <2>2. line \in Seq(Byte)
    BY DEF PortInv, TypeOK
  <2>. QED  BY <2>1, <2>2, ConcatEmptySeq DEF PortInv, Conserved
<1>. QED  BY <1>1, PortInvariant, PTL

(* The driver implements ByteStream: accepted bytes leave the line once and *)
(* in order; a tunnel, the interrupt switch or a nested interrupt cannot    *)
(* duplicate, drop or reorder them.                                         *)
THEOREM ImplementsStream == Spec => StreamSpec
<1>1. Init => Stream!Init
  BY DEF Init, PortInit, Stream!Init
<1>2. PortInv /\ [Next]_vars => [Stream!Next]_Stream!vars
  <2> SUFFICES ASSUME PortInv, [Next]_vars PROVE [Stream!Next]_Stream!vars
    OBVIOUS
  <2>1. ASSUME NEW t \in Task, IoTransmit(t) PROVE Stream!Accept
    BY <2>1, TransmitAccepts DEF IoTransmit
  <2>2. ASSUME NEW p \in Peer, PeerTransmit(p) PROVE Stream!Accept
    <3>1. PICK b \in Byte : BufferWrite(<<b>>)
      BY <2>2 DEF PeerTransmit
    <3>2. <<b>> \in Seq(Byte)
      OBVIOUS
    <3>. QED  BY <2>2, <3>1, <3>2, BufferWriteEffect DEF PortInv, PeerTransmit, hwTx, Stream!Accept
  <2>3. CASE ShiftDone
    BY <2>3, ShiftDoneSends DEF Stream!Next
  <2>4. ASSUME NEW t \in Task, Trigger(t) \/ IrqEnable(t) \/ Receive(t)
        PROVE  UNCHANGED <<accepted, line>>
    BY <2>4 DEF Trigger, TriggerClearTc, TriggerDisableTc, TriggerEnableTxe, IrqEnable, IrqOffRx,
       IrqOffTxe, IrqOffTc, IrqOffFlags, IrqOnRx, IrqOnTc, IrqOnTxe, Receive, hwTx, ioTx
  <2>5. ASSUME Isr PROVE UNCHANGED <<accepted, line>>
    BY <2>5 DEF Isr, IsrEnter, IsrRxne, IsrTxe, SendNext, IsrTxEmpty, IsrTc, IsrComplete,
       IsrIdleLine, hwTx, ioTx
  <2>6. ASSUME LoadShift \/ CharArrives \/ LineIdle PROVE UNCHANGED <<accepted, line>>
    BY <2>6 DEF LoadShift, CharArrives, LineIdle, hwTx, ioTx
  <2>7. CASE UNCHANGED vars
    BY <2>7 DEF vars, hwTx, ioTx, Stream!vars
  <2>. QED  BY <2>1, <2>2, <2>3, <2>4, <2>5, <2>6, <2>7 DEF Next, Switcher, Stream!Next, Stream!vars
<1>. QED  BY <1>1, <1>2, PortInvariant, PTL DEF Spec, StreamSpec, Stream!Spec

-----------------------------------------------------------------------------
(* Reception.                                                               *)

(* The transmit half and the calls leave what was received alone. *)
LEMMA OrderStep == PortInv /\ OrderInv /\ [Next]_vars => OrderInv'
<1> SUFFICES ASSUME PortInv, OrderInv, [Next]_vars PROVE OrderInv'
  OBVIOUS
<1>0. TypeOK /\ stats \in [{"rx_received", "rx_overrun", "tx_transmited"} -> Nat]
  BY DEF PortInv, TypeOK
<1>1. ASSUME NEW t \in Task, IoTransmit(t) \/ Receive(t) PROVE OrderInv'
  BY <1>0, <1>1, SharedOrder DEF IoTransmit, PcStep
<1>2. ASSUME NEW t \in Task, Trigger(t) \/ IrqEnable(t) PROVE OrderInv'
  BY <1>2, KeepsOrder DEF Trigger, TriggerClearTc, TriggerDisableTc, TriggerEnableTxe, IrqEnable,
     IrqOffRx, IrqOffTxe, IrqOffTc, IrqOffFlags, IrqOnRx, IrqOnTc, IrqOnTxe, hwRx, ioRx
<1>3. ASSUME NEW p \in Peer, PeerTransmit(p) PROVE OrderInv'
  BY <1>3, KeepsOrder DEF PeerTransmit, hwRx, ioRx
<1>4. CASE IsrTxe
  <2>1. stats'.rx_received = stats.rx_received
    BY <1>0, <1>4 DEF IsrTxe, SendNext
  <2>. QED  BY <1>4, <2>1, KeepsOrder DEF IsrTxe, hwRx, ioRx
<1>5. CASE IsrTxEmpty \/ IsrTc \/ IsrComplete \/ IsrIdleLine
  BY <1>5, KeepsOrder DEF IsrTxEmpty, IsrTc, IsrComplete, IsrIdleLine, hwRx, ioRx
<1>6. CASE IsrEnter \/ IsrRxne \/ LoadShift \/ ShiftDone \/ CharArrives \/ LineIdle
  BY <1>0, <1>6, SharedOrder
<1>7. CASE UNCHANGED vars
  BY <1>7, KeepsOrder DEF vars, hwRx, ioRx
<1>. QED  BY <1>1, <1>2, <1>3, <1>4, <1>5, <1>6, <1>7 DEF Next, Isr, Switcher

(* A received character reaches the application or the tunnel at most once  *)
(* and in order, or is counted as lost, for any tunnel, buffer size and     *)
(* interrupt latency, and also when the application switches interrupts.    *)
THEOREM ReceptionInOrder == Spec => []ReceivedInOrder
<1>1. Init => OrderInv
  BY OrderInit DEF Init
<1>2. OrderInv => ReceivedInOrder
  BY DEF OrderInv, ReceivedInOrder, Seen, Increasing
<1>. QED  BY <1>1, <1>2, OrderStep, PortInvariant, PTL DEF Spec

(* uni_hal_usart_irq_enable(ctx, false) clears a pending overrun unreported, *)
(* so the claim is of ports that do not use it.                             *)
LEMMA LossStep ==
    ASSUME ~IrqControl
    PROVE  PortInv /\ LossReported /\ [Next]_vars => LossReported'
<1> SUFFICES ASSUME PortInv, LossReported, [Next]_vars PROVE LossReported'
  OBVIOUS
<1>0. /\ TypeOK /\ stats \in [{"rx_received", "rx_overrun", "tx_transmited"} -> Nat]
      /\ flags \in FlagsType
  BY DEF PortInv, TypeOK, FlagsType
<1>1. ASSUME NEW t \in Task, IoTransmit(t) \/ Receive(t) PROVE LossReported'
  BY <1>0, <1>1, SharedLoss DEF IoTransmit, PcStep
<1>2. ASSUME NEW t \in Task, Trigger(t) PROVE LossReported'
  <2>1. lost' = lost /\ stats' = stats /\ flags'.ore = flags.ore
    BY <1>0, <1>2 DEF Trigger, TriggerClearTc, TriggerDisableTc, TriggerEnableTxe, hwRx, FlagsType
  <2>. QED  BY <2>1, KeepsLoss
<1>3. ASSUME NEW p \in Peer, PeerTransmit(p) PROVE LossReported'
  <2>1. lost' = lost /\ stats' = stats /\ flags'.ore = flags.ore
    BY <1>0, <1>3 DEF PeerTransmit, hwRx, FlagsType
  <2>. QED  BY <2>1, KeepsLoss
<1>4. CASE IsrTxe
  <2>1. lost' = lost /\ stats'.rx_overrun = stats.rx_overrun /\ flags'.ore = flags.ore
    BY <1>0, <1>4 DEF IsrTxe, SendNext, TransmitData, hwRx, FlagsType
  <2>. QED  BY <2>1, KeepsLoss
<1>5. CASE IsrTxEmpty \/ IsrTc \/ IsrComplete \/ IsrIdleLine
  <2>1. lost' = lost /\ stats' = stats /\ flags'.ore = flags.ore
    BY <1>0, <1>5 DEF IsrTxEmpty, IsrTc, IsrComplete, IsrIdleLine, hwRx, FlagsType
  <2>. QED  BY <2>1, KeepsLoss
<1>6. CASE IsrEnter \/ IsrRxne \/ LoadShift \/ ShiftDone \/ CharArrives \/ LineIdle
  BY <1>0, <1>6, SharedLoss
<1>7. CASE UNCHANGED vars
  BY <1>7, KeepsLoss DEF vars, hwRx
<1>. QED  BY <1>1, <1>2, <1>3, <1>4, <1>5, <1>6, <1>7 DEF Next, Isr, Switcher

(* A lost character is told by rx_overrun, or will be as soon as the        *)
(* overrun flag that is up is served.                                       *)
THEOREM LossIsReported == ASSUME ~IrqControl PROVE Spec => []LossReported
<1>1. Init => LossReported
  BY DEF Init, PortInit, LossReported
<1>. QED  BY <1>1, LossStep, PortInvariant, PTL DEF Spec

-----------------------------------------------------------------------------
(* No byte waits for the next call. The interrupt sources that are armed    *)
(* follow the buffer: TC only during a transmission, and the two steps of   *)
(* the handler that turn sources off without a look at the buffer run only  *)
(* when it is empty. A handler that tunnels into this port could fill it    *)
(* between the look and the step, so the claim is of ports without one.     *)
AllReady == \A t \in Task : pc[t] = "ready"

Armed ==
    \/ cr1.txe
    \/ cr1.tc /\ (flags.tc \/ tdr # <<>> \/ shift # <<>>)

StallInv ==
    /\ cr1.tc => in_transmission
    /\ isr \in {"empty", "complete"} => buf_tx = <<>>
    /\ buf_tx # <<>> /\ AllReady => Armed

LEMMA StallStep ==
    ASSUME ~IrqControl, Peer = {}
    PROVE  PortInv /\ StallInv /\ [Next]_vars => StallInv'
<1> SUFFICES ASSUME PortInv, StallInv, [Next]_vars PROVE StallInv'
  OBVIOUS
<1>0. /\ cr1 \in Cr1Type /\ flags \in FlagsType /\ in_transmission \in BOOLEAN
      /\ pc \in [Task -> PcStep]
  BY DEF PortInv, TypeOK, Cr1Type, FlagsType
<1> USE DEF StallInv, Armed, AllReady, Cr1Type, FlagsType
\* A task in a call: nothing is claimed until its last step arms TXE.
<1>1. ASSUME NEW t \in Task, IoTransmit(t) PROVE StallInv'
  <2>1. pc'[t] = "clear_tc"
    BY <1>0, <1>1 DEF IoTransmit, Transmit
  <2>. QED  BY <1>1, <2>1 DEF IoTransmit, Transmit, TasksRun
<1>2. ASSUME NEW t \in Task, TriggerClearTc(t) \/ TriggerDisableTc(t) PROVE StallInv'
  <2>1. pc'[t] # "ready"
    BY <1>0, <1>2 DEF TriggerClearTc, TriggerDisableTc, Step
  <2>2. (cr1'.tc => cr1.tc) /\ UNCHANGED <<in_transmission, isr, buf_tx>>
    BY <1>0, <1>2 DEF TriggerClearTc, TriggerDisableTc, ioTx
  <2>. QED  BY <2>1, <2>2
<1>3. ASSUME NEW t \in Task, TriggerEnableTxe(t) PROVE StallInv'
  <2>1. cr1'.txe /\ cr1'.tc = cr1.tc /\ UNCHANGED <<in_transmission, isr, buf_tx>>
    BY <1>0, <1>3 DEF TriggerEnableTxe, TxeEnabled, ioTx
  <2>. QED  BY <2>1
<1>4. ASSUME NEW t \in Task, Receive(t) PROVE StallInv'
  BY <1>4 DEF Receive, hwTx, ioTx
<1>5. CASE IsrEnter \/ IsrRxne
  <2>1. flags'.tc = flags.tc /\ isr' \notin {"empty", "complete"}
    BY <1>0, <1>5 DEF IsrEnter, IsrRxne
  <2>. QED  BY <1>5, <2>1 DEF IsrEnter, IsrRxne, hwTx, ioTx
<1>6. CASE IsrTxe
  <2>1. CASE TxeFires /\ buf_tx # <<>>
    <3>1. cr1'.txe /\ ~cr1'.tc /\ isr' = "tc"
      BY <1>0, <1>6, <2>1 DEF IsrTxe, SendNext, TxeFires
    <3>. QED  BY <3>1
  <2>2. CASE ~(TxeFires /\ buf_tx # <<>>)
    BY <1>6, <2>2 DEF IsrTxe
  <2>. QED  BY <2>1, <2>2
<1>7. CASE IsrTxEmpty
  <2>1. buf_tx' = <<>> /\ isr' = "tc" /\ in_transmission' = in_transmission
    BY <1>7 DEF IsrTxEmpty, ioTx
  <2>2. cr1'.tc => cr1.tc \/ in_transmission
    BY <1>0, <1>7 DEF IsrTxEmpty, WaitForTc
  <2>. QED  BY <2>1, <2>2
<1>8. CASE IsrTc
  <2>0. UNCHANGED <<hwTx, ioTx, in_transmission, pc>>
    BY <1>8 DEF IsrTc
  <2>1. CASE ~TcFires
    BY <1>8, <2>0, <2>1 DEF IsrTc, hwTx, ioTx
  <2>2. CASE TcFires /\ buf_tx = <<>>
    <3>1. cr1'.tc => cr1.tc
      BY <1>0, <1>8, <2>2 DEF IsrTc, Resume
    <3>. QED  BY <2>0, <2>2, <3>1 DEF ioTx
  \* TC was up during a transmission, so TXE is armed again.
  <2>3. CASE TcFires /\ buf_tx # <<>>
    <3>1. in_transmission
      BY <2>3 DEF TcFires
    <3>2. cr1' = Resume /\ isr' = "idle_line"
      BY <1>8, <2>3 DEF IsrTc
    <3>3. cr1'.txe /\ ~cr1'.tc
      BY <1>0, <3>1, <3>2 DEF Resume
    <3>. QED  BY <3>2, <3>3
  <2>. QED  BY <2>1, <2>2, <2>3
<1>9. CASE IsrComplete
  <2>1. ~cr1'.tc /\ buf_tx' = <<>>
    BY <1>0, <1>9 DEF IsrComplete, ioTx
  <2>. QED  BY <2>1
<1>10. CASE IsrIdleLine
  <2>1. flags'.tc = flags.tc /\ isr' = "idle"
    BY <1>0, <1>10 DEF IsrIdleLine
  <2>. QED  BY <1>10, <2>1 DEF IsrIdleLine, hwTx, ioTx
<1>11. CASE LoadShift
  BY <1>11 DEF LoadShift, ioTx
\* TC rises when the last character has left.
<1>12. CASE ShiftDone
  <2>1. tdr = <<>> => flags'.tc
    BY <1>0, <1>12 DEF ShiftDone
  <2>2. tdr # <<>> => shift' # <<>>
    BY <1>12 DEF ShiftDone
  <2>. QED  BY <1>12, <2>1, <2>2 DEF ShiftDone, ioTx
<1>13. CASE CharArrives \/ LineIdle
  <2>1. flags'.tc = flags.tc
    BY <1>0, <1>13 DEF CharArrives, LineIdle
  <2>. QED  BY <1>13, <2>1 DEF CharArrives, LineIdle, hwTx, ioTx
<1>14. CASE UNCHANGED vars
  BY <1>14 DEF vars, hwTx, ioTx
<1>. QED  BY <1>1, <1>2, <1>3, <1>4, <1>5, <1>6, <1>7, <1>8, <1>9, <1>10, <1>11, <1>12, <1>13,
             <1>14 DEF Next, Isr, Trigger, Switcher

(* Whenever bytes wait and no call is in progress, an interrupt source that *)
(* will fire is armed, for any number of tasks and any latency.             *)
THEOREM NothingStalls == ASSUME ~IrqControl, Peer = {} PROVE Spec => []NoStall
<1>1. Init => StallInv
  BY DEF Init, PortInit, StallInv
<1>2. StallInv => NoStall
  BY DEF StallInv, NoStall, AllReady, Armed
<1>. QED  BY <1>1, <1>2, StallStep, PortInvariant, PTL DEF Spec
=============================================================================
