---------------------------- MODULE UartL4_proofs ----------------------------
(***************************************************************************)
(* PortInv is an invariant of the L4 driver too: what it lacks is liveness *)
(* (UartLive, UartL4CallHangs), not the order or the fate of a byte.       *)
(***************************************************************************)
EXTENDS UartL4, UartPort_proofs

(* The trigger hook touches interrupt enables and flags only. *)
LEMMA TriggerInv == ASSUME NEW t \in Task, PortInv, Trigger(t) PROVE PortInv'
<1>0. TypeOK /\ cr1 \in Cr1Type /\ flags \in FlagsType /\ in_transmission \in BOOLEAN
  BY DEF PortInv, TypeOK, Cr1Type, FlagsType
<1>1. /\ cr1' \in Cr1Type /\ flags' \in FlagsType /\ (flags'.tc => flags.tc)
      /\ UNCHANGED <<hwTx, hwRx, ioTx, ioRx, stats, in_transmission, de, isr>>
  BY <1>0 DEF Trigger, TriggerClearTc, TriggerEnableTxe, TriggerEnableTc, TxeEnabled, Cr1Type, FlagsType
<1>2. PICK next \in {"ready", "enable_txe", "enable_tc"} : pc' = [pc EXCEPT ![t] = next]
  BY DEF Trigger, TriggerClearTc, TriggerEnableTxe, TriggerEnableTc, Step
<1>3. TypeOK'
  BY <1>0, <1>1, <1>2, TaskStepType DEF PcStep, Cr1Type, FlagsType
<1>4. ~IrqControl => \A u \in Task :
          pc'[u] \in {"ready", "clear_tc", "disable_tc", "enable_txe", "enable_tc"}
  BY <1>2 DEF PortInv, TrackingInv, TypeOK
<1>. QED  BY <1>1, <1>3, <1>4, TaskStepInv DEF hwTx, ioTx

(* The interrupt switch changes in_transmission in no case, but TC and its  *)
(* source are off afterwards; nothing is claimed about tracking then.       *)
LEMMA IrqEnableInv == ASSUME NEW t \in Task, PortInv, IrqEnable(t) PROVE PortInv'
<1> USE DEF IrqEnable, IrqOffRx, IrqOffTxe, IrqOffTc, IrqOffFlags, IrqOn
<1>0. TypeOK /\ cr1 \in Cr1Type /\ flags \in FlagsType /\ in_transmission \in BOOLEAN
  BY DEF PortInv, TypeOK, Cr1Type, FlagsType
<1>1. /\ cr1' \in Cr1Type
      /\ UNCHANGED <<hwTx, hwRx, ioTx, ioRx, stats, in_transmission, de, isr>>
  BY <1>0 DEF Cr1Type
<1>2. flags' \in FlagsType /\ (flags'.tc => flags.tc)
  BY <1>0 DEF FlagsType
<1>3. PICK next \in PcStep : pc' = [pc EXCEPT ![t] = next]
  BY DEF Step, PcStep
<1>4. IrqControl
  BY DEF PortInv, TrackingInv, Step
<1>5. TypeOK'
  BY <1>0, <1>1, <1>2, <1>3, TaskStepType DEF Cr1Type, FlagsType
<1>. QED  BY <1>1, <1>2, <1>4, <1>5, TaskStepInv DEF hwTx, ioTx

(* A tunnelling port writes into the buffer in the middle of anything. *)
LEMMA PeerTransmitInv == ASSUME NEW p \in Peer, PortInv, PeerTransmit(p) PROVE PortInv'
<1>1. PICK b \in Byte : BufferWrite(<<b>>)
  BY DEF PeerTransmit
<1>2. /\ buf_tx' \in Seq(Byte) /\ Len(buf_tx') <= TxSize /\ accepted' \in Seq(Byte)
      /\ line \o shift \o tdr \o buf_tx' = accepted'
  <2>1. <<b>> \in Seq(Byte)
    OBVIOUS
  <2>. QED  BY <1>1, <2>1, BufferWriteEffect DEF PortInv
<1>3. TypeOK'
  <2>1. cr1' \in Cr1Type /\ flags' \in FlagsType
    BY DEF PortInv, TypeOK, PeerTransmit, Cr1Type, FlagsType
  <2>. QED  BY <1>2, <2>1 DEF PortInv, TypeOK, PeerTransmit, hwTx, hwRx, ioRx, Cr1Type, FlagsType
<1>4. Conserved'
  BY <1>2 DEF PortInv, Conserved, PeerTransmit, hwTx
<1>5. TransmitterInv'
  BY DEF PortInv, TypeOK, TransmitterInv, PeerTransmit, hwTx
<1>6. ~IrqControl => TrackingInv'
  BY DEF PortInv, TrackingInv, PeerTransmit, hwTx
<1>. QED  BY <1>3, <1>4, <1>5, <1>6 DEF PortInv

(* TXE: the transmission starts, and the oldest byte of the buffer goes to  *)
(* TDR.                                                                     *)
LEMMA SendNextInv == PortInv /\ IsrTxe /\ TxeFires /\ buf_tx # <<>> => PortInv'
<1> SUFFICES ASSUME PortInv, IsrTxe, TxeFires, buf_tx # <<>> PROVE PortInv'
  OBVIOUS
<1>0. /\ tdr = <<>> /\ shift \in Seq(Byte) /\ line \in Seq(Byte) /\ buf_tx \in Seq(Byte)
      /\ Len(buf_tx) \in Nat /\ Len(buf_tx) <= TxSize /\ TxSize \in Nat
  BY PortAssumption, LenProperties DEF PortInv, TypeOK, TxeFires, Reg
<1>1. /\ buf_tx' = Tail(buf_tx) /\ TransmitData(Head(buf_tx)) /\ isr' = "tc"
      /\ stats' = [stats EXCEPT !.tx_transmited = stats.tx_transmited + 1]
      /\ in_transmission' = TRUE /\ de' = (de \/ ~in_transmission)
      /\ UNCHANGED <<cr1, shift, line, hwRx, accepted, ioRx, pc>>
  BY DEF IsrTxe, FeedTdr, StartTransmission
<1>2. Head(buf_tx) \in Byte /\ Tail(buf_tx) \in Seq(Byte) /\ Len(Tail(buf_tx)) <= TxSize
  BY <1>0, HeadTailProperties
<1>3. tdr' = <<Head(buf_tx)>> /\ tdr' \in Reg(Byte)
  BY <1>1, <1>2 DEF TransmitData, Reg
<1>4. /\ stats' \in [{"rx_received", "rx_overrun", "tx_transmited"} -> Nat]
      /\ stats'.tx_transmited = stats.tx_transmited + 1
  <2>1. /\ stats \in [{"rx_received", "rx_overrun", "tx_transmited"} -> Nat]
        /\ stats.tx_transmited + 1 \in Nat
    BY DEF PortInv, TypeOK
  <2>. QED  BY <1>1, <2>1, FieldSet
<1>5. /\ cr1' \in Cr1Type /\ flags' \in FlagsType /\ ~flags'.tc
      /\ in_transmission' = TRUE /\ de' \in BOOLEAN
  BY <1>1 DEF PortInv, TypeOK, TransmitData, Cr1Type, FlagsType
<1>6. TypeOK'
  BY <1>1, <1>2, <1>3, <1>4, <1>5
  DEF PortInv, TypeOK, IsrStep, hwRx, ioRx, Cr1Type, FlagsType
<1>7. Conserved'
  <2>1. Placed(line, shift, <<Head(buf_tx)>>, Tail(buf_tx)) = Placed(line, shift, <<>>, buf_tx)
    BY <1>0, PlacedPop
  <2>2. line' \o shift' \o tdr' \o buf_tx' = accepted'
    BY <1>0, <1>1, <1>3, <2>1 DEF PortInv, Conserved, Placed
  <2>3. Len(tdr') = Len(tdr) + 1 /\ Len(line) \in Nat /\ Len(shift) \in Nat
    BY <1>0, <1>3
  <2>4. stats'.tx_transmited = Len(line') + Len(shift') + Len(tdr')
    BY <1>1, <1>4, <2>3, <1>0 DEF PortInv, Conserved
  <2>. QED  BY <2>2, <2>4 DEF Conserved
<1>8. de' = TRUE
  BY <1>1 DEF PortInv, TransmitterInv, TypeOK
<1>9. TransmitterInv'
  BY <1>1, <1>5, <1>8 DEF TransmitterInv
<1>10. ~IrqControl => TrackingInv'
  BY <1>1, <1>5 DEF PortInv, TrackingInv
<1>. QED  BY <1>6, <1>7, <1>9, <1>10 DEF PortInv

(* TXE with nothing to send still starts a transmission, line driver        *)
(* included.                                                                *)
LEMMA IsrTxeRestInv ==
    ASSUME PortInv, IsrTxe, ~(TxeFires /\ buf_tx # <<>>)
    PROVE  PortInv'
<1>1. /\ isr' = "tc"
      /\ UNCHANGED <<cr1, flags, hwTx, hwRx, ioTx, ioRx, stats, pc>>
  BY DEF IsrTxe, FeedTdr, hwTx, ioTx, ioRx
<1>2. /\ in_transmission' \in BOOLEAN /\ de' \in BOOLEAN
      /\ (in_transmission' => de') /\ (de => de')
      /\ (in_transmission => in_transmission') /\ (~in_transmission' => ~de' \/ de)
  BY DEF PortInv, TypeOK, TransmitterInv, IsrTxe, StartTransmission
<1>3. TypeOK'
  BY <1>1, <1>2 DEF PortInv, TypeOK, IsrStep, hwTx, hwRx, ioTx, ioRx
<1>4. Conserved'
  BY <1>1, KeepsConserved DEF PortInv, hwTx, ioTx
<1>5. TransmitterInv'
  BY <1>1, <1>2 DEF PortInv, TransmitterInv, hwTx
<1>6. ~IrqControl => TrackingInv'
  BY <1>1, <1>2 DEF PortInv, TrackingInv, hwTx
<1>. QED  BY <1>3, <1>4, <1>5, <1>6 DEF PortInv

(* TC only decides whether the transmission is complete. *)
LEMMA IsrTcInv == PortInv /\ IsrTc => PortInv'
<1> SUFFICES ASSUME PortInv, IsrTc PROVE PortInv'
  OBVIOUS
<1>1. isr' \in {"complete", "idle"} /\ (isr' = "complete" => flags.tc)
  BY DEF IsrTc, TcFires
<1>2. TypeOK'
  BY <1>1 DEF PortInv, TypeOK, IsrTc, IsrStep, hwTx, hwRx, ioTx, ioRx
<1>3. Conserved'
  BY KeepsConserved DEF PortInv, IsrTc, hwTx, ioTx
<1>4. TransmitterInv'
  BY <1>1 DEF PortInv, TransmitterInv, IsrTc, hwTx
<1>5. ~IrqControl => TrackingInv'
  BY DEF PortInv, TrackingInv, IsrTc, hwTx
<1>. QED  BY <1>2, <1>3, <1>4, <1>5 DEF PortInv

(* The end of a transmission: the transmitter is empty, so the line driver  *)
(* may be released.                                                         *)
LEMMA IsrCompleteInv == PortInv /\ IsrComplete => PortInv'
<1> SUFFICES ASSUME PortInv, IsrComplete PROVE PortInv'
  OBVIOUS
<1>1. tdr = <<>> /\ shift = <<>>
  BY DEF PortInv, TransmitterInv, IsrComplete
<1>2. TypeOK'
  <2>1. cr1' \in Cr1Type /\ flags' \in FlagsType
    BY DEF PortInv, TypeOK, IsrComplete, Cr1Type, FlagsType
  <2>. QED  BY <2>1 DEF PortInv, TypeOK, IsrComplete, IsrStep, hwTx, hwRx, ioTx, ioRx, Cr1Type, FlagsType
<1>3. Conserved'
  BY KeepsConserved DEF PortInv, IsrComplete, hwTx, ioTx
<1>4. TransmitterInv'
  BY <1>1 DEF TransmitterInv, IsrComplete, hwTx
<1>5. ~IrqControl => TrackingInv'
  BY <1>1 DEF PortInv, TrackingInv, IsrComplete, hwTx
<1>. QED  BY <1>2, <1>3, <1>4, <1>5 DEF PortInv

(* Every step of the driver, its callers and the hardware keeps PortInv. *)
LEMMA NextInv == PortInv /\ [Next]_vars => PortInv'
<1> SUFFICES ASSUME PortInv, [Next]_vars PROVE PortInv'
  OBVIOUS
<1>1. ASSUME NEW t \in Task, IoTransmit(t) \/ Trigger(t) \/ IrqEnable(t) \/ Receive(t)
      PROVE  PortInv'
  BY <1>1, TransmitInv, TriggerInv, IrqEnableInv, ReceiveInv DEF IoTransmit
<1>2. ASSUME NEW p \in Peer, PeerTransmit(p) PROVE PortInv'
  BY <1>2, PeerTransmitInv
<1>3. CASE Isr
  BY <1>3, IsrEnterInv, IsrRxneInv, SendNextInv, IsrTxeRestInv, IsrTcInv, IsrCompleteInv DEF Isr
<1>4. CASE LoadShift \/ ShiftDone \/ CharArrives \/ LineIdle
  BY <1>4, LoadShiftInv, ShiftDoneInv, ReceiverInv
<1>5. CASE UNCHANGED vars
  <2>1. TypeOK'
    BY <1>5 DEF PortInv, TypeOK, vars, hwTx, hwRx, ioTx, ioRx
  <2>. QED  BY <1>5, <2>1, KeepsTransmitter DEF vars, hwTx, ioTx
<1>. QED  BY <1>1, <1>2, <1>3, <1>4, <1>5 DEF Next, Switcher

-----------------------------------------------------------------------------
(* The theorems. *)

(* PortInv holds in every reachable state: types, conservation of the       *)
(* accepted bytes, and the relation of in_transmission, the TC flag and the *)
(* line driver to the transmitter.                                          *)
THEOREM PortInvariant == Spec => []PortInv
<1>1. Init => PortInv
  BY PortInitInv DEF Init
<1>. QED  BY <1>1, NextInv, PTL DEF Spec

(* Every accepted byte is in exactly one place, in order, whatever tasks,   *)
(* interrupts, tunnels and hardware do.                                     *)
THEOREM BytesConserved == Spec => []Conserved
<1>1. PortInv => Conserved
  BY DEF PortInv
<1>. QED  BY <1>1, PortInvariant, PTL

(* Every character is shifted out between tx_start and tx_end, so an RS-485 *)
(* line driver is on for all of it.                                         *)
THEOREM DriverOn == Spec => []DriverCoversLine
<1>1. PortInv => DriverCoversLine
  BY DEF PortInv, TransmitterInv, DriverCoversLine
<1>. QED  BY <1>1, PortInvariant, PTL

(* Unless the application switches the interrupts off, transmit_busy        *)
(* returns false only when everything accepted has left the line.           *)
THEOREM BusyIsSound == ASSUME ~IrqControl PROVE Spec => []NotBusyMeansDone
<1>1. PortInv => NotBusyMeansDone
  <2> SUFFICES ASSUME PortInv, ~TransmitBusy PROVE line = accepted /\ ~de
    BY DEF NotBusyMeansDone
  <2>1. buf_tx = <<>> /\ shift = <<>> /\ tdr = <<>> /\ ~de
    BY DEF PortInv, TrackingInv, TransmitBusy
  <2>2. line \in Seq(Byte)
    BY DEF PortInv, TypeOK
  <2>. QED  BY <2>1, <2>2, ConcatEmptySeq DEF PortInv, Conserved
<1>. QED  BY <1>1, PortInvariant, PTL

(* The driver implements ByteStream: accepted bytes leave the line once and *)
(* in order; a tunnel, the interrupt switch or a nested interrupt cannot    *)
(* duplicate, drop or reorder them.                                         *)
THEOREM ImplementsStream == Spec => StreamSpec
<1>1. Init => Stream!Init
  BY DEF Init, PortInit, Stream!Init
<1>2. PortInv /\ [Next]_vars => [Stream!Next]_Stream!vars
  <2> SUFFICES ASSUME PortInv, [Next]_vars PROVE [Stream!Next]_Stream!vars
    OBVIOUS
  <2>1. ASSUME NEW t \in Task, IoTransmit(t) PROVE Stream!Accept
    BY <2>1, TransmitAccepts DEF IoTransmit
  <2>2. ASSUME NEW p \in Peer, PeerTransmit(p) PROVE Stream!Accept
    <3>1. PICK b \in Byte : BufferWrite(<<b>>)
      BY <2>2 DEF PeerTransmit
    <3>2. <<b>> \in Seq(Byte)
      OBVIOUS
    <3>. QED  BY <2>2, <3>1, <3>2, BufferWriteEffect DEF PortInv, PeerTransmit, hwTx, Stream!Accept
  <2>3. CASE ShiftDone
    BY <2>3, ShiftDoneSends DEF Stream!Next
  <2>4. ASSUME NEW t \in Task, Trigger(t) \/ IrqEnable(t) \/ Receive(t)
        PROVE  UNCHANGED <<accepted, line>>
    BY <2>4 DEF Trigger, TriggerClearTc, TriggerEnableTxe, TriggerEnableTc, IrqEnable, IrqOffRx,
       IrqOffTxe, IrqOffTc, IrqOffFlags, IrqOn, Receive, hwTx, ioTx
  <2>5. ASSUME Isr PROVE UNCHANGED <<accepted, line>>
    BY <2>5 DEF Isr, IsrEnter, IsrRxne, IsrTxe, IsrTc, IsrComplete, hwTx, ioTx
  <2>6. ASSUME LoadShift \/ CharArrives \/ LineIdle PROVE UNCHANGED <<accepted, line>>
    BY <2>6 DEF LoadShift, CharArrives, LineIdle, hwTx, ioTx
  <2>7. CASE UNCHANGED vars
    BY <2>7 DEF vars, hwTx, ioTx, Stream!vars
  <2>. QED  BY <2>1, <2>2, <2>3, <2>4, <2>5, <2>6, <2>7 DEF Next, Switcher, Stream!Next, Stream!vars
<1>. QED  BY <1>1, <1>2, PortInvariant, PTL DEF Spec, StreamSpec, Stream!Spec

-----------------------------------------------------------------------------
(* Reception.                                                               *)

(* The transmit half and the calls leave what was received alone, and clear *)
(* no overrun flag.                                                         *)
LEMMA ReceptionUntouched ==
    ASSUME TypeOK,
           \/ \E t \in Task : Trigger(t) \/ IrqEnable(t)
           \/ \E p \in Peer : PeerTransmit(p)
           \/ IsrTxe \/ IsrTc \/ IsrComplete \/ UNCHANGED vars
    PROVE  /\ UNCHANGED <<received, buf_rx, rdr, arrived, lost, tunnelled>>
           /\ stats'.rx_received = stats.rx_received /\ stats'.rx_overrun = stats.rx_overrun
           /\ flags'.ore = flags.ore
<1>0. /\ flags \in FlagsType
      /\ stats \in [{"rx_received", "rx_overrun", "tx_transmited"} -> Nat]
  BY DEF TypeOK, FlagsType
<1> USE DEF hwRx, ioRx, FlagsType
<1>1. ASSUME NEW t \in Task, Trigger(t)
      PROVE  UNCHANGED <<hwRx, ioRx, stats>> /\ flags'.ore = flags.ore
  BY <1>0, <1>1 DEF Trigger, TriggerClearTc, TriggerEnableTxe, TriggerEnableTc
<1>2. ASSUME NEW t \in Task, IrqEnable(t)
      PROVE  UNCHANGED <<hwRx, ioRx, stats>> /\ flags'.ore = flags.ore
  BY <1>0, <1>2 DEF IrqEnable, IrqOffRx, IrqOffTxe, IrqOffTc, IrqOffFlags, IrqOn
<1>3. ASSUME NEW p \in Peer, PeerTransmit(p)
      PROVE  UNCHANGED <<hwRx, ioRx, stats>> /\ flags'.ore = flags.ore
  BY <1>0, <1>3 DEF PeerTransmit
<1>4. ASSUME IsrTxe
      PROVE  /\ UNCHANGED <<hwRx, ioRx>> /\ flags'.ore = flags.ore
             /\ stats'.rx_received = stats.rx_received /\ stats'.rx_overrun = stats.rx_overrun
  BY <1>0, <1>4 DEF IsrTxe, FeedTdr, TransmitData
<1>5. ASSUME IsrTc \/ IsrComplete
      PROVE  UNCHANGED <<hwRx, ioRx, stats>> /\ flags'.ore = flags.ore
  BY <1>0, <1>5 DEF IsrTc, IsrComplete
<1>. QED  BY <1>1, <1>2, <1>3, <1>4, <1>5 DEF vars

(* The steps of Next that move characters are those UartPort shares. *)
LEMMA NextSplits ==
    ASSUME [Next]_vars
    PROVE  \/ \/ \E t \in Task : Trigger(t) \/ IrqEnable(t)
              \/ \E p \in Peer : PeerTransmit(p)
              \/ IsrTxe \/ IsrTc \/ IsrComplete \/ UNCHANGED vars
           \/ \/ LoadShift \/ ShiftDone \/ CharArrives \/ LineIdle \/ IsrEnter \/ IsrRxne
              \/ \E t \in Task : Receive(t) \/ \E first \in PcStep : Transmit(t, first)
<1>1. "clear_tc" \in PcStep
  BY DEF PcStep
<1>. QED  BY <1>1 DEF Next, Isr, IoTransmit, Switcher

(* A received character reaches the application or the tunnel at most once  *)
(* and in order, or is counted as lost.                                     *)
THEOREM ReceptionInOrder == Spec => []ReceivedInOrder
<1>1. Init => OrderInv
  BY OrderInit DEF Init
<1>2. PortInv /\ OrderInv /\ [Next]_vars => OrderInv'
  <2> SUFFICES ASSUME PortInv, OrderInv, [Next]_vars PROVE OrderInv'
    OBVIOUS
  <2>. QED  BY NextSplits, ReceptionUntouched, KeepsOrder, SharedOrder DEF PortInv
<1>3. OrderInv => ReceivedInOrder
  BY DEF OrderInv, ReceivedInOrder, Seen, Increasing
<1>. QED  BY <1>1, <1>2, <1>3, PortInvariant, PTL DEF Spec

(* A lost character is told by rx_overrun, or will be as soon as the        *)
(* overrun flag that is up is served. uni_hal_usart_irq_enable of this      *)
(* driver leaves the flag up, so nothing is assumed about its use.          *)
THEOREM LossIsReported == Spec => []LossReported
<1>1. Init => LossReported
  BY DEF Init, PortInit, LossReported
<1>2. PortInv /\ LossReported /\ [Next]_vars => LossReported'
  <2> SUFFICES ASSUME PortInv, LossReported, [Next]_vars PROVE LossReported'
    OBVIOUS
  <2>. QED  BY NextSplits, ReceptionUntouched, KeepsLoss, SharedLoss DEF PortInv
<1>. QED  BY <1>1, <1>2, PortInvariant, PTL DEF Spec

-----------------------------------------------------------------------------
(* No byte waits for the next call. TXE and TC are turned off together, at  *)
(* the end of a transmission; that this finds the buffer empty needs TC to  *)
(* be looked at no later than the character it tells of: when characters    *)
(* end while the handler is held up between TXE and TC, TC completes a      *)
(* transmission that has bytes left.                                        *)
StallInv ==
    /\ in_transmission => cr1.txe
    /\ isr = "complete" => buf_tx = <<>>
    /\ isr = "tc" /\ flags.tc /\ in_transmission => buf_tx = <<>>
    /\ buf_tx # <<>> /\ (\A t \in Task : pc[t] \in {"ready", "enable_tc"}) => cr1.txe

LEMMA StallStep ==
    ASSUME ~IrqControl, Peer = {}, Latency # "any"
    PROVE  PortInv /\ StallInv /\ [Next]_vars => StallInv'
<1> SUFFICES ASSUME PortInv, StallInv, [Next]_vars PROVE StallInv'
  OBVIOUS
<1>0. /\ cr1 \in Cr1Type /\ flags \in FlagsType /\ in_transmission \in BOOLEAN
      /\ pc \in [Task -> PcStep]
  BY DEF PortInv, TypeOK, Cr1Type, FlagsType
<1> USE DEF StallInv, Cr1Type, FlagsType
<1>1. ASSUME NEW t \in Task, IoTransmit(t) PROVE StallInv'
  <2>1. pc'[t] = "clear_tc"
    BY <1>0, <1>1 DEF IoTransmit, Transmit
  <2>. QED  BY <1>1, <2>1 DEF IoTransmit, Transmit, TasksRun
<1>2. ASSUME NEW t \in Task, TriggerClearTc(t) PROVE StallInv'
  <2>1. pc'[t] = "enable_txe" /\ isr' = "idle"
    BY <1>0, <1>2 DEF TriggerClearTc, Step, TasksRun
  <2>. QED  BY <1>2, <2>1 DEF TriggerClearTc, ioTx
<1>3. ASSUME NEW t \in Task, TriggerEnableTxe(t) PROVE StallInv'
  <2>1. cr1'.txe /\ isr' = "idle"
    BY <1>0, <1>3 DEF TriggerEnableTxe, TxeEnabled, Step, TasksRun
  <2>. QED  BY <2>1
<1>4. ASSUME NEW t \in Task, TriggerEnableTc(t) PROVE StallInv'
  <2>1. /\ cr1'.txe = cr1.txe /\ isr' = "idle" /\ pc[t] = "enable_tc"
        /\ \A u \in Task \ {t} : pc'[u] = pc[u]
    BY <1>0, <1>4 DEF TriggerEnableTc, Step, TasksRun
  <2>2. (\A u \in Task : pc'[u] \in {"ready", "enable_tc"})
            => \A u \in Task : pc[u] \in {"ready", "enable_tc"}
    BY <2>1
  <2>. QED  BY <1>4, <2>1, <2>2 DEF TriggerEnableTc, ioTx
<1>5. ASSUME NEW t \in Task, Receive(t) PROVE StallInv'
  BY <1>5 DEF Receive, hwTx, ioTx
<1>6. CASE IsrEnter \/ IsrRxne
  <2>1. isr' \in {"rx", "txe"}
    BY <1>6 DEF IsrEnter, IsrRxne
  <2>. QED  BY <1>6, <2>1 DEF IsrEnter, IsrRxne, ioTx
\* With TC up the data register is empty, so TXE fires, and takes a byte if
\* there is one: then TC drops.
<1>7. CASE IsrTxe
  <2>1. isr' = "tc" /\ cr1' = cr1 /\ pc' = pc
    BY <1>7 DEF IsrTxe
  <2>2. CASE TxeFires
    <3>1. cr1.txe
      BY <2>2 DEF TxeFires
    <3>2. CASE buf_tx # <<>>
      <4>1. ~flags'.tc
        BY <1>0, <1>7, <2>2, <3>2 DEF IsrTxe, FeedTdr, TransmitData
      <4>. QED  BY <2>1, <3>1, <4>1
    <3>3. CASE buf_tx = <<>>
      <4>1. buf_tx' = <<>>
        BY <1>7, <2>2, <3>3 DEF IsrTxe, FeedTdr
      <4>. QED  BY <2>1, <3>1, <4>1
    <3>. QED  BY <3>2, <3>3
  <2>3. CASE ~TxeFires
    <3>1. flags.tc => ~in_transmission
      BY <2>3 DEF TxeFires, PortInv, TransmitterInv
    <3>2. UNCHANGED <<buf_tx, in_transmission, flags>>
      BY <1>7, <2>3 DEF IsrTxe
    <3>. QED  BY <2>1, <3>1, <3>2
  <2>. QED  BY <2>2, <2>3
<1>8. CASE IsrTc
  <2>1. isr' \in {"complete", "idle"} /\ (isr' = "complete" => flags.tc /\ in_transmission)
    BY <1>8 DEF IsrTc, TcFires
  <2>2. isr' = "complete" => buf_tx = <<>>
    BY <1>8, <2>1 DEF IsrTc
  <2>. QED  BY <1>8, <2>1, <2>2 DEF IsrTc, ioTx
<1>9. CASE IsrComplete
  <2>1. buf_tx' = <<>> /\ ~in_transmission' /\ isr' = "idle"
    BY <1>9 DEF IsrComplete, ioTx
  <2>. QED  BY <2>1
<1>10. CASE LoadShift
  BY <1>10 DEF LoadShift, ioTx
\* Characters do not end inside the handler.
<1>11. CASE ShiftDone
  <2>1. isr' = "idle"
    BY <1>11 DEF ShiftDone, CharacterTime
  <2>. QED  BY <1>11, <2>1 DEF ShiftDone, ioTx
<1>12. CASE CharArrives \/ LineIdle
  <2>1. flags'.tc = flags.tc
    BY <1>0, <1>12 DEF CharArrives, LineIdle
  <2>. QED  BY <1>12, <2>1 DEF CharArrives, LineIdle, hwTx, ioTx
<1>13. CASE UNCHANGED vars
  BY <1>13 DEF vars, hwTx, ioTx
<1>. QED  BY <1>1, <1>2, <1>3, <1>4, <1>5, <1>6, <1>7, <1>8, <1>9, <1>10, <1>11, <1>12, <1>13
          DEF Next, Isr, Trigger, Switcher

(* Whenever bytes wait and no call is in progress TXE is armed, provided no *)
(* character ends while the handler runs.                                   *)
THEOREM NothingStalls ==
    ASSUME ~IrqControl, Peer = {}, Latency # "any" PROVE Spec => []NoStall
<1>1. Init => StallInv
  BY DEF Init, PortInit, StallInv
<1>2. StallInv => NoStall
  BY DEF StallInv, NoStall
<1>. QED  BY <1>1, <1>2, StallStep, PortInvariant, PTL DEF Spec
=============================================================================
