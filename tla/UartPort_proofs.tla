--------------------------- MODULE UartPort_proofs ---------------------------
(***************************************************************************)
(* Lemmas about UartPort: what the buffer and the transmitter do to the    *)
(* byte stream, and that each action the two drivers share preserves       *)
(* PortInv.  UartH7_proofs and UartL4_proofs add the driver's own actions. *)
(***************************************************************************)
EXTENDS UartPort, SequenceTheorems, TLAPS

-----------------------------------------------------------------------------
(* The four places of a byte, as one sequence. *)
Placed(l, s, d, b) == l \o s \o d \o b

(* Concatenation under a name of its own: the SMT backend rewrites an       *)
(* equation between concatenations element by element, and a lemma about    *)
(* such an equation is not found again once it is rewritten.                *)
Joined(s, t) == s \o t

(* Concatenating four sequences over S gives a sequence over S. *)
LEMMA PlacedType ==
    ASSUME NEW S, NEW l \in Seq(S), NEW s \in Seq(S), NEW d \in Seq(S), NEW b \in Seq(S)
    PROVE  Placed(l, s, d, b) \in Seq(S)
BY ConcatProperties DEF Placed

(* A byte that moves from the shift register to the line, with TDR          *)
(* following it, stays where it is in the stream.                           *)
LEMMA PlacedShift ==
    ASSUME NEW S, NEW l \in Seq(S), NEW s \in Seq(S), NEW d \in Seq(S), NEW b \in Seq(S)
    PROVE  Placed(l \o s, d, <<>>, b) = Placed(l, s, d, b)
BY ConcatProperties, ConcatEmptySeq DEF Placed

(* TDR moves into the free shift register. *)
LEMMA PlacedLoad ==
    ASSUME NEW S, NEW l \in Seq(S), NEW d \in Seq(S), NEW b \in Seq(S)
    PROVE  Placed(l, d, <<>>, b) = Placed(l, <<>>, d, b)
BY ConcatProperties, ConcatEmptySeq DEF Placed

(* The head of the buffer moves into the free TDR. *)
LEMMA PlacedPop ==
    ASSUME NEW S, NEW l \in Seq(S), NEW s \in Seq(S), NEW b \in Seq(S), b # <<>>
    PROVE  Placed(l, s, <<Head(b)>>, Tail(b)) = Placed(l, s, <<>>, b)
<1>1. Head(b) \in S /\ Tail(b) \in Seq(S)
  BY HeadTailProperties
<1>2. <<Head(b)>> \in Seq(S) /\ l \o s \in Seq(S)
  BY <1>1, ConcatProperties
<1>3. <<Head(b)>> \o Tail(b) = b
  <2>1. Len(<<Head(b)>> \o Tail(b)) = Len(b) /\ <<Head(b)>> \o Tail(b) \in Seq(S)
    BY <1>1, <1>2, ConcatProperties, HeadTailProperties, EmptySeq
  <2>2. ASSUME NEW i \in 1..Len(b) PROVE (<<Head(b)>> \o Tail(b))[i] = b[i]
    BY <1>1, <1>2, ConcatProperties, HeadTailProperties, EmptySeq
  <2>. QED  BY <2>1, <2>2, SeqEqual
<1>4. ((l \o s) \o <<Head(b)>>) \o Tail(b) = (l \o s) \o b
  BY <1>1, <1>2, <1>3, ConcatAssociative
<1>. QED  BY <1>2, <1>4, ConcatEmptySeq DEF Placed

(* The four places of a byte, taken as the sent half and the waiting half.  *)
LEMMA PlacedInPairs ==
    ASSUME NEW S, NEW l \in Seq(S), NEW s \in Seq(S), NEW d \in Seq(S), NEW b \in Seq(S)
    PROVE  Placed(l, s, d, b) = Joined(Joined(l, s), Joined(d, b))
<1> DEFINE ls == l \o s
<1>1. ls \in Seq(S)
  BY ConcatProperties
<1> HIDE DEF ls
<1>2. (ls \o d) \o b = ls \o (d \o b)
  BY <1>1, ConcatAssociative
<1>. QED  BY <1>2 DEF ls, Placed, Joined

(* What is added to the buffer is added to the stream. *)
LEMMA PlacedWrite ==
    ASSUME NEW S, NEW l \in Seq(S), NEW s \in Seq(S), NEW d \in Seq(S), NEW b \in Seq(S),
           NEW w \in Seq(S)
    PROVE  Placed(l, s, d, Joined(b, w)) = Joined(Placed(l, s, d, b), w)
<1>1. l \o s \in Seq(S)
  BY ConcatProperties
<1>2. (l \o s) \o d \in Seq(S)
  BY <1>1, ConcatProperties
<1>3. ASSUME NEW t \in Seq(S) PROVE (t \o b) \o w = t \o (b \o w)
  BY SMTT(30)
<1>. QED  BY <1>2, <1>3 DEF Placed, Joined

(* A sequence is the prefix of its length of every extension. *)
LEMMA ConcatPrefix ==
    ASSUME NEW S, NEW s \in Seq(S), NEW t \in Seq(S)
    PROVE  SubSeq(s \o t, 1, Len(s)) = s
<1>1. /\ s \o t \in Seq(S) /\ Len(s \o t) = Len(s) + Len(t)
      /\ Len(s) \in Nat /\ Len(t) \in Nat
  BY ConcatProperties, LenProperties
<1>2. \A i \in 1..Len(s) : (s \o t)[i] = s[i] /\ s[i] \in S
  BY <1>1, ConcatProperties, LenProperties
<1>3. \A i \in 1..Len(s) : (s \o t)[i] \in S
  BY <1>2
<1>4. /\ SubSeq(s \o t, 1, Len(s)) \in Seq(S)
      /\ Len(SubSeq(s \o t, 1, Len(s))) = IF 1 <= Len(s) THEN Len(s) - 1 + 1 ELSE 0
      /\ \A i \in 1..Len(s) - 1 + 1 : SubSeq(s \o t, 1, Len(s))[i] = (s \o t)[1 + i - 1]
  BY <1>1, <1>3, SubSeqProperties
<1>5. Len(SubSeq(s \o t, 1, Len(s))) = Len(s)
  BY <1>1, <1>4
<1>6. ASSUME NEW i \in 1..Len(s) PROVE SubSeq(s \o t, 1, Len(s))[i] = s[i]
  BY <1>1, <1>2, <1>4
<1>. QED  BY <1>4, <1>5, <1>6, SeqEqual

(* A write stores a sequence of bytes that fits into the room there is.     *)
LEMMA FittingType ==
    ASSUME NEW data \in Seq(Byte), NEW room \in Nat
    PROVE  Fitting(data, room) \in Seq(Byte) /\ Len(Fitting(data, room)) <= room
<1>1. CASE Len(data) <= room
  BY <1>1 DEF Fitting
<1>2. CASE ~(Len(data) <= room)
  BY <1>2, SubSeqProperties, LenProperties DEF Fitting
<1>. QED  BY <1>1, <1>2

-----------------------------------------------------------------------------
(* What a buffer write does to the stream of accepted bytes. *)

(* A write fills the buffer at most to its size, and adds to the accepted   *)
(* bytes exactly what it added to the buffer.                               *)
LEMMA BufferWriteEffect ==
    ASSUME TypeOK, Conserved, NEW data \in Seq(Byte), BufferWrite(data)
    PROVE  /\ buf_tx' \in Seq(Byte) /\ Len(buf_tx') <= TxSize
           /\ accepted' \in Seq(Byte)
           /\ line \o shift \o tdr \o buf_tx' = accepted'
           /\ Len(accepted') >= Len(accepted)
           /\ SubSeq(accepted', 1, Len(accepted)) = accepted
<1> DEFINE room == TxSize - Len(buf_tx)
           stored == Fitting(data, room)
<1>1. /\ buf_tx \in Seq(Byte) /\ accepted \in Seq(Byte) /\ line \in Seq(Byte)
      /\ shift \in Seq(Byte) /\ tdr \in Seq(Byte) /\ Len(buf_tx) \in Nat
      /\ Len(buf_tx) <= TxSize /\ TxSize \in Nat
  BY PortAssumption, LenProperties DEF TypeOK, Reg
<1>2. room \in Nat
  BY <1>1
<1>3. stored \in Seq(Byte) /\ Len(stored) <= room
  BY <1>2, FittingType
<1>4. buf_tx' = buf_tx \o stored /\ accepted' = accepted \o stored
  BY DEF BufferWrite
<1> HIDE DEF stored
<1>5. buf_tx' \in Seq(Byte) /\ Len(buf_tx') = Len(buf_tx) + Len(stored)
  BY <1>1, <1>3, <1>4, ConcatProperties
<1>6. accepted' \in Seq(Byte) /\ Len(accepted') = Len(accepted) + Len(stored)
  BY <1>1, <1>3, <1>4, ConcatProperties
<1>7. line \o shift \o tdr \o buf_tx' = accepted'
  <2>1. Placed(line, shift, tdr, Joined(buf_tx, stored)) = Joined(Placed(line, shift, tdr, buf_tx), stored)
    BY <1>1, <1>3, PlacedWrite
  <2>2. Placed(line, shift, tdr, buf_tx) = accepted
    BY DEF Placed, Conserved
  <2>3. Placed(line, shift, tdr, buf_tx') = accepted'
    BY <1>4, <2>1, <2>2 DEF Joined
  <2>. QED  BY <2>3 DEF Placed
<1>8. SubSeq(accepted \o stored, 1, Len(accepted)) = accepted
  BY <1>1, <1>3, ConcatPrefix
<1>9. Len(stored) \in Nat /\ Len(accepted) \in Nat
  BY <1>1, <1>3, LenProperties
<1>. QED  BY <1>1, <1>3, <1>4, <1>5, <1>6, <1>7, <1>8, <1>9

-----------------------------------------------------------------------------
(* Each shared action preserves PortInv. The cases that leave the bytes     *)
(* where they are get Conserved from KeepsConserved.                        *)

(* Setting one field keeps a record of flags or counters in its type. *)
LEMMA FieldSet ==
    ASSUME NEW D, NEW R, NEW f \in [D -> R], NEW x \in D, NEW v \in R
    PROVE  [f EXCEPT ![x] = v] \in [D -> R]
OBVIOUS

(* The types of the registers, and the values the drivers write as a whole. *)
Cr1Type   == [{"txe", "tc", "rxne", "idle"} -> BOOLEAN]
FlagsType == [{"tc", "idle", "ore"} -> BOOLEAN]

LEMMA RegisterValues ==
    /\ \A b \in BOOLEAN : [txe |-> FALSE, tc |-> FALSE, rxne |-> TRUE, idle |-> b] \in Cr1Type
    /\ [tc |-> FALSE, idle |-> FALSE, ore |-> FALSE] \in FlagsType
    /\ [rx_received |-> 0, rx_overrun |-> 0, tx_transmited |-> 0]
         \in [{"rx_received", "rx_overrun", "tx_transmited"} -> Nat]
<1>1. ASSUME NEW b \in BOOLEAN
      PROVE  [txe |-> FALSE, tc |-> FALSE, rxne |-> TRUE, idle |-> b] \in Cr1Type
  <2> DEFINE r == [txe |-> FALSE, tc |-> FALSE, rxne |-> TRUE, idle |-> b]
  <2>1. r = [x \in {"txe", "tc", "rxne", "idle"} |-> r[x]]
    OBVIOUS
  <2>a. r.txe \in BOOLEAN /\ r.tc \in BOOLEAN /\ r.rxne \in BOOLEAN /\ r.idle \in BOOLEAN
    OBVIOUS
  <2>2. \A x \in {"txe", "tc", "rxne", "idle"} : r[x] \in BOOLEAN
    <3> HIDE DEF r
    <3>. QED  BY <2>a
  <2>. QED  BY <2>1, <2>2 DEF Cr1Type
<1>2. [tc |-> FALSE, idle |-> FALSE, ore |-> FALSE] \in FlagsType
  <2> DEFINE r == [tc |-> FALSE, idle |-> FALSE, ore |-> FALSE]
  <2>1. r = [x \in {"tc", "idle", "ore"} |-> r[x]]
    OBVIOUS
  <2>a. r.tc \in BOOLEAN /\ r.idle \in BOOLEAN /\ r.ore \in BOOLEAN
    OBVIOUS
  <2>2. \A x \in {"tc", "idle", "ore"} : r[x] \in BOOLEAN
    <3> HIDE DEF r
    <3>. QED  BY <2>a
  <2>. QED  BY <2>1, <2>2 DEF FlagsType
<1>3. [rx_received |-> 0, rx_overrun |-> 0, tx_transmited |-> 0]
         \in [{"rx_received", "rx_overrun", "tx_transmited"} -> Nat]
  <2> DEFINE r == [rx_received |-> 0, rx_overrun |-> 0, tx_transmited |-> 0]
  <2>1. r = [x \in {"rx_received", "rx_overrun", "tx_transmited"} |-> r[x]]
    OBVIOUS
  <2>2. \A x \in {"rx_received", "rx_overrun", "tx_transmited"} : r[x] \in Nat
    OBVIOUS
  <2>. QED  BY <2>1, <2>2
<1>. QED  BY <1>1, <1>2, <1>3

(* Conserved speaks only of these variables. *)
LEMMA KeepsConserved ==
    ASSUME Conserved, UNCHANGED <<line, shift, tdr, buf_tx, accepted>>,
           stats'.tx_transmited = stats.tx_transmited
    PROVE  Conserved'
BY DEF Conserved

(* The state after uni_hal_usart_init satisfies the invariant. *)
LEMMA PortInitInv == ASSUME NEW idleIrq \in BOOLEAN, PortInit(idleIrq) PROVE PortInv
<1>1. TypeOK
  <2>1. cr1 \in Cr1Type /\ flags \in FlagsType
    BY RegisterValues DEF PortInit
  <2>2. stats \in [{"rx_received", "rx_overrun", "tx_transmited"} -> Nat]
    BY RegisterValues DEF PortInit
  <2>3. isr \in IsrStep /\ pc \in [Task -> PcStep]
    BY DEF PortInit, IsrStep, PcStep
  <2>4. /\ buf_tx \in Seq(Byte) /\ Len(buf_tx) <= TxSize
        /\ buf_rx \in Seq(Nat) /\ Len(buf_rx) <= RxSize
    BY PortAssumption DEF PortInit
  <2>5. /\ tdr \in Reg(Byte) /\ shift \in Reg(Byte) /\ rdr \in Reg(Nat)
        /\ in_transmission \in BOOLEAN /\ de \in BOOLEAN /\ rx_active \in BOOLEAN
        /\ accepted \in Seq(Byte) /\ line \in Seq(Byte)
        /\ arrived \in Nat /\ lost \in Nat /\ received \in Seq(Nat) /\ tunnelled \in Seq(Nat)
    <3>1. <<>> \in Reg(Byte) /\ <<>> \in Reg(Nat) /\ <<>> \in Seq(Byte) /\ <<>> \in Seq(Nat)
      BY DEF Reg
    <3>. QED  BY <3>1 DEF PortInit
  <2>. QED  BY <2>1, <2>2, <2>3, <2>4, <2>5 DEF TypeOK, Cr1Type, FlagsType
<1>2. Conserved
  BY ConcatEmptySeq DEF PortInit, Conserved
<1>3. TransmitterInv /\ TrackingInv
  BY DEF PortInit, TransmitterInv, TrackingInv
<1>. QED  BY <1>1, <1>2, <1>3 DEF PortInv

(* A step inside the receiver or the receive half of the IO layer. *)
LEMMA KeepsTransmitter ==
    ASSUME PortInv, TypeOK',
           UNCHANGED <<tdr, shift, line, buf_tx, accepted, in_transmission, de, pc>>,
           isr' = "complete" => isr = "complete",
           flags'.tc = flags.tc, stats'.tx_transmited = stats.tx_transmited
    PROVE  PortInv'
<1>1. Conserved'
  BY KeepsConserved DEF PortInv
<1>2. TransmitterInv'
  BY DEF PortInv, TransmitterInv
<1>3. ~IrqControl => TrackingInv'
  BY DEF PortInv, TrackingInv
<1>. QED  BY <1>1, <1>2, <1>3 DEF PortInv

(* A step of a driver call: the bytes and the driver's own state stay, TC   *)
(* may be cleared, the task goes on.                                        *)
LEMMA TaskStepInv ==
    ASSUME PortInv, TypeOK',
           UNCHANGED <<tdr, shift, line, buf_tx, accepted, stats, in_transmission, de, isr>>,
           flags'.tc => flags.tc,
           ~IrqControl => \A t \in Task :
               pc'[t] \in {"ready", "clear_tc", "disable_tc", "enable_txe", "enable_tc"}
    PROVE  PortInv'
<1>1. Conserved'
  BY KeepsConserved DEF PortInv
<1>2. TransmitterInv'
  BY DEF PortInv, TransmitterInv
<1>3. ~IrqControl => TrackingInv'
  BY DEF PortInv, TrackingInv
<1>. QED  BY <1>1, <1>2, <1>3 DEF PortInv

(* The types after a task step. *)
LEMMA TaskStepType ==
    ASSUME TypeOK, NEW t \in Task, NEW next \in PcStep,
           pc' = [pc EXCEPT ![t] = next],
           cr1' \in [{"txe", "tc", "rxne", "idle"} -> BOOLEAN],
           flags' \in [{"tc", "idle", "ore"} -> BOOLEAN], in_transmission' \in BOOLEAN,
           UNCHANGED <<hwTx, hwRx, ioTx, ioRx, stats, de, isr>>
    PROVE  TypeOK'
<1>1. pc' \in [Task -> PcStep]
  BY FieldSet DEF TypeOK
<1>. QED  BY <1>1 DEF TypeOK, hwTx, hwRx, ioTx, ioRx

(* The hardware: a character moves on in the transmitter. *)
LEMMA LoadShiftInv == PortInv /\ LoadShift => PortInv'
<1> SUFFICES ASSUME PortInv, LoadShift PROVE PortInv'
  OBVIOUS
<1>0. tdr \in Seq(Byte) /\ line \in Seq(Byte) /\ buf_tx \in Seq(Byte) /\ <<>> \in Seq(Byte)
  BY DEF PortInv, TypeOK, Reg
<1>1. TypeOK'
  BY DEF PortInv, TypeOK, LoadShift, Reg, hwRx, ioTx, ioRx
<1>2. Conserved'
  <2>1. Placed(line, tdr, <<>>, buf_tx) = Placed(line, <<>>, tdr, buf_tx)
    BY <1>0, PlacedLoad
  <2>2. line' \o shift' \o tdr' \o buf_tx' = accepted'
    BY <2>1 DEF PortInv, Conserved, LoadShift, Placed, hwRx, ioTx
  <2>3. Len(shift') + Len(tdr') = Len(shift) + Len(tdr) /\ Len(tdr) \in Nat /\ Len(line) \in Nat
    BY <1>0 DEF LoadShift
  <2>4. stats.tx_transmited = Len(line') + Len(shift') + Len(tdr')
    BY <1>0, <2>3 DEF PortInv, Conserved, LoadShift
  <2>. QED  BY <2>2, <2>4 DEF Conserved, LoadShift
<1>3. TransmitterInv'
  BY DEF PortInv, TransmitterInv, LoadShift
<1>4. ~IrqControl => TrackingInv'
  BY DEF PortInv, TrackingInv, LoadShift
<1>. QED  BY <1>1, <1>2, <1>3, <1>4 DEF PortInv

LEMMA ShiftDoneInv == PortInv /\ ShiftDone => PortInv'
<1> SUFFICES ASSUME PortInv, ShiftDone PROVE PortInv'
  OBVIOUS
<1>0. /\ tdr \in Seq(Byte) /\ shift \in Seq(Byte) /\ line \in Seq(Byte) /\ buf_tx \in Seq(Byte)
      /\ <<>> \in Seq(Byte)
  BY DEF PortInv, TypeOK, Reg
<1>1. TypeOK'
  <2>1. line' \in Seq(Byte)
    BY <1>0, ConcatProperties DEF ShiftDone
  <2>2. flags' \in [{"tc", "idle", "ore"} -> BOOLEAN]
    <3>1. (flags.tc \/ tdr = <<>>) \in BOOLEAN
      BY Zenon
    <3>2. flags \in [{"tc", "idle", "ore"} -> BOOLEAN]
      BY DEF PortInv, TypeOK
    <3>3. [flags EXCEPT !.tc = flags.tc \/ tdr = <<>>] \in [{"tc", "idle", "ore"} -> BOOLEAN]
      BY <3>1, <3>2, FieldSet
    <3>. QED  BY <3>3 DEF ShiftDone
  <2>. QED  BY <1>0, <2>1, <2>2 DEF PortInv, TypeOK, ShiftDone, Reg, hwRx, ioTx, ioRx
<1>2. Conserved'
  <2>1. Placed(line \o shift, tdr, <<>>, buf_tx) = Placed(line, shift, tdr, buf_tx)
    BY <1>0, PlacedShift
  <2>2. line' \o shift' \o tdr' \o buf_tx' = accepted'
    BY <2>1 DEF PortInv, Conserved, ShiftDone, Placed, ioTx
  <2>3. Len(line') = Len(line) + Len(shift) /\ Len(line) \in Nat /\ Len(shift) \in Nat
    BY <1>0, ConcatProperties, LenProperties DEF ShiftDone
  <2>4. stats.tx_transmited = Len(line') + Len(shift') + Len(tdr')
    BY <1>0, <2>3 DEF PortInv, Conserved, ShiftDone
  <2>. QED  BY <2>2, <2>4 DEF Conserved, ShiftDone
<1>3. TransmitterInv'
  BY <1>1 DEF PortInv, TransmitterInv, ShiftDone, TypeOK
<1>4. ~IrqControl => TrackingInv'
  BY DEF PortInv, TrackingInv, ShiftDone
<1>. QED  BY <1>1, <1>2, <1>3, <1>4 DEF PortInv

(* The hardware: a character or an idle line at the receiver. *)
LEMMA ReceiverInv == PortInv /\ (CharArrives \/ LineIdle) => PortInv'
<1> SUFFICES ASSUME PortInv, CharArrives \/ LineIdle PROVE PortInv'
  OBVIOUS
<1>1. TypeOK'
  <2>1. CASE CharArrives
    <3>0. /\ flags \in [{"tc", "idle", "ore"} -> BOOLEAN] /\ lost \in Nat
          /\ arrived \in Nat /\ rdr \in Reg(Nat)
      BY DEF PortInv, TypeOK
    <3>a. [flags EXCEPT !.ore = TRUE] \in [{"tc", "idle", "ore"} -> BOOLEAN]
      BY <3>0, FieldSet
    <3>b. arrived + 1 \in Nat /\ lost + 1 \in Nat /\ <<arrived + 1>> \in Reg(Nat)
      BY <3>0 DEF Reg
    <3>1. flags' \in [{"tc", "idle", "ore"} -> BOOLEAN] /\ lost' \in Nat
      BY <2>1, <3>0, <3>a, <3>b DEF CharArrives
    <3>2. arrived' \in Nat /\ rdr' \in Reg(Nat)
      BY <2>1, <3>0, <3>b DEF CharArrives
    <3>. QED  BY <2>1, <3>1, <3>2 DEF PortInv, TypeOK, CharArrives, hwTx, ioTx, ioRx
  <2>2. CASE LineIdle
    BY <2>2 DEF PortInv, TypeOK, LineIdle, Reg, hwTx, ioTx, ioRx
  <2>. QED  BY <2>1, <2>2
<1>2. /\ UNCHANGED <<tdr, shift, line, buf_tx, accepted, in_transmission, de, pc, isr>>
      /\ flags'.tc = flags.tc /\ stats' = stats
  BY DEF PortInv, TypeOK, CharArrives, LineIdle, hwTx, ioTx
<1>. QED  BY <1>1, <1>2, KeepsTransmitter

(* A task takes characters out of the receive buffer. *)
LEMMA ReceiveInv == ASSUME NEW t \in Task, PortInv, Receive(t) PROVE PortInv'
<1>1. PICK n \in 1..Len(buf_rx) :
          /\ received' = received \o SubSeq(buf_rx, 1, n)
          /\ buf_rx' = SubSeq(buf_rx, n + 1, Len(buf_rx))
  BY DEF Receive
<1>2. buf_rx \in Seq(Nat) /\ received \in Seq(Nat) /\ Len(buf_rx) \in Nat /\ Len(buf_rx) <= RxSize
  BY LenProperties DEF PortInv, TypeOK
<1>3. \A i \in 1..Len(buf_rx) : buf_rx[i] \in Nat
  BY <1>2, LenProperties
<1>4. SubSeq(buf_rx, 1, n) \in Seq(Nat)
  BY <1>2, <1>3, SubSeqProperties
<1>5. received' \in Seq(Nat)
  BY <1>1, <1>2, <1>4, ConcatProperties
<1>6. buf_rx' \in Seq(Nat) /\ Len(buf_rx') <= RxSize
  <2>1. /\ SubSeq(buf_rx, n + 1, Len(buf_rx)) \in Seq(Nat)
        /\ Len(SubSeq(buf_rx, n + 1, Len(buf_rx)))
             = IF n + 1 <= Len(buf_rx) THEN Len(buf_rx) - (n + 1) + 1 ELSE 0
    BY <1>2, <1>3, SubSeqProperties
  <2>. QED  BY <1>1, <1>2, <2>1, PortAssumption
<1>7. TypeOK'
  BY <1>5, <1>6 DEF PortInv, TypeOK, Receive, hwTx, hwRx, ioTx
<1>. QED  BY <1>7, KeepsTransmitter DEF Receive, hwTx, ioTx

(* A task hands bytes to the transmit buffer. *)
LEMMA TransmitInv ==
    ASSUME NEW t \in Task, NEW first \in {"clear_tc"}, PortInv, Transmit(t, first)
    PROVE  PortInv'
<1>1. PICK data \in Chunk : BufferWrite(data)
  BY DEF Transmit
<1>2. data \in Seq(Byte)
  BY PortAssumption
<1>3. /\ buf_tx' \in Seq(Byte) /\ Len(buf_tx') <= TxSize /\ accepted' \in Seq(Byte)
      /\ line \o shift \o tdr \o buf_tx' = accepted'
  BY <1>1, <1>2, BufferWriteEffect DEF PortInv
<1>4. TypeOK'
  BY <1>3 DEF PortInv, TypeOK, Transmit, hwTx, hwRx, ioRx, PcStep
<1>5. Conserved'
  BY <1>3 DEF PortInv, Conserved, Transmit, hwTx
<1>6. TransmitterInv'
  BY DEF PortInv, TransmitterInv, Transmit, hwTx
<1>7. ~IrqControl => TrackingInv'
  BY DEF PortInv, TrackingInv, Transmit, hwTx, TypeOK
<1>. QED  BY <1>4, <1>5, <1>6, <1>7 DEF PortInv

(* The receive half of the interrupt handler. *)
LEMMA IsrEnterInv == PortInv /\ IsrEnter => PortInv'
<1> SUFFICES ASSUME PortInv, IsrEnter PROVE PortInv'
  OBVIOUS
<1>1. TypeOK'
  <2>0. /\ flags \in [{"tc", "idle", "ore"} -> BOOLEAN]
        /\ stats \in [{"rx_received", "rx_overrun", "tx_transmited"} -> Nat]
        /\ stats.rx_overrun + 1 \in Nat
    BY DEF PortInv, TypeOK
  <2>a. /\ [flags EXCEPT !.ore = FALSE] \in [{"tc", "idle", "ore"} -> BOOLEAN]
        /\ [stats EXCEPT !.rx_overrun = stats.rx_overrun + 1]
             \in [{"rx_received", "rx_overrun", "tx_transmited"} -> Nat]
    BY <2>0, FieldSet
  <2>1. /\ flags' \in [{"tc", "idle", "ore"} -> BOOLEAN]
        /\ stats' \in [{"rx_received", "rx_overrun", "tx_transmited"} -> Nat]
    BY <2>0, <2>a DEF IsrEnter
  <2>. QED  BY <2>1 DEF PortInv, TypeOK, IsrEnter, IsrStep, hwTx, hwRx, ioTx, ioRx
<1>2. flags'.tc = flags.tc /\ stats'.tx_transmited = stats.tx_transmited
  BY DEF PortInv, TypeOK, IsrEnter
<1>. QED  BY <1>1, <1>2, KeepsTransmitter DEF IsrEnter, hwTx, ioTx

(* A received character is stored, or counted as lost; it never disturbs    *)
(* the transmit statistics, and the buffer stays within its size.           *)
LEMMA PushReceivedEffect ==
    ASSUME TypeOK, NEW c \in Nat, PushReceived(c)
    PROVE  /\ buf_rx' \in Seq(Nat) /\ Len(buf_rx') <= RxSize
           /\ stats' \in [{"rx_received", "rx_overrun", "tx_transmited"} -> Nat]
           /\ stats'.tx_transmited = stats.tx_transmited
           /\ lost' \in Nat
<1>0. /\ stats \in [{"rx_received", "rx_overrun", "tx_transmited"} -> Nat]
      /\ stats.rx_received + 1 \in Nat /\ stats.rx_overrun + 1 \in Nat /\ lost + 1 \in Nat
      /\ buf_rx \in Seq(Nat) /\ Len(buf_rx) \in Nat /\ Len(buf_rx) <= RxSize /\ lost \in Nat
      /\ RxSize \in Nat
  BY PortAssumption DEF TypeOK
<1>1. CASE Len(buf_rx) < RxSize
  <2>1. /\ buf_rx' = Append(buf_rx, c) /\ lost' = lost
        /\ stats' = [stats EXCEPT !.rx_received = stats.rx_received + 1]
    BY <1>1 DEF PushReceived
  <2>2. Append(buf_rx, c) \in Seq(Nat) /\ Len(Append(buf_rx, c)) = Len(buf_rx) + 1
    BY <1>0, AppendProperties
  <2>3. stats' \in [{"rx_received", "rx_overrun", "tx_transmited"} -> Nat]
    BY <1>0, <2>1, FieldSet
  <2>. QED  BY <1>0, <1>1, <2>1, <2>2, <2>3
<1>2. CASE ~(Len(buf_rx) < RxSize)
  <2>1. /\ buf_rx' = buf_rx /\ lost' = lost + 1
        /\ stats' = [stats EXCEPT !.rx_overrun = stats.rx_overrun + 1]
    BY <1>2 DEF PushReceived
  <2>2. stats' \in [{"rx_received", "rx_overrun", "tx_transmited"} -> Nat]
    BY <1>0, <2>1, FieldSet
  <2>. QED  BY <1>0, <2>1, <2>2
<1>. QED  BY <1>1, <1>2

LEMMA IsrRxneInv == PortInv /\ IsrRxne => PortInv'
<1> SUFFICES ASSUME PortInv, IsrRxne PROVE PortInv'
  OBVIOUS
<1>0. TypeOK
  BY DEF PortInv
<1>1. /\ rdr' \in Reg(Nat) /\ buf_rx' \in Seq(Nat) /\ Len(buf_rx') <= RxSize
      /\ stats' \in [{"rx_received", "rx_overrun", "tx_transmited"} -> Nat]
      /\ stats'.tx_transmited = stats.tx_transmited
      /\ lost' \in Nat /\ tunnelled' \in Seq(Nat)
  <2>1. CASE cr1.rxne /\ rdr # <<>>
    <3>1. rdr[1] \in Nat /\ rdr' = <<>>
      BY <1>0, <2>1 DEF TypeOK, Reg, IsrRxne
    <3>2. CASE PushReceived(rdr[1]) /\ tunnelled' = tunnelled
      BY <1>0, <3>1, <3>2, PushReceivedEffect DEF TypeOK, Reg
    <3>3. CASE tunnelled' = Append(tunnelled, rdr[1]) /\ UNCHANGED <<buf_rx, stats, lost>>
      BY <1>0, <3>1, <3>3 DEF TypeOK, Reg
    <3>. QED  BY <2>1, <3>2, <3>3 DEF IsrRxne
  <2>2. CASE ~(cr1.rxne /\ rdr # <<>>)
    BY <1>0, <2>2 DEF TypeOK, IsrRxne
  <2>. QED  BY <2>1, <2>2
<1>2. TypeOK'
  BY <1>0, <1>1 DEF TypeOK, IsrRxne, IsrStep, hwTx, ioTx
<1>. QED  BY <1>1, <1>2, KeepsTransmitter DEF IsrRxne, hwTx, ioTx

-----------------------------------------------------------------------------
(* The steps of ByteStream. *)

(* uni_hal_io_transmit_data is Accept. *)
LEMMA TransmitAccepts ==
    ASSUME NEW t \in Task, PortInv, Transmit(t, "clear_tc")
    PROVE  Stream!Accept
<1>1. PICK data \in Chunk : BufferWrite(data)
  BY DEF Transmit
<1>2. data \in Seq(Byte)
  BY PortAssumption
<1>. QED  BY <1>1, <1>2, BufferWriteEffect DEF PortInv, Transmit, hwTx, Stream!Accept

(* The element behind a prefix is the first element of what follows it. *)
LEMMA ConcatNext ==
    ASSUME NEW S, NEW l \in Seq(S), NEW s \in Seq(S), NEW r \in Seq(S), Len(s) = 1
    PROVE  /\ Len(l) < Len((l \o s) \o r)
           /\ l \o s = Append(l, ((l \o s) \o r)[Len(l) + 1])
<1>0. Len(l) \in Nat /\ Len(r) \in Nat /\ s[1] \in S
  BY LenProperties
<1>a. l \o s \in Seq(S) /\ Len(l \o s) = Len(l) + Len(s)
  BY ConcatProperties
<1>1. /\ l \o s \in Seq(S) /\ Len(l \o s) = Len(l) + 1 /\ Len(l) \in Nat /\ Len(r) \in Nat
      /\ s[1] \in S
  BY <1>0, <1>a
<1>2. Len((l \o s) \o r) = Len(l) + 1 + Len(r)
  <2>1. Len((l \o s) \o r) = Len(l \o s) + Len(r)
    BY <1>a, ConcatProperties
  <2>. QED  BY <1>1, <2>1
<1>3. ((l \o s) \o r)[Len(l) + 1] = s[1]
  BY <1>1, ConcatProperties
<1>4. l \o s = Append(l, s[1])
  <2>1. Append(l, s[1]) \in Seq(S) /\ Len(Append(l, s[1])) = Len(l) + 1
    BY <1>1, AppendProperties
  <2>2. ASSUME NEW i \in 1..Len(l \o s) PROVE (l \o s)[i] = Append(l, s[1])[i]
    BY <1>1, ConcatProperties, AppendProperties
  <2>. QED  BY <1>1, <2>1, <2>2, SeqEqual
<1>. QED  BY <1>1, <1>2, <1>3, <1>4

(* A register that is not empty holds one byte. *)
LEMMA OneElement == ASSUME NEW S, NEW s \in Seq(S), Len(s) <= 1, s # <<>> PROVE Len(s) = 1
<1>1. Len(s) \in Nat \ {0}
  BY EmptySeq
<1> DEFINE n == Len(s)
<1> HIDE DEF n
<1>2. n \in Nat /\ n # 0 /\ n <= 1
  BY <1>1 DEF n
<1>3. n = 1
  BY <1>2
<1>. QED  BY <1>3 DEF n

(* The end of a character is Send: the byte in the shift register is the    *)
(* oldest one that has not left.                                            *)
LEMMA ShiftDoneSends == ASSUME PortInv, ShiftDone PROVE Stream!Send
<1>1. /\ tdr \in Seq(Byte) /\ shift \in Seq(Byte) /\ line \in Seq(Byte) /\ buf_tx \in Seq(Byte)
      /\ Len(shift) = 1
  <2>1. tdr \in Reg(Byte) /\ shift \in Reg(Byte) /\ line \in Seq(Byte) /\ buf_tx \in Seq(Byte)
    BY DEF PortInv, TypeOK
  <2>2. shift # <<>>
    BY DEF ShiftDone
  <2>3. shift \in Seq(Byte) /\ Len(shift) <= 1
    BY <2>1 DEF Reg
  <2>5. Len(shift) = 1
    BY <2>2, <2>3, OneElement
  <2>. QED  BY <2>1, <2>3, <2>5 DEF Reg
<1> DEFINE r == tdr \o buf_tx
<1>2. r \in Seq(Byte)
  BY <1>1, ConcatProperties
<1>3. (line \o shift) \o r = accepted
  <2>1. Placed(line, shift, tdr, buf_tx) = Joined(Joined(line, shift), Joined(tdr, buf_tx))
    BY <1>1, PlacedInPairs
  <2>. QED  BY <2>1 DEF PortInv, Conserved, Placed, Joined
<1> HIDE DEF r
<1>4. /\ Len(line) < Len((line \o shift) \o r)
      /\ line \o shift = Append(line, ((line \o shift) \o r)[Len(line) + 1])
  BY <1>1, <1>2, ConcatNext
<1>. QED  BY <1>3, <1>4 DEF ShiftDone, ioTx, Stream!Send

-----------------------------------------------------------------------------
(* The receive half: what a task has read and what waits for it, as one     *)
(* sequence of character numbers.                                           *)
Seen == received \o buf_rx
Increasing(s) == \A i, j \in 1..Len(s) : i < j => s[i] < s[j]
UpTo(s, n) == \A i \in 1..Len(s) : s[i] <= n

(* ReceivedInOrder, with what makes it inductive: every character seen is   *)
(* older than the one in the data register, and that one has arrived.       *)
OrderInv ==
    /\ Increasing(Seen)
    /\ UpTo(Seen, IF rdr = <<>> THEN arrived ELSE rdr[1] - 1)
    /\ rdr # <<>> => rdr[1] <= arrived
    /\ stats.rx_received = Len(Seen)
    /\ arrived = Len(Seen) + Len(tunnelled) + lost + Len(rdr)

(* Cutting a sequence and joining the pieces gives it back. *)
LEMMA SplitJoin ==
    ASSUME NEW S, NEW s \in Seq(S), NEW n \in 1..Len(s)
    PROVE  SubSeq(s, 1, n) \o SubSeq(s, n + 1, Len(s)) = s
<1>1. Len(s) \in Nat
  BY LenProperties
<1>2. /\ 1 \in 1..Len(s) + 1 /\ n \in 1 - 1..Len(s) /\ Len(s) \in n..Len(s)
  BY <1>1
<1>3. SubSeq(s, 1, n) \o SubSeq(s, n + 1, Len(s)) = SubSeq(s, 1, Len(s))
  BY <1>2, ConcatAdjacentSubSeq
<1>. QED  BY <1>3, SubSeqFull

(* A character newer than all the others goes to the end. *)
LEMMA AppendNewest ==
    ASSUME NEW s \in Seq(Nat), NEW c \in Nat, Increasing(s), UpTo(s, c - 1)
    PROVE  Increasing(Append(s, c)) /\ UpTo(Append(s, c), c)
<1>1. /\ Len(s) \in Nat /\ Len(Append(s, c)) = Len(s) + 1
      /\ \A i \in 1..Len(s) : Append(s, c)[i] = s[i] /\ s[i] \in Nat
      /\ Append(s, c)[Len(s) + 1] = c
  BY AppendProperties, LenProperties
<1> DEFINE n == Len(s)
           a == Append(s, c)
<1>2. n \in Nat /\ Len(a) = n + 1 /\ a[n + 1] = c
  BY <1>1
<1>3. \A i \in 1..n : a[i] = s[i] /\ s[i] \in Nat /\ s[i] <= c - 1
  BY <1>1 DEF UpTo
<1>4. \A i, j \in 1..n : i < j => a[i] < a[j]
  BY <1>3 DEF Increasing
<1> HIDE DEF n, a
<1>5. ASSUME NEW i \in 1..n + 1, NEW j \in 1..n + 1, i < j PROVE a[i] < a[j]
  <2>1. CASE j \in 1..n
    BY <1>2, <1>4, <1>5, <2>1
  <2>2. CASE j = n + 1
    <3>1. i \in 1..n
      BY <1>2, <1>5, <2>2
    <3>2. a[i] \in Nat /\ a[i] <= c - 1
      BY <1>3, <3>1
    <3>. QED  BY <1>2, <2>2, <3>2
  <2>. QED  BY <1>2, <2>1, <2>2
<1>6. ASSUME NEW i \in 1..n + 1 PROVE a[i] <= c
  BY <1>2, <1>3
<1>. QED  BY <1>2, <1>5, <1>6 DEF Increasing, UpTo, n, a

LEMMA UpToMore ==
    ASSUME NEW s \in Seq(Nat), NEW m \in Int, NEW n \in Int, UpTo(s, m), m <= n
    PROVE  UpTo(s, n)
BY LenProperties DEF UpTo

(* Appending to the second of two joined sequences appends to the whole. *)
LEMMA AppendJoined ==
    ASSUME NEW S, NEW s \in Seq(S), NEW t \in Seq(S), NEW c \in S
    PROVE  s \o Append(t, c) = Append(s \o t, c)
<1>1. s \o t \in Seq(S) /\ <<c>> \in Seq(S)
  BY ConcatProperties
<1>2. Append(t, c) = t \o <<c>> /\ Append(s \o t, c) = (s \o t) \o <<c>>
  BY <1>1, AppendIsConcat
<1>. QED  BY <1>1, <1>2, ConcatAssociative

(* A step of the transmit half or of a task that calls it. *)
LEMMA KeepsOrder ==
    ASSUME OrderInv, UNCHANGED <<received, buf_rx, rdr, arrived, lost, tunnelled>>,
           stats'.rx_received = stats.rx_received
    PROVE  OrderInv'
BY DEF OrderInv, Seen, Increasing, UpTo

LEMMA OrderInit == ASSUME NEW idleIrq \in BOOLEAN, PortInit(idleIrq) PROVE OrderInv
<1>1. /\ received = <<>> /\ buf_rx = <<>> /\ rdr = <<>> /\ tunnelled = <<>>
      /\ arrived = 0 /\ lost = 0 /\ stats.rx_received = 0
  BY DEF PortInit
<1>2. Seen = <<>> /\ Len(Seen) = 0
  BY <1>1, ConcatEmptySeq DEF Seen
<1>. QED  BY <1>1, <1>2 DEF OrderInv, Increasing, UpTo

(* A character enters the data register, or is lost and counted. *)
LEMMA CharArrivesOrder == TypeOK /\ OrderInv /\ CharArrives => OrderInv'
<1> SUFFICES ASSUME TypeOK, OrderInv, CharArrives PROVE OrderInv'
  OBVIOUS
<1>0. /\ received \in Seq(Nat) /\ buf_rx \in Seq(Nat) /\ Seen \in Seq(Nat) /\ Len(Seen) \in Nat
      /\ arrived \in Nat /\ lost \in Nat /\ Len(tunnelled) \in Nat /\ Len(rdr) \in Nat
      /\ arrived' = arrived + 1 /\ Seen' = Seen /\ tunnelled' = tunnelled
      /\ stats'.rx_received = stats.rx_received
  BY ConcatProperties, LenProperties DEF TypeOK, Reg, CharArrives, ioRx, Seen
<1>1. CASE rdr = <<>>
  <2>0. rdr' = <<arrived + 1>> /\ lost' = lost
    BY <1>1 DEF CharArrives
  <2>1. rdr'[1] = arrived + 1 /\ rdr' # <<>> /\ Len(rdr') = 1
    BY <2>0
  <2>2. UpTo(Seen, arrived) /\ Len(rdr) = 0
    BY <1>1 DEF OrderInv
  <2>. QED  BY <1>0, <1>1, <2>0, <2>1, <2>2 DEF OrderInv
<1>2. CASE rdr # <<>>
  <2>1. rdr' = rdr /\ lost' = lost + 1 /\ rdr[1] \in Nat
    <3>1. Len(rdr) = 1 /\ rdr \in Seq(Nat)
      BY <1>2, OneElement DEF TypeOK, Reg
    <3>. QED  BY <1>2, <3>1 DEF CharArrives
  <2>. QED  BY <1>0, <1>2, <2>1 DEF OrderInv
<1>. QED  BY <1>1, <1>2

(* A task reads a prefix of the receive buffer. *)
LEMMA ReceiveOrder == ASSUME NEW t \in Task, TypeOK, OrderInv, Receive(t) PROVE OrderInv'
<1>1. PICK n \in 1..Len(buf_rx) :
          /\ received' = received \o SubSeq(buf_rx, 1, n)
          /\ buf_rx' = SubSeq(buf_rx, n + 1, Len(buf_rx))
  BY DEF Receive
<1>2. buf_rx \in Seq(Nat) /\ received \in Seq(Nat) /\ Len(buf_rx) \in Nat
  BY LenProperties DEF TypeOK
<1>3. \A i \in 1..Len(buf_rx) : buf_rx[i] \in Nat
  BY <1>2, LenProperties
<1> DEFINE taken == SubSeq(buf_rx, 1, n)
           kept  == SubSeq(buf_rx, n + 1, Len(buf_rx))
<1>4. taken \in Seq(Nat) /\ kept \in Seq(Nat) /\ taken \o kept = buf_rx
  BY <1>2, <1>3, SubSeqProperties, SplitJoin
<1>5. Seen' = (received \o taken) \o kept
  BY <1>1 DEF Seen
<1> HIDE DEF taken, kept
<1>6. (received \o taken) \o kept = received \o (taken \o kept)
  <2>1. received \in Seq(Nat) /\ taken \in Seq(Nat) /\ kept \in Seq(Nat)
    BY <1>2, <1>4
  <2>. QED  BY ONLY <2>1, ConcatAssociative
<1>7. Seen' = Seen
  BY <1>4, <1>5, <1>6 DEF Seen
<1>. QED  BY <1>7 DEF OrderInv, Receive, hwRx

(* The handler empties the data register: into the buffer, into the tunnel, *)
(* or into the count of what is lost.                                       *)
LEMMA IsrRxneOrder == TypeOK /\ OrderInv /\ IsrRxne => OrderInv'
<1> SUFFICES ASSUME TypeOK, OrderInv, IsrRxne PROVE OrderInv'
  OBVIOUS
<1>0. /\ received \in Seq(Nat) /\ buf_rx \in Seq(Nat) /\ Seen \in Seq(Nat) /\ Len(Seen) \in Nat
      /\ arrived \in Nat /\ lost \in Nat /\ tunnelled \in Seq(Nat) /\ Len(tunnelled) \in Nat
      /\ stats \in [{"rx_received", "rx_overrun", "tx_transmited"} -> Nat]
      /\ received' = received /\ arrived' = arrived
  BY ConcatProperties, LenProperties DEF TypeOK, Seen, IsrRxne
<1>1. CASE ~(cr1.rxne /\ rdr # <<>>)
  BY <1>0, <1>1, KeepsOrder DEF IsrRxne
<1>2. CASE cr1.rxne /\ rdr # <<>>
  <2>1. rdr[1] \in Nat /\ Len(rdr) = 1
    BY <1>2, OneElement DEF TypeOK, Reg
  <2> DEFINE c == rdr[1]
  <2>2. /\ rdr' = <<>> /\ Len(rdr') = 0 /\ c <= arrived /\ c \in Nat
        /\ Increasing(Seen) /\ UpTo(Seen, c - 1)
        /\ stats.rx_received = Len(Seen) /\ arrived = Len(Seen) + Len(tunnelled) + lost + 1
    BY <1>2, <2>1 DEF IsrRxne, OrderInv
  <2>3. \/ /\ tunnelled' = Append(tunnelled, c) /\ UNCHANGED <<buf_rx, stats, lost>>
        \/ PushReceived(c) /\ tunnelled' = tunnelled
    BY <1>2 DEF IsrRxne
  <2>4. UpTo(Seen, arrived)
    BY <1>0, <2>2, UpToMore
  <2> HIDE DEF c
  <2>5. CASE tunnelled' = Append(tunnelled, c) /\ UNCHANGED <<buf_rx, stats, lost>>
    <3>1. Len(tunnelled') = Len(tunnelled) + 1 /\ Seen' = Seen
      BY <1>0, <2>2, <2>5, AppendProperties DEF Seen
    <3>. QED  BY <1>0, <2>2, <2>4, <2>5, <3>1 DEF OrderInv
  <2>6. CASE PushReceived(c) /\ tunnelled' = tunnelled
    <3>1. CASE Len(buf_rx) < RxSize
      <4>1. /\ buf_rx' = Append(buf_rx, c) /\ lost' = lost
            /\ stats'.rx_received = stats.rx_received + 1
        BY <1>0, <2>6, <3>1 DEF PushReceived
      <4>2. Seen' = Append(Seen, c) /\ Len(Seen') = Len(Seen) + 1
        <5>1. received \o Append(buf_rx, c) = Append(received \o buf_rx, c)
          <6>1. received \in Seq(Nat) /\ buf_rx \in Seq(Nat) /\ c \in Nat
            BY <1>0, <2>2
          <6>. QED  BY ONLY <6>1, AppendJoined
        <5>2. Seen' = Append(Seen, c)
          BY <1>0, <4>1, <5>1 DEF Seen
        <5>. QED  BY <1>0, <2>2, <5>2, AppendProperties
      <4>3. Seen' \in Seq(Nat) /\ Increasing(Seen') /\ UpTo(Seen', c)
        BY <1>0, <2>2, <4>2, AppendNewest, AppendProperties
      <4>4. UpTo(Seen', arrived)
        BY <1>0, <2>2, <4>3, UpToMore
      <4>. QED  BY <1>0, <2>2, <2>6, <4>1, <4>2, <4>3, <4>4 DEF OrderInv
    <3>2. CASE ~(Len(buf_rx) < RxSize)
      <4>1. Seen' = Seen /\ lost' = lost + 1 /\ stats'.rx_received = stats.rx_received
        BY <1>0, <2>6, <3>2 DEF PushReceived, Seen
      <4>. QED  BY <1>0, <2>2, <2>4, <2>6, <4>1 DEF OrderInv
    <3>. QED  BY <3>1, <3>2
  <2>. QED  BY <2>3, <2>5, <2>6
<1>. QED  BY <1>1, <1>2

(* The steps the drivers share. *)
LEMMA SharedOrder ==
    ASSUME TypeOK, OrderInv,
           \/ LoadShift \/ ShiftDone \/ CharArrives \/ LineIdle \/ IsrEnter \/ IsrRxne
           \/ \E t \in Task : Receive(t) \/ \E first \in PcStep : Transmit(t, first)
    PROVE  OrderInv'
<1>1. CASE LoadShift \/ ShiftDone \/ LineIdle
  BY <1>1, KeepsOrder DEF LoadShift, ShiftDone, LineIdle, hwRx, ioRx
<1>2. CASE IsrEnter
  <2>1. stats'.rx_received = stats.rx_received
    BY <1>2 DEF IsrEnter, TypeOK
  <2>. QED  BY <1>2, <2>1, KeepsOrder DEF IsrEnter, hwRx, ioRx
<1>3. ASSUME NEW t \in Task, NEW first \in PcStep, Transmit(t, first) PROVE OrderInv'
  BY <1>3, KeepsOrder DEF Transmit, hwRx, ioRx
<1>. QED  BY <1>1, <1>2, <1>3, CharArrivesOrder, IsrRxneOrder, ReceiveOrder

(* LossReported is inductive by itself: a step that loses a character either *)
(* counts it or raises the flag, and the flag is counted when it is cleared. *)
LEMMA KeepsLoss ==
    ASSUME LossReported, lost' = lost, stats'.rx_overrun = stats.rx_overrun,
           flags.ore => flags'.ore
    PROVE  LossReported'
BY DEF LossReported

LEMMA SharedLoss ==
    ASSUME TypeOK, LossReported,
           \/ LoadShift \/ ShiftDone \/ CharArrives \/ LineIdle \/ IsrEnter \/ IsrRxne
           \/ \E t \in Task : Receive(t) \/ \E first \in PcStep : Transmit(t, first)
    PROVE  LossReported'
<1>0. /\ flags \in FlagsType /\ lost \in Nat /\ stats.rx_overrun \in Nat
      /\ stats \in [{"rx_received", "rx_overrun", "tx_transmited"} -> Nat]
  BY DEF TypeOK, FlagsType
<1>1. CASE LoadShift \/ ShiftDone \/ LineIdle
  <2>1. lost' = lost /\ stats' = stats /\ flags'.ore = flags.ore
    BY <1>0, <1>1 DEF LoadShift, ShiftDone, LineIdle, hwRx, FlagsType
  <2>. QED  BY <2>1, KeepsLoss
<1>2. CASE CharArrives
  <2>1. CASE rdr = <<>>
    BY <1>2, <2>1, KeepsLoss DEF CharArrives
  <2>2. CASE rdr # <<>>
    <3>1. flags'.ore
      BY <1>0, <1>2, <2>2 DEF CharArrives, FlagsType
    <3>. QED  BY <3>1 DEF LossReported
  <2>. QED  BY <2>1, <2>2
<1>3. CASE IsrEnter
  <2>1. CASE flags.ore
    <3>1. stats' = [stats EXCEPT !.rx_overrun = stats.rx_overrun + 1]
      BY <1>3, <2>1 DEF IsrEnter
    <3>2. stats'.rx_overrun > 0
      BY <1>0, <3>1
    <3>. QED  BY <3>2 DEF LossReported
  <2>2. CASE ~flags.ore
    BY <1>3, <2>2, KeepsLoss DEF IsrEnter, hwRx
  <2>. QED  BY <2>1, <2>2
<1>4. CASE IsrRxne
  <2>1. CASE UNCHANGED <<stats, lost>>
    BY <1>4, <2>1, KeepsLoss DEF IsrRxne
  <2>2. CASE PushReceived(rdr[1])
    <3>1. CASE Len(buf_rx) < RxSize
      <4>1. lost' = lost /\ stats'.rx_overrun = stats.rx_overrun
        BY <1>0, <2>2, <3>1 DEF PushReceived
      <4>. QED  BY <1>4, <4>1, KeepsLoss DEF IsrRxne
    <3>2. CASE ~(Len(buf_rx) < RxSize)
      <4>1. stats'.rx_overrun = stats.rx_overrun + 1
        BY <1>0, <2>2, <3>2 DEF PushReceived
      <4>. QED  BY <1>0, <4>1 DEF LossReported
    <3>. QED  BY <3>1, <3>2
  <2>. QED  BY <1>4, <2>1, <2>2 DEF IsrRxne
<1>5. ASSUME NEW t \in Task, Receive(t) \/ \E first \in PcStep : Transmit(t, first)
      PROVE  LossReported'
  BY <1>5, KeepsLoss DEF Receive, Transmit, hwRx
<1>. QED  BY <1>1, <1>2, <1>3, <1>4, <1>5
=============================================================================
