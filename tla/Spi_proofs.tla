----------------------------- MODULE Spi_proofs -----------------------------
(***************************************************************************)
(* Proofs about Spi.  A transfer that is waiting for its end owns the      *)
(* peripheral, the interrupt, the requests and the streams (PhaseOK,       *)
(* StreamsOK); while it does, the bytes it has received, the bytes in the  *)
(* FIFO and the bytes still to come add up to its length, unless one was   *)
(* lost (CountOK).  So when the interrupt sees the end of the transfer, no *)
(* overrun and a stream with nothing to move, the buffer is full (ToldOK). *)
(***************************************************************************)
EXTENDS Spi, TLAPS

Blk == pc \in {"poll", "sent", "quiet", "late", "eot", "end"}

PhaseOK ==
    /\ Waiting => /\ on /\ nss /\ in_process /\ ~Blk /\ isr = "idle"
                  /\ pc \in {"idle", "abort"} => ie
    /\ ~Waiting => ~ie /\ req = {}
    /\ ~Waiting /\ ~Blk => /\ ~on /\ flags = {} /\ ~nss /\ ~in_process
                           /\ txf = 0 /\ rxf = 0
    /\ Blk => isr = "idle" /\ in_process = transmit /\ nss = transmit
    /\ isr = "callback" => ~Waiting /\ pc \in {"idle", "abort"}
    /\ pc \in {"masked", "halted"} => ~ie
    /\ pc = "halted" => req = {}

StreamsOK ==
    /\ ~Waiting => tx = 0 /\ (~tainted => rx = 0)
    /\ Waiting /\ ~last_rx /\ ~tainted => rx = 0
    /\ pc = "halted" => rx = 0 /\ tx = 0
    /\ "rx" \in req => last_rx
    /\ Waiting /\ "EOT" \in flags => left = 0
    /\ Waiting /\ pc # "halted" /\ mode = "master" => tx + txf = left
    /\ mode = "slave" => tx = 0

CountOK ==
    Waiting /\ last_rx /\ ~tainted /\ pc # "halted" =>
        /\ to = n /\ "rx" \in req
        /\ rx + got[n] = last_len
        /\ "OVR" \notin flags => left + got[n] + rxf = last_len

ToldOK ==
    /\ \A t \in Transfers : /\ told[t] # "twice"
                            /\ t < n => told[t] # "none"
                            /\ t > n => told[t] = "none" /\ got[t] = 0
    /\ ~tainted => CleanMeansReceived

Inv == TypeOK /\ PhaseOK /\ StreamsOK /\ CountOK /\ ToldOK

-----------------------------------------------------------------------------

(* Every variable has its type.                                           *)
LEMMA TypeInit == Init => TypeOK
<1> SUFFICES ASSUME Init PROVE TypeOK
  OBVIOUS
<1> USE SpiAssumption DEF Init
<1>1. mode \in Modes /\ restarts \in BOOLEAN
  OBVIOUS
<1>2. /\ left \in 0..MaxLen /\ txf \in 0..Depth /\ rxf \in 0..Depth
    /\ rx \in 0..MaxLen /\ tx \in 0..MaxLen /\ to \in 0..MaxTransfers
    /\ idx_tx \in 0..MaxLen /\ idx_rx \in 0..MaxLen
    /\ n \in 0..MaxTransfers /\ len \in 0..MaxLen /\ last_len \in 0..MaxLen
   OBVIOUS
<1>3. got \in [Transfers -> Nat]
   OBVIOUS
<1>4. told \in [Transfers -> {"none", "clean", "overrun", "stopped", "twice"}]
   OBVIOUS
<1>5. flags \subseteq {"EOT", "OVR"} /\ req \subseteq {"rx", "tx"} 
   OBVIOUS
<1> QED BY <1>1, <1>2, <1>3, <1>4, <1>5 DEF TypeOK

(* Starting a transfer keeps the types.                                    *)
LEMMA BeginType ==
  ASSUME NEW dirs \in SUBSET {"rx", "tx"}, NEW l \in 1..MaxLen, TypeOK, Begin(dirs, l),
         isr' \in {"idle", "callback"}
  PROVE  TypeOK'
<1> USE SpiAssumption DEF TypeOK, Begin, SetUp
<1>1. last_rx' \in BOOLEAN /\ tainted' \in BOOLEAN
  <2>1. ("rx" \in dirs) \in BOOLEAN
    <3> HIDE DEF TypeOK, Begin
    <3> QED OBVIOUS
  <2>2. last_rx' = ("rx" \in dirs)
    BY Zenon
  <2>3. (tainted /\ rx > 0) \in BOOLEAN
    OBVIOUS
  <2>4. tainted' = (tainted /\ rx > 0)
    BY Zenon
  <2> QED BY <2>1, <2>2, <2>3, <2>4, Zenon
<1>2. /\ rx' \in 0..MaxLen /\ tx' \in 0..MaxLen /\ to' \in 0..MaxTransfers 
      /\ left' \in 0..MaxLen /\ n' \in 0..MaxTransfers
  OBVIOUS
<1>3. req' \subseteq {"rx", "tx"}
  OBVIOUS
<1>4. UNCHANGED <<config, flags, txf, rxf, pc, block, got, told>>
  OBVIOUS
<1> QED BY <1>1, <1>2, <1>3, <1>4 DEF config, block

(* Every step keeps the types.                                             *)
LEMMA TypeStep == TypeOK /\ [Next]_vars => TypeOK'
<1> SUFFICES ASSUME TypeOK, [Next]_vars PROVE TypeOK'
  OBVIOUS
<1> USE SpiAssumption DEF TypeOK, config, streams, status, block, history, Transfers
<1>1. CASE Clock
  BY <1>1 DEF Clock
<1>2. CASE DmaTx
  BY <1>2 DEF DmaTx
<1>3. CASE DmaRx
  BY <1>3 DEF DmaRx, CanDmaRx
<1>4. CASE IsrComplete
  <2>1. told' \in [Transfers -> {"none", "clean", "overrun", "stopped", "twice"}]
    BY <1>4 DEF IsrComplete, Tell
  <2>2. (tainted \/ (last_rx /\ "OVR" \in flags)) \in BOOLEAN
    <3> HIDE DEF TypeOK
    <3> QED OBVIOUS
  <2>3. tainted' \in BOOLEAN
    BY <1>4, <2>2, Zenon DEF IsrComplete
  <2>4. /\ last_errors' \in {"none", "overrun"} /\ txf' = 0 /\ rxf' = 0 /\ on' = FALSE /\ flags' = {}
    BY <1>4 DEF IsrComplete, Disable, FlagsCleared
  <2>5. 0 \in 0..Depth
    OBVIOUS
  <2>6. txf' \in 0..Depth /\ rxf' \in 0..Depth
    BY <2>4, <2>5
  <2>7. /\ UNCHANGED <<config, left, streams, last_rx, last_len, pc, block, n, got, stray>>
        /\ ie' = FALSE /\ req' = {} /\ in_process' = FALSE /\ nss' = FALSE /\ isr' = "callback"
    BY <1>4 DEF IsrComplete
  <2> QED BY <2>1, <2>3, <2>4, <2>6, <2>7
<1>5. CASE IsrReturn
  BY <1>5 DEF IsrReturn
<1>6. CASE IsrRestart
  <2> PICK dirs \in Directions, l \in 1..MaxLen : Begin(dirs, l)
    BY <1>6 DEF IsrRestart
  <2>1. dirs \in SUBSET {"rx", "tx"}
    BY DEF Directions
  <2> QED BY <1>6, <2>1, BeginType DEF IsrRestart
<1>7. CASE TransceiveAsync
  <2> PICK dirs \in Directions, l \in 1..MaxLen : Begin(dirs, l)
    BY <1>7 DEF TransceiveAsync
  <2>1. dirs \in SUBSET {"rx", "tx"}
    BY DEF Directions
  <2> QED BY <1>7, <2>1, BeginType DEF TransceiveAsync
<1>8. CASE Abort
  BY <1>8 DEF Abort, TaskRuns, IrqPending
<1>9. CASE AbortMask
  BY <1>9 DEF AbortMask, TaskRuns, IrqPending, Mask
<1>10. CASE AbortStreams
  BY <1>10 DEF AbortStreams, TaskRuns, IrqPending, StreamOff
<1>11. CASE AbortEnd
  <2>1. told' \in [Transfers -> {"none", "clean", "overrun", "stopped", "twice"}]
    BY <1>11 DEF AbortEnd
  <2>2. /\ txf' \in 0..Depth /\ rxf' \in 0..Depth /\ flags' = {}
        /\ on' = FALSE /\ nss' = FALSE /\ in_process' = FALSE /\ pc' = "idle"
    BY <1>11 DEF AbortEnd, Disable, FlagsCleared
  <2>3. UNCHANGED <<config, left, ie, req, streams, last_rx, last_len, last_errors, isr,
                    block, n, got, stray, tainted>>
    BY <1>11 DEF AbortEnd
  <2> QED BY <2>1, <2>2, <2>3
<1>12. CASE Blocking
  <2>1. (nss \/ transmit') \in BOOLEAN
    <3> HIDE DEF TypeOK
    <3> QED OBVIOUS
  <2>2. nss' = (nss \/ transmit') /\ transmit' \in BOOLEAN
    BY <1>12, Zenon DEF Blocking
  <2>3. nss' \in BOOLEAN
    BY <2>1, <2>2, Zenon
  <2>4. /\ len' \in 0..MaxLen /\ left' \in 0..MaxLen
        /\ idx_tx' \in 0..MaxLen /\ idx_rx' \in 0..MaxLen
    BY <1>12 DEF Blocking
  <2>5. /\ flags' = {} /\ on' = TRUE /\ expired' = FALSE /\ stalled' = FALSE /\ pc' = "poll"
        /\ in_process' = transmit'
    BY <1>12 DEF Blocking, FlagsCleared
  <2>6. UNCHANGED <<config, ie, req, txf, rxf, streams, last_rx, last_len, last_errors, isr, n,
                    history>>
    BY <1>12 DEF Blocking
  <2> QED BY <2>2, <2>3, <2>4, <2>5, <2>6
<1>13. CASE PollTx
  <2>1. txf' \in 0..Depth /\ rxf' \in 0..Depth
    BY <1>13 DEF PollTx
  <2>2. idx_tx' \in 0..MaxLen /\ idx_rx' \in 0..MaxLen
    BY <1>13 DEF PollTx
  <2>3. expired' \in BOOLEAN /\ pc' \in {"sent", "quiet"}
    BY <1>13 DEF PollTx
  <2> QED BY <1>13, <2>1, <2>2, <2>3 DEF PollTx
<1>14. CASE PollRx
  <2>1. txf' \in 0..Depth /\ rxf' \in 0..Depth
    BY <1>14 DEF PollRx
  <2>2. idx_tx' \in 0..MaxLen /\ idx_rx' \in 0..MaxLen
    BY <1>14 DEF PollRx
  <2>3. expired' \in BOOLEAN /\ pc' \in {"poll", "late"}
    BY <1>14 DEF PollRx
  <2> QED BY <1>14, <2>1, <2>2, <2>3 DEF PollRx
<1>15. CASE Late
  BY <1>15 DEF Late, TaskRuns, IrqPending, GiveUp
<1>16. CASE AllMoved
  BY <1>16 DEF AllMoved, TaskRuns, IrqPending
<1>17. CASE WaitEot
  BY <1>17 DEF WaitEot, TaskRuns, IrqPending, GiveUp
<1>18. CASE BlockingEnd
  <2>1. (nss /\ ~transmit) \in BOOLEAN
    <3> HIDE DEF TypeOK
    <3> QED OBVIOUS
  <2>2. nss' \in BOOLEAN
    BY <1>18, <2>1, Zenon DEF BlockingEnd
  <2>3. /\ txf' \in 0..Depth /\ rxf' \in 0..Depth /\ flags' = {}
        /\ on' = FALSE /\ in_process' = FALSE /\ pc' = "idle"
    BY <1>18 DEF BlockingEnd, Disable, FlagsCleared
  <2>4. UNCHANGED <<config, left, ie, req, streams, last_rx, last_len, last_errors, isr, block,
                    n, history>>
    BY <1>18 DEF BlockingEnd
  <2> QED BY <2>2, <2>3, <2>4
<1>19. CASE Expire
  BY <1>19 DEF Expire
<1>20. CASE UNCHANGED vars
  BY <1>20 DEF vars
<1> QED
  BY <1>1, <1>2, <1>3, <1>4, <1>5, <1>6, <1>7, <1>8, <1>9, <1>10, <1>11, <1>12, <1>13, <1>14, <1>15, <1>16, <1>17, <1>18, <1>19, <1>20
     DEF Next, Handler, AbortStep, BlockingStep

(* The program keeps the types of its state.                              *)
THEOREM TypeCorrect == Spec => []TypeOK
  BY TypeInit, TypeStep, PTL DEF Spec

(* What holds when a transfer starts.                                     *)
LEMMA BeginFacts ==
  ASSUME NEW dirs \in Directions, NEW l \in 1..MaxLen, Begin(dirs, l),
         TypeOK, PhaseOK, StreamsOK, ToldOK, ~Waiting, ~Blk
  PROVE  /\ n' = n + 1 /\ n' \in Transfers /\ told' = told /\ got' = got
         /\ told[n'] = "none" /\ got[n'] = 0 /\ Waiting' /\ n' > 0
         /\ tx = 0 /\ (~tainted' => rx = 0) /\ flags' = {} /\ rxf' = 0 /\ txf' = 0
         /\ last_rx' = ("rx" \in dirs) /\ req' = dirs /\ mode' = mode /\ pc' = pc /\ left' = l /\ last_len' = l
<1> USE DEF Begin, config, block
<1>1. n' = n + 1 /\ n' \in Transfers /\ n' > 0 /\ n' > n /\ told' = told /\ got' = got
  BY SpiAssumption DEF TypeOK, Transfers
<1>2. told[n'] = "none" /\ got[n'] = 0
  BY <1>1 DEF ToldOK
<1>3. Waiting'
  BY <1>1, <1>2 DEF Waiting
<1>4. flags' = {} /\ rxf' = 0 /\ txf' = 0 /\ req' = dirs
  BY DEF PhaseOK
<1>5. tx = 0 /\ (~tainted' => rx = 0)
  BY DEF StreamsOK, TypeOK
<1>6. last_rx' = ("rx" \in dirs)
  BY Zenon
<1>7. mode' = mode /\ pc' = pc /\ left' = l /\ last_len' = l
  OBVIOUS
<1> QED BY <1>1, <1>2, <1>3, <1>4, <1>5, <1>6, <1>7

(* Streams and flags fit the transfer that starts.                         *)
LEMMA BeginStreams ==
  ASSUME NEW dirs \in Directions, NEW l \in 1..MaxLen, Begin(dirs, l),
         TypeOK, PhaseOK, StreamsOK, ToldOK, ~Waiting, ~Blk, pc # "halted"
  PROVE  StreamsOK'
<1>1. /\ Waiting' /\ tx = 0 /\ (~tainted' => rx = 0) /\ flags' = {} /\ txf' = 0
      /\ (last_rx' <=> "rx" \in dirs) /\ req' = dirs /\ mode' = mode /\ pc' = pc /\ left' = l
  BY BeginFacts
<1>2. "rx" \notin dirs => rx' = rx
  BY DEF Begin
<1>3. tx' = IF "tx" \in dirs THEN l ELSE 0
  BY <1>1 DEF Begin, SetUp
<1>4. ("tx" \in dirs) <=> mode = "master"
  BY DEF Directions
<1>5. l \in Nat /\ mode \in {"master", "slave"}
  BY SpiAssumption DEF TypeOK
<1> QED BY <1>1, <1>2, <1>3, <1>4, <1>5 DEF StreamsOK

(* The count is right when a transfer starts.                              *)
LEMMA BeginCount ==
  ASSUME NEW dirs \in Directions, NEW l \in 1..MaxLen, Begin(dirs, l),
         TypeOK, PhaseOK, StreamsOK, ToldOK, ~Waiting, ~Blk
  PROVE  CountOK'
<1>1. /\ (~tainted' => rx = 0) /\ flags' = {} /\ rxf' = 0 /\ got'[n'] = 0
      /\ (last_rx' <=> "rx" \in dirs) /\ req' = dirs /\ left' = l /\ last_len' = l
  BY BeginFacts
<1>2. "rx" \in dirs /\ rx = 0 => rx' = l /\ to' = n'
  BY DEF Begin, SetUp
<1>3. l \in Nat
  BY SpiAssumption
<1> QED BY <1>1, <1>2, <1>3 DEF CountOK

(* A waiting transfer owns the peripheral.                                 *)
LEMMA PhaseStep == TypeOK /\ PhaseOK /\ StreamsOK /\ ToldOK /\ [Next]_vars => PhaseOK'
<1> SUFFICES ASSUME TypeOK /\ PhaseOK /\ StreamsOK /\ ToldOK, [Next]_vars PROVE PhaseOK'
  OBVIOUS
<1> USE SpiAssumption DEF TypeOK, PhaseOK, StreamsOK, Blk, Waiting, ToldOK, config, streams, status, block, history, Transfers
<1>1. CASE Clock
  BY <1>1 DEF Clock
<1>2. CASE DmaTx
  BY <1>2 DEF DmaTx
<1>3. CASE DmaRx
  BY <1>3 DEF DmaRx, CanDmaRx
<1>4. CASE IsrComplete
  BY <1>4 DEF IsrComplete, CanDmaRx, IrqPending, FlagsCleared, Disable, Tell
<1>5. CASE IsrReturn
  BY <1>5 DEF IsrReturn
<1>6. CASE IsrRestart
  <2> PICK dirs \in Directions, l \in 1..MaxLen : Begin(dirs, l)
    BY <1>6 DEF IsrRestart
  <2>1. ~Waiting /\ ~Blk /\ pc \in {"idle", "abort"}
    BY <1>6 DEF IsrRestart
  <2>2. Waiting' /\ flags' = {} /\ pc' = pc
    <3> HIDE DEF TypeOK, PhaseOK, StreamsOK, ToldOK, Waiting, Blk
    <3> QED BY <2>1, BeginFacts
  <2>3. on' /\ nss' /\ in_process' /\ ie' /\ isr' = "idle"
    BY <1>6 DEF IsrRestart, Begin
  <2> QED BY <2>1, <2>2, <2>3 DEF PhaseOK, Blk
<1>7. CASE TransceiveAsync
  BY <1>7 DEF TransceiveAsync, TaskRuns, IrqPending, Directions, Begin, SetUp
<1>8. CASE Abort
  BY <1>8 DEF Abort, TaskRuns, IrqPending
<1>9. CASE AbortMask
  BY <1>9 DEF AbortMask, TaskRuns, IrqPending, Mask
<1>10. CASE AbortStreams
  BY <1>10 DEF AbortStreams, TaskRuns, IrqPending, StreamOff
<1>11. CASE AbortEnd
  BY <1>11 DEF AbortEnd, TaskRuns, IrqPending, Disable, FlagsCleared
<1>12. CASE Blocking
  BY <1>12 DEF Blocking, TaskRuns, IrqPending, FlagsCleared
<1>13. CASE PollTx
  BY <1>13 DEF PollTx, TaskRuns, IrqPending
<1>14. CASE PollRx
  BY <1>14 DEF PollRx, TaskRuns, IrqPending
<1>15. CASE Late
  BY <1>15 DEF Late, TaskRuns, IrqPending, GiveUp
<1>16. CASE AllMoved
  BY <1>16 DEF AllMoved, TaskRuns, IrqPending
<1>17. CASE WaitEot
  BY <1>17 DEF WaitEot, TaskRuns, IrqPending, GiveUp
<1>18. CASE BlockingEnd
  BY <1>18 DEF BlockingEnd, TaskRuns, IrqPending, Disable, FlagsCleared
<1>19. CASE Expire
  BY <1>19 DEF Expire
<1>20. CASE UNCHANGED vars
  BY <1>20 DEF vars
<1> QED
  BY <1>1, <1>2, <1>3, <1>4, <1>5, <1>6, <1>7, <1>8, <1>9, <1>10, <1>11, <1>12, <1>13, <1>14, <1>15, <1>16, <1>17, <1>18, <1>19, <1>20
     DEF Next, Handler, AbortStep, BlockingStep

(* Streams and flags follow the transfer.                                  *)
LEMMA StreamsStep == TypeOK /\ PhaseOK /\ StreamsOK /\ CountOK /\ ToldOK /\ [Next]_vars => StreamsOK'
<1> SUFFICES ASSUME TypeOK /\ PhaseOK /\ StreamsOK /\ CountOK /\ ToldOK, [Next]_vars PROVE StreamsOK'
  OBVIOUS
<1> USE SpiAssumption DEF TypeOK, PhaseOK, StreamsOK, Blk, Waiting, ToldOK, CountOK, config, streams, status, block, history, Transfers
<1>1. CASE Clock
  BY <1>1 DEF Clock
<1>2. CASE DmaTx
  BY <1>2 DEF DmaTx
<1>3. CASE DmaRx
  BY <1>3 DEF DmaRx, CanDmaRx
<1>4. CASE IsrComplete
  BY <1>4 DEF IsrComplete, CanDmaRx, IrqPending, FlagsCleared, Disable, Tell
<1>5. CASE IsrReturn
  BY <1>5 DEF IsrReturn
<1>6. CASE IsrRestart
  <2> PICK dirs \in Directions, l \in 1..MaxLen : Begin(dirs, l)
    BY <1>6 DEF IsrRestart
  <2>1. ~Waiting /\ ~Blk /\ pc # "halted"
    BY <1>6 DEF IsrRestart
  <2> HIDE DEF StreamsOK, StreamsOK, PhaseOK, ToldOK, TypeOK, Waiting, Blk
  <2> QED BY <2>1, BeginStreams
<1>7. CASE TransceiveAsync
  <2> PICK dirs \in Directions, l \in 1..MaxLen : Begin(dirs, l)
    BY <1>7 DEF TransceiveAsync
  <2>1. ~Waiting /\ ~Blk /\ pc # "halted"
    BY <1>7 DEF TransceiveAsync
  <2> HIDE DEF StreamsOK, StreamsOK, PhaseOK, ToldOK, TypeOK, Waiting, Blk
  <2> QED BY <2>1, BeginStreams
<1>8. CASE Abort
  BY <1>8 DEF Abort, TaskRuns, IrqPending
<1>9. CASE AbortMask
  BY <1>9 DEF AbortMask, TaskRuns, IrqPending, Mask
<1>10. CASE AbortStreams
  BY <1>10 DEF AbortStreams, TaskRuns, IrqPending, StreamOff
<1>11. CASE AbortEnd
  BY <1>11 DEF AbortEnd, TaskRuns, IrqPending, Disable, FlagsCleared
<1>12. CASE Blocking
  BY <1>12 DEF Blocking, TaskRuns, IrqPending, FlagsCleared
<1>13. CASE PollTx
  BY <1>13 DEF PollTx, TaskRuns, IrqPending
<1>14. CASE PollRx
  BY <1>14 DEF PollRx, TaskRuns, IrqPending
<1>15. CASE Late
  BY <1>15 DEF Late, TaskRuns, IrqPending, GiveUp
<1>16. CASE AllMoved
  BY <1>16 DEF AllMoved, TaskRuns, IrqPending
<1>17. CASE WaitEot
  BY <1>17 DEF WaitEot, TaskRuns, IrqPending, GiveUp
<1>18. CASE BlockingEnd
  BY <1>18 DEF BlockingEnd, TaskRuns, IrqPending, Disable, FlagsCleared
<1>19. CASE Expire
  BY <1>19 DEF Expire
<1>20. CASE UNCHANGED vars
  BY <1>20 DEF vars
<1> QED
  BY <1>1, <1>2, <1>3, <1>4, <1>5, <1>6, <1>7, <1>8, <1>9, <1>10, <1>11, <1>12, <1>13, <1>14, <1>15, <1>16, <1>17, <1>18, <1>19, <1>20
     DEF Next, Handler, AbortStep, BlockingStep

(* No byte is lost unnoticed.                                              *)
LEMMA CountStep == TypeOK /\ PhaseOK /\ StreamsOK /\ CountOK /\ ToldOK /\ [Next]_vars => CountOK'
<1> SUFFICES ASSUME TypeOK /\ PhaseOK /\ StreamsOK /\ CountOK /\ ToldOK, [Next]_vars PROVE CountOK'
  OBVIOUS
<1> USE SpiAssumption DEF TypeOK, PhaseOK, StreamsOK, Blk, Waiting, CountOK, ToldOK, config, streams, status, block, history, Transfers
<1>1. CASE Clock
  BY <1>1 DEF Clock
<1>2. CASE DmaTx
  BY <1>2 DEF DmaTx
<1>3. CASE DmaRx
  <2>1. n \in Transfers /\ n' = n /\ last_len' = last_len /\ last_rx' = last_rx
        /\ tainted' = tainted /\ pc' = pc /\ told' = told /\ to' = to /\ left' = left
        /\ req' = req /\ flags' = flags
    BY <1>3 DEF DmaRx, CanDmaRx
  <2>2. to = n => got'[n] = got[n] + 1
    BY <1>3, <2>1 DEF DmaRx
  <2>3. rx' = rx - 1 /\ rxf' = rxf - 1
    BY <1>3 DEF DmaRx
  <2>4. got[n] \in Nat /\ rx \in Nat /\ rxf \in Nat /\ left \in Nat
    BY <2>1
  <2>5. ASSUME Waiting, last_rx, ~tainted, pc # "halted"
        PROVE  /\ to' = n' /\ "rx" \in req' /\ rx' + got'[n'] = last_len'
               /\ "OVR" \notin flags' => left' + got'[n'] + rxf' = last_len'
    <3>1. /\ to = n /\ "rx" \in req /\ rx + got[n] = last_len
          /\ "OVR" \notin flags => left + got[n] + rxf = last_len
      BY <2>5
    <3>2. got'[n] = got[n] + 1
      BY <3>1, <2>2
    <3>3. got'[n'] = got[n] + 1
      BY <3>2, <2>1
    <3>4. rx' + got'[n'] = last_len'
      BY <3>1, <3>3, <2>1, <2>3, <2>4
    <3>5. "OVR" \notin flags' => left' + got'[n'] + rxf' = last_len'
      <4>1. left + got[n] + rxf = last_len =>
              left' + got'[n'] + rxf' = last_len'
        <5>1. left' = left /\ rxf' = rxf - 1 /\ last_len' = last_len
          BY <2>1, <2>3
        <5> HIDE DEF TypeOK, CountOK, PhaseOK, StreamsOK, ToldOK, Waiting
        <5> QED BY <5>1, <3>3, <2>4
      <4> QED BY <4>1, <3>1, <2>1
    <3> QED BY <3>1, <3>4, <3>5, <2>1
  <2>6. Waiting' = Waiting
    BY <2>1
  <2> HIDE DEF TypeOK, PhaseOK, StreamsOK, ToldOK, Waiting
  <2> QED BY <2>1, <2>5, <2>6
<1>4. CASE IsrComplete
  BY <1>4 DEF IsrComplete, CanDmaRx, IrqPending, FlagsCleared, Disable, Tell
<1>5. CASE IsrReturn
  BY <1>5 DEF IsrReturn
<1>6. CASE IsrRestart
  <2> PICK dirs \in Directions, l \in 1..MaxLen : Begin(dirs, l)
    BY <1>6 DEF IsrRestart
  <2>1. ~Waiting /\ ~Blk /\ pc # "halted"
    BY <1>6 DEF IsrRestart
  <2> HIDE DEF CountOK, StreamsOK, PhaseOK, ToldOK, TypeOK, Waiting, Blk
  <2> QED BY <2>1, BeginCount
<1>7. CASE TransceiveAsync
  <2> PICK dirs \in Directions, l \in 1..MaxLen : Begin(dirs, l)
    BY <1>7 DEF TransceiveAsync
  <2>1. ~Waiting /\ ~Blk /\ pc # "halted"
    BY <1>7 DEF TransceiveAsync
  <2> HIDE DEF CountOK, StreamsOK, PhaseOK, ToldOK, TypeOK, Waiting, Blk
  <2> QED BY <2>1, BeginCount
<1>8. CASE Abort
  BY <1>8 DEF Abort, TaskRuns, IrqPending
<1>9. CASE AbortMask
  BY <1>9 DEF AbortMask, TaskRuns, IrqPending, Mask
<1>10. CASE AbortStreams
  BY <1>10 DEF AbortStreams, TaskRuns, IrqPending, StreamOff
<1>11. CASE AbortEnd
  BY <1>11 DEF AbortEnd, TaskRuns, IrqPending, Disable, FlagsCleared
<1>12. CASE Blocking
  BY <1>12 DEF Blocking, TaskRuns, IrqPending, FlagsCleared
<1>13. CASE PollTx
  BY <1>13 DEF PollTx, TaskRuns, IrqPending
<1>14. CASE PollRx
  BY <1>14 DEF PollRx, TaskRuns, IrqPending
<1>15. CASE Late
  BY <1>15 DEF Late, TaskRuns, IrqPending, GiveUp
<1>16. CASE AllMoved
  BY <1>16 DEF AllMoved, TaskRuns, IrqPending
<1>17. CASE WaitEot
  BY <1>17 DEF WaitEot, TaskRuns, IrqPending, GiveUp
<1>18. CASE BlockingEnd
  BY <1>18 DEF BlockingEnd, TaskRuns, IrqPending, Disable, FlagsCleared
<1>19. CASE Expire
  BY <1>19 DEF Expire
<1>20. CASE UNCHANGED vars
  BY <1>20 DEF vars
<1> QED
  BY <1>1, <1>2, <1>3, <1>4, <1>5, <1>6, <1>7, <1>8, <1>9, <1>10, <1>11, <1>12, <1>13, <1>14, <1>15, <1>16, <1>17, <1>18, <1>19, <1>20
     DEF Next, Handler, AbortStep, BlockingStep

(* A transfer is told once, and told the truth.                            *)
LEMMA ToldStep == TypeOK /\ PhaseOK /\ StreamsOK /\ CountOK /\ ToldOK /\ [Next]_vars => ToldOK'
<1> SUFFICES ASSUME TypeOK /\ PhaseOK /\ StreamsOK /\ CountOK /\ ToldOK, [Next]_vars PROVE ToldOK'
  OBVIOUS
<1> USE SpiAssumption DEF TypeOK, PhaseOK, StreamsOK, Blk, Waiting, CountOK, ToldOK, CleanMeansReceived, config, streams, status, block, history, Transfers
<1>1. CASE Clock
  BY <1>1 DEF Clock
<1>2. CASE DmaTx
  BY <1>2 DEF DmaTx
<1>3. CASE DmaRx
  <2>1. Waiting /\ last_rx /\ n \in Transfers /\ told[n] = "none"
    BY <1>3 DEF DmaRx, CanDmaRx
  <2>2. UNCHANGED <<n, told, last_rx, last_len, tainted>>
    BY <1>3 DEF DmaRx
  <2>3. \A t \in Transfers : t > n => got'[t] = got[t]
    BY <1>3 DEF DmaRx
  <2>4. ~tainted => (stray' <=> stray)
    BY <1>3, <2>1 DEF DmaRx, CanDmaRx
  <2> QED BY <2>1, <2>2, <2>3, <2>4
<1>4. CASE IsrComplete
  BY <1>4 DEF IsrComplete, CanDmaRx, IrqPending, FlagsCleared, Disable, Tell
<1>5. CASE IsrReturn
  BY <1>5 DEF IsrReturn
<1>6. CASE IsrRestart
  BY <1>6 DEF IsrRestart, Directions, Begin, SetUp
<1>7. CASE TransceiveAsync
  BY <1>7 DEF TransceiveAsync, TaskRuns, IrqPending, Directions, Begin, SetUp
<1>8. CASE Abort
  BY <1>8 DEF Abort, TaskRuns, IrqPending
<1>9. CASE AbortMask
  BY <1>9 DEF AbortMask, TaskRuns, IrqPending, Mask
<1>10. CASE AbortStreams
  BY <1>10 DEF AbortStreams, TaskRuns, IrqPending, StreamOff
<1>11. CASE AbortEnd
  BY <1>11 DEF AbortEnd, TaskRuns, IrqPending, Disable, FlagsCleared
<1>12. CASE Blocking
  BY <1>12 DEF Blocking, TaskRuns, IrqPending, FlagsCleared
<1>13. CASE PollTx
  BY <1>13 DEF PollTx, TaskRuns, IrqPending
<1>14. CASE PollRx
  BY <1>14 DEF PollRx, TaskRuns, IrqPending
<1>15. CASE Late
  BY <1>15 DEF Late, TaskRuns, IrqPending, GiveUp
<1>16. CASE AllMoved
  BY <1>16 DEF AllMoved, TaskRuns, IrqPending
<1>17. CASE WaitEot
  BY <1>17 DEF WaitEot, TaskRuns, IrqPending, GiveUp
<1>18. CASE BlockingEnd
  BY <1>18 DEF BlockingEnd, TaskRuns, IrqPending, Disable, FlagsCleared
<1>19. CASE Expire
  BY <1>19 DEF Expire
<1>20. CASE UNCHANGED vars
  BY <1>20 DEF vars
<1> QED
  BY <1>1, <1>2, <1>3, <1>4, <1>5, <1>6, <1>7, <1>8, <1>9, <1>10, <1>11, <1>12, <1>13, <1>14, <1>15, <1>16, <1>17, <1>18, <1>19, <1>20
     DEF Next, Handler, AbortStep, BlockingStep

(* Initially nothing is transferred.                                       *)
LEMMA InvInit == Init => Inv
  BY TypeInit, SpiAssumption
  DEF Init, Inv, PhaseOK, StreamsOK, CountOK, ToldOK, CleanMeansReceived, Waiting, Blk, Transfers

(* Ownership and the count of bytes stay in order.                         *)
THEOREM Invariance == Spec => []Inv
<1>1. Inv /\ [Next]_vars => Inv'
  BY TypeStep, PhaseStep, StreamsStep, CountStep, ToldStep DEF Inv
<1> QED BY InvInit, <1>1, PTL DEF Spec

(* A receiving transfer that ended without an error has filled its own     *)
(* buffer and no other, unless an earlier overrun left its stream enabled. *)
THEOREM CleanIsReceived == Spec => []CleanUntilOverrun
<1>1. Inv => CleanUntilOverrun
  BY DEF Inv, ToldOK, CleanUntilOverrun
<1> QED BY <1>1, Invariance, PTL

(* A transfer is reported or stopped, once.                                *)
THEOREM OneOutcomeEach == Spec => []OneOutcome
<1>1. Inv => OneOutcome
  BY DEF Inv, ToldOK, OneOutcome
<1> QED BY <1>1, Invariance, PTL

(* Nothing of a transfer is left when the driver is not busy.              *)
THEOREM IdlenessIsClean == Spec => []IdleIsClean
<1>1. Inv => IdleIsClean
  BY DEF Inv, TypeOK, PhaseOK, StreamsOK, IdleIsClean, TaskRuns, Waiting, Blk
<1> QED BY <1>1, Invariance, PTL
=============================================================================
