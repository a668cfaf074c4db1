---------------------------- MODULE I2cBus_proofs ----------------------------
(* A call that waits for an interrupt-driven transfer is told the outcome   *)
(* of its own transfer, for any number of tasks.                            *)
EXTENDS I2cBus, TLAPS

(* What a slave has left to send is a sequence of bits.                     *)
LEMMA BitsAreSeq == ASSUME NEW s \in Bits PROVE s \in Seq({0, 1})
  BY BusAssumption DEF Bits

(* Losing one bit leaves a sequence of bits.                                *)
LEMMA FallSeq == ASSUME NEW s \in Seq({0, 1}) PROVE Fall(s) \in Seq({0, 1})
  BY DEF Fall

LEMMA EmptySeq == <<>> \in Seq({0, 1})
  OBVIOUS

(* A caller is a task while a call runs: what TypeOK needs of the task that *)
(* is to be notified.                                                       *)
TypeInv == I2cTypeOK /\ (at # "idle" => me \in Task)

LEMMA TypeInit == I2cInit => TypeInv
  BY BitsAreSeq, 0 \in 0..9 DEF I2cInit, TypeInv, I2cTypeOK

LEMMA TypeStep == TypeInv /\ [I2cNext]_i2cVars => TypeInv'
<1> SUFFICES ASSUME TypeInv, [I2cNext]_i2cVars PROVE TypeInv'
  OBVIOUS
<1> USE BitsAreSeq, EmptySeq DEF TypeInv, I2cTypeOK
<1>0. ASSUME Cut PROVE slave' \in Seq({0, 1})
  BY <1>0 DEF Cut
<1>1. CASE Restart
  BY <1>0, <1>1, 0 \in 0..9 DEF Restart
<1>2. CASE BusInit
  <2>1. inited' \in BOOLEAN /\ hal' \in {"reset", "ready", "busy"}
    BY <1>2 DEF BusInit, Initialise
  <2>2. UNCHANGED <<irq_task, xfer, note, op, me, quick, clocks, at, late, fate, ret, slave>>
    BY <1>2 DEF BusInit, i2cCall
  <2> QED BY <2>1, <2>2
<1>3. CASE BusDeinit
  BY <1>0, <1>3 DEF BusDeinit
<1>4. ASSUME NEW success \in BOOLEAN, Callback(success) PROVE TypeInv'
  <2>1. note' = [note EXCEPT ![irq_task] = IF success \/ @ = "ok" THEN "ok" ELSE "error"]
    BY <1>4 DEF Callback, Notify
  <2>2. note' \in [Task -> {"none", "ok", "error"}]
    BY <2>1
  <2>3. slave' \in Seq({0, 1})
    <3>1. slave' \in {<<>>} \/ slave' \in Bits
      BY <1>4 DEF Callback
    <3> QED BY <3>1
  <2> QED BY <1>4, <2>2, <2>3 DEF Callback, i2cCall
<1>5. ASSUME NEW t \in Task, NEW zero \in BOOLEAN, MemCall(t, zero) PROVE TypeInv'
  BY <1>5 DEF MemCall, Enter, bus
<1>6. ASSUME NEW t \in Task, BlockingCall(t) PROVE TypeInv'
  BY <1>6 DEF BlockingCall, Enter, bus
<1>7. ASSUME NEW t \in Task, RecoverCall(t) PROVE TypeInv'
  BY <1>0, <1>7, 0 \in 0..9 DEF RecoverCall
<1>8. CASE I2cExpire
  BY <1>8 DEF I2cExpire, bus, i2cCall
<1>9. CASE WaitReady
  BY <1>9 DEF WaitReady, Return, i2cCall
<1>10. CASE Arm
  BY <1>10 DEF Arm, Forget, i2cCall
<1>11. CASE Start
  BY <1>11 DEF Start, Return, i2cCall
<1>12. CASE Woken
  BY <1>12 DEF Woken, Return, i2cCall
<1>13. CASE WaitTimeout
  BY <1>13 DEF WaitTimeout, Return, i2cCall
<1>14. CASE TrySuccess \/ TryFailure
  BY <1>14 DEF TrySuccess, TryFailure, Return, i2cCall
<1>15. CASE RecoverClock
  BY <1>15, FallSeq DEF RecoverClock, bus
<1>16. CASE RecoverStop \/ RecoverNoPins
  BY <1>16, FallSeq DEF RecoverStop, RecoverNoPins, Initialise, i2cCall
<1>17. CASE UNCHANGED i2cVars
  BY <1>17 DEF i2cVars, bus, i2cCall
<1> QED BY <1>1, <1>2, <1>3, <1>4, <1>5, <1>6, <1>7, <1>8, <1>9, <1>10, <1>11, <1>12,
           <1>13, <1>14, <1>15, <1>16, <1>17 DEF I2cNext

(* Every variable keeps its type; a recovery sends at most nine clocks.     *)
THEOREM TypeCorrect == I2cSpec => []I2cTypeOK
<1>1. TypeInv => I2cTypeOK
  BY DEF TypeInv
<1> QED BY <1>1, TypeInit, TypeStep, PTL DEF I2cSpec

-----------------------------------------------------------------------------
(* The state the argument needs: the handle is busy exactly while a         *)
(* transfer runs, the task to tell is set before it starts and nobody       *)
(* changes it before it ends.                                               *)
Types ==
    /\ irq_task \in Task \cup {NoTask} /\ note \in [Task -> {"none", "ok", "error"}]
    /\ xfer \in {"none", "mine", "stale"} /\ hal \in {"reset", "ready", "busy"}
    /\ fate \in {"none", "running", "ok", "failed"}

Handle ==
    /\ xfer # "none" => hal = "busy" /\ irq_task \in Task
    /\ ~inited => xfer = "none"

Caller ==
    /\ at # "idle" => me \in Task /\ ret = "none"
    /\ at \in {"arm", "start"} => hal = "ready"
    /\ at \in {"wait_ready", "arm", "start"} => inited
    /\ at = "clock" => op = "recover" /\ ~inited
    /\ at = "start" => irq_task = me /\ note[me] = "none"
    /\ xfer = "mine" <=> at = "wait" /\ fate = "running"
    /\ at = "wait" => irq_task = me /\ fate # "none" /\ xfer # "stale"

NoticeInv == Types /\ Handle /\ Caller /\ WaiterInformed /\ SuccessMeansDone

LEMMA NoticeInit == I2cInit => NoticeInv
  BY BusAssumption DEF I2cInit, NoticeInv, Types, Handle, Caller, WaiterInformed, SuccessMeansDone

(* What the interrupt handler tells, and whom.                              *)
LEMMA CallbackStep ==
    ASSUME NoticeInv, NEW success \in BOOLEAN, Callback(success)
    PROVE  NoticeInv'
<1> DEFINE old == note[irq_task]
           new == IF success \/ old = "ok" THEN "ok" ELSE "error"
<1>1. /\ xfer # "none" /\ irq_task \in Task /\ irq_task' = irq_task
      /\ hal' = "ready" /\ xfer' = "none" /\ at' = at /\ me' = me /\ ret' = ret
      /\ op' = op /\ quick' = quick /\ inited' = inited
      /\ fate' = IF xfer = "stale" THEN fate ELSE IF success THEN "ok" ELSE "failed"
      /\ note' = [note EXCEPT ![irq_task] = new]
  BY DEF Callback, Notify, i2cCall
<1>2. /\ irq_task \in Task \cup {NoTask} /\ note \in [Task -> {"none", "ok", "error"}]
      /\ xfer \in {"none", "mine", "stale"} /\ fate \in {"none", "running", "ok", "failed"}
  BY DEF NoticeInv, Types
<1>3. new \in {"ok", "error"}
  OBVIOUS
<1>4. note'[irq_task] = new /\ note' \in [Task -> {"none", "ok", "error"}]
  <2> HIDE DEF new
  <2> QED BY <1>1, <1>2, <1>3
<1>5. hal = "busy"
  BY <1>1 DEF NoticeInv, Handle
<1>6. Types'
  BY <1>1, <1>2, <1>4 DEF Types
<1>7. CASE at = "wait"
  <2>1. irq_task = me /\ ret = "none"
    BY <1>7 DEF NoticeInv, Caller
  <2>2. CASE xfer = "mine"
    <3>1. fate = "running" /\ note[me] = "none"
      BY <2>2 DEF NoticeInv, Caller, WaiterInformed
    <3>2. fate' = IF success THEN "ok" ELSE "failed"
      BY <1>1, <2>2
    <3>3. note'[me] = IF success THEN "ok" ELSE "error"
      BY <1>4, <2>1, <3>1
    <3> QED BY <1>1, <1>6, <1>7, <2>1, <3>2, <3>3
            DEF NoticeInv, Handle, Caller, WaiterInformed, SuccessMeansDone
  <2>3. xfer = "mine"
    BY <1>1, <1>2, <1>7 DEF NoticeInv, Caller
  <2> QED BY <2>2, <2>3
<1>8. CASE at # "wait"
  <2>1. xfer = "stale" /\ fate' = fate
    BY <1>1, <1>2, <1>8 DEF NoticeInv, Caller
  <2>2. at \notin {"arm", "start"}
    BY <1>5 DEF NoticeInv, Caller
  <2> QED BY <1>1, <1>6, <1>8, <2>1, <2>2
          DEF NoticeInv, Handle, Caller, WaiterInformed, SuccessMeansDone
<1> QED BY <1>7, <1>8

(* A call of one of the three kinds begins.                                 *)
LEMMA EnterStep ==
    ASSUME NoticeInv, NEW t \in Task, NEW what \in {"mem", "blocking"},
           NEW first \in {"wait_ready", "try"}, Enter(t, what, first)
    PROVE  NoticeInv'
<1>1. /\ at = "idle" /\ me' = t /\ at' = first /\ fate' = "none" /\ ret' = "none"
      /\ irq_task' = irq_task /\ hal' = hal /\ xfer' = xfer /\ note' = note
      /\ inited /\ inited' = inited
  BY DEF Enter, bus
<1>2. xfer # "mine"
  BY <1>1 DEF NoticeInv, Caller
<1>3. at' \notin {"wait", "arm", "start", "clock"}
  BY <1>1
<1>4. Types' /\ Handle'
  BY <1>1 DEF NoticeInv, Types, Handle
<1>5. Caller'
  BY <1>1, <1>2, <1>3 DEF Caller
<1>6. WaiterInformed' /\ SuccessMeansDone'
  BY <1>1, <1>3 DEF WaiterInformed, SuccessMeansDone
<1> QED BY <1>4, <1>5, <1>6 DEF NoticeInv

LEMMA NoticeStep == NoticeInv /\ [I2cNext]_i2cVars => NoticeInv'
<1> SUFFICES ASSUME NoticeInv, [I2cNext]_i2cVars PROVE NoticeInv'
  OBVIOUS
<1> USE DEF NoticeInv, Types, Handle, Caller, WaiterInformed, SuccessMeansDone
<1>1. CASE Restart
  BY <1>1 DEF Restart
<1>2. CASE BusInit \/ BusDeinit
  BY <1>2 DEF BusInit, Initialise, BusDeinit, i2cCall
<1>3. ASSUME NEW success \in BOOLEAN, Callback(success) PROVE NoticeInv'
  BY <1>3, CallbackStep
<1>4. ASSUME NEW t \in Task, NEW zero \in BOOLEAN, MemCall(t, zero) PROVE NoticeInv'
  BY <1>4, EnterStep DEF MemCall
<1>5. ASSUME NEW t \in Task, BlockingCall(t) PROVE NoticeInv'
  BY <1>5, EnterStep DEF BlockingCall
<1>6. ASSUME NEW t \in Task, RecoverCall(t) PROVE NoticeInv'
  BY <1>6 DEF RecoverCall
<1>7. CASE I2cExpire
  BY <1>7 DEF I2cExpire, bus, i2cCall
<1>8. CASE WaitReady
  BY <1>8 DEF WaitReady, Return, i2cCall
<1>9. CASE Arm
  <2>1. /\ at = "arm" /\ at' = "start" /\ irq_task' = me /\ hal' = hal /\ xfer' = xfer
        /\ fate' = fate /\ ret' = ret /\ me' = me /\ op' = op /\ quick' = quick
        /\ note' = [note EXCEPT ![me] = "none"] /\ inited' = inited
    BY <1>9 DEF Arm, Forget, i2cCall
  <2>2. me \in Task /\ ret = "none" /\ hal = "ready" /\ note \in [Task -> {"none", "ok", "error"}]
    BY <2>1
  <2>3. note'[me] = "none" /\ note' \in [Task -> {"none", "ok", "error"}]
    BY <2>1, <2>2
  <2> QED BY <2>1, <2>2, <2>3
<1>10. CASE Start
  <2>1. /\ at = "start" /\ me' = me /\ irq_task' = irq_task /\ note' = note
        /\ quick' = quick /\ op' = op /\ inited' = inited
    BY <1>10 DEF Start, i2cCall
  <2>2. /\ hal = "ready" /\ irq_task = me /\ note[me] = "none" /\ me \in Task
        /\ xfer = "none" /\ ret = "none" /\ inited
    BY <2>1
  <2>3. CASE /\ hal' = "busy" /\ fate' = "running"
             /\ IF quick THEN at' = "idle" /\ ret' = "true" /\ xfer' = "stale"
                         ELSE at' = "wait" /\ xfer' = "mine" /\ UNCHANGED ret
    BY <2>1, <2>2, <2>3
  <2>4. CASE Return("false") /\ UNCHANGED <<hal, fate, slave, late>>
    BY <2>1, <2>2, <2>4 DEF Return
  <2> QED BY <1>10, <2>3, <2>4 DEF Start
<1>11. CASE Woken
  <2>1. /\ at = "wait" /\ note[me] # "none" /\ at' = "idle"
        /\ ret' = (IF note[me] = "ok" THEN "true" ELSE "false")
        /\ xfer' = IF xfer = "mine" THEN "stale" ELSE xfer
        /\ note' = [note EXCEPT ![me] = "none"]
        /\ irq_task' = irq_task /\ hal' = hal /\ fate' = fate /\ me' = me /\ op' = op
        /\ quick' = quick /\ inited' = inited
    BY <1>11 DEF Woken, Return, i2cCall
  <2>2. note' \in [Task -> {"none", "ok", "error"}]
    BY <2>1
  <2> QED BY <2>1, <2>2
<1>12. CASE WaitTimeout
  BY <1>12 DEF WaitTimeout, Return, i2cCall
<1>13. CASE TrySuccess \/ TryFailure
  BY <1>13 DEF TrySuccess, TryFailure, Return, i2cCall
<1>14. CASE RecoverClock
  BY <1>14 DEF RecoverClock, bus
<1>15. CASE RecoverStop \/ RecoverNoPins
  BY <1>15 DEF RecoverStop, RecoverNoPins, Initialise, i2cCall
<1>16. CASE UNCHANGED i2cVars
  BY <1>16 DEF i2cVars, bus, i2cCall
<1> QED BY <1>1, <1>2, <1>3, <1>4, <1>5, <1>6, <1>7, <1>8, <1>9, <1>10, <1>11, <1>12,
           <1>13, <1>14, <1>15, <1>16 DEF I2cNext

LEMMA NoticeInvariant == I2cSpec => []NoticeInv
  BY NoticeInit, NoticeStep, PTL DEF I2cSpec

(* uni_hal_i2c_mem_read and uni_hal_i2c_mem_write return true only for a    *)
(* transfer of their own that has ended well, however many transfers of     *)
(* earlier calls ended after their timeouts.                                *)
THEOREM SuccessIsOwn == I2cSpec => []SuccessMeansDone
<1>1. NoticeInv => SuccessMeansDone
  BY DEF NoticeInv
<1> QED BY <1>1, NoticeInvariant, PTL

(* The notification a waiting task finds is the outcome of its transfer.    *)
THEOREM NoticeIsOwn == I2cSpec => []WaiterInformed
<1>1. NoticeInv => WaiterInformed
  BY DEF NoticeInv
<1> QED BY <1>1, NoticeInvariant, PTL

-----------------------------------------------------------------------------
(* Recovery. From its call until the next one the peripheral has no         *)
(* transfer, so nothing puts the slave back into one behind its back; the   *)
(* STOP condition is read back before the call answers.                     *)
RecoverInv ==
    /\ at = "clock" => op = "recover" /\ ret = "none"
    /\ op = "recover" => /\ xfer = "none" /\ at \in {"idle", "clock"}
                         /\ ret = "true" => slave = <<>> /\ inited

LEMMA RecoverInit == I2cInit => RecoverInv
  BY DEF I2cInit, RecoverInv

LEMMA RecoverStep == RecoverInv /\ [I2cNext]_i2cVars => RecoverInv'
<1> SUFFICES ASSUME RecoverInv, [I2cNext]_i2cVars PROVE RecoverInv'
  OBVIOUS
<1> USE DEF RecoverInv
<1>1. CASE Restart
  BY <1>1 DEF Restart
<1>2. CASE BusInit
  BY <1>2 DEF BusInit, i2cCall
<1>3. CASE BusDeinit
  BY <1>3 DEF BusDeinit
<1>4. ASSUME NEW success \in BOOLEAN, Callback(success) PROVE RecoverInv'
  BY <1>4 DEF Callback, i2cCall
<1>5. ASSUME NEW t \in Task,
             (\E zero \in BOOLEAN : MemCall(t, zero)) \/ BlockingCall(t)
      PROVE  RecoverInv'
  BY <1>5 DEF MemCall, BlockingCall, Enter
<1>6. ASSUME NEW t \in Task, RecoverCall(t) PROVE RecoverInv'
  BY <1>6 DEF RecoverCall
<1>7. CASE I2cExpire \/ WaitReady \/ Arm \/ Start \/ Woken \/ WaitTimeout
  BY <1>7 DEF I2cExpire, WaitReady, Arm, Start, Woken, WaitTimeout, Return, bus, i2cCall
<1>8. CASE TrySuccess \/ TryFailure
  BY <1>8 DEF TrySuccess, TryFailure, Return, i2cCall
<1>9. CASE RecoverClock
  BY <1>9 DEF RecoverClock, bus
\* The slave either still pulls SDA low, which is read back, or has seen the
\* STOP and sends no more.
<1>10. CASE RecoverStop
  <2>1. /\ slave' = IF Held(Fall(slave)) THEN Fall(slave) ELSE <<>>
        /\ ret' = IF ~Held(slave') /\ inited' THEN "true" ELSE "false"
    BY <1>10 DEF RecoverStop, SdaHigh
  <2>2. ret' = "true" => slave' = <<>> /\ inited'
    BY <2>1
  <2> QED BY <1>10, <2>2 DEF RecoverStop, i2cCall
<1>11. CASE RecoverNoPins
  BY <1>11 DEF RecoverNoPins, i2cCall
<1>12. CASE UNCHANGED i2cVars
  BY <1>12 DEF i2cVars, bus, i2cCall
<1> QED BY <1>1, <1>2, <1>3, <1>4, <1>5, <1>6, <1>7, <1>8, <1>9, <1>10, <1>11, <1>12 DEF I2cNext

(* uni_hal_i2c_recover returns true only when the slave has let go for      *)
(* good and the driver is initialised again, whatever the slave was doing   *)
(* when the MCU restarted and however often the bus was cut before.         *)
THEOREM RecoveryIsTold == I2cSpec => []RecoverTells
<1>1. RecoverInv => RecoverTells
  BY DEF RecoverInv, RecoverTells
<1> QED BY <1>1, RecoverInit, RecoverStep, PTL DEF I2cSpec
=============================================================================
