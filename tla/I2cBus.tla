------------------------------- MODULE I2cBus -------------------------------
(***************************************************************************)
(* The I2C driver of the STM32L4 (i2c/uni_hal_i2c_stm32l4.c) and the bus   *)
(* recovery (i2c/uni_hal_i2c_c.c) on one bus: interrupt-driven memory      *)
(* transfers that a task waits for, blocking transfers, recovery, and      *)
(* restarts of the MCU that cut a transfer short.                          *)
(*                                                                         *)
(* Nothing in the driver locks the bus, so the application lets one task   *)
(* at a time into a call.  A call that timed out leaves its transfer       *)
(* running, though, and the next call, maybe of another task, meets it.    *)
(***************************************************************************)
EXTENDS Integers, Sequences

CONSTANTS
    Task,
    NoTask,
    MaxBits     \* bound: bits a slave has left to send when it is cut short

ASSUME BusAssumption ==
    /\ NoTask \notin Task
    /\ MaxBits \in Nat /\ MaxBits <= 9

VARIABLES
    inited,     \* ctx->state.initialized
    irq_task,   \* ctx->state.irq_task
    hal,        \* state of the HAL handle: "reset", "ready" or "busy"
    xfer,       \* interrupt-driven transfer: "none", "mine" (of the running
                \* call) or "stale" (of a call that has returned)
    note,       \* notification of each task: "none", or pending with value
                \* 1 ("ok") or 0 ("error")
    op,         \* the last call: "none", "mem", "blocking", "recover"
    me,         \* its task
    at,         \* what the call does next, "idle" when it has returned
    quick,      \* its timeout is 0
    late,       \* its timeout is over
    fate,       \* of its transfer: "none", "running", "ok", "failed"
    ret,        \* what it returned: "none", "true", "false"
    slave,      \* bits the addressed slave still wants to shift out
    clocks      \* clocks the running recovery has sent

bus     == <<inited, irq_task, hal, xfer>>
i2cCall == <<op, me, quick, clocks>>
i2cVars == <<bus, note, i2cCall, at, late, fate, ret, slave>>

Bits == UNION {[1..n -> {0, 1}] : n \in 0..MaxBits}

(* The slave pulls SDA low; the next bit follows when SCL falls.           *)
Held(s)   == s # <<>> /\ Head(s) = 0
Fall(s)   == IF s = <<>> THEN s ELSE Tail(s)

I2cInit ==
    /\ inited = FALSE /\ irq_task = NoTask /\ hal = "reset" /\ xfer = "none"
    /\ note = [t \in Task |-> "none"]
    /\ op = "none" /\ me = NoTask /\ at = "idle" /\ quick = FALSE /\ late = FALSE
    /\ fate = "none" /\ ret = "none" /\ slave \in Bits /\ clocks = 0

(* The master disappears: a slave in mid-transfer is left where it was.    *)
Cut == slave' \in (IF xfer # "none" THEN Bits ELSE {slave})

(* A restart of the MCU, at any moment.                                    *)
Restart ==
    /\ inited' = FALSE /\ irq_task' = NoTask /\ hal' = "reset" /\ xfer' = "none"
    /\ note' = [t \in Task |-> "none"]
    /\ op' = "none" /\ me' = NoTask /\ at' = "idle" /\ quick' = FALSE /\ late' = FALSE
    /\ fate' = "none" /\ ret' = "none" /\ clocks' = 0
    /\ Cut

Return(value) ==
    /\ at' = "idle" /\ ret' = value
    /\ xfer' = IF xfer = "mine" THEN "stale" ELSE xfer

\* uni_hal_i2c_init may fail, before or after the handle is ready.
Initialise ==
    \/ inited' = TRUE /\ hal' = "ready"
    \/ inited' = FALSE /\ hal' \in {"reset", "ready"}

BusInit ==
    /\ at = "idle" /\ ~inited /\ Initialise
    /\ UNCHANGED <<irq_task, xfer, note, i2cCall, at, late, fate, ret, slave>>

BusDeinit ==
    /\ at = "idle"
    /\ inited' = FALSE /\ hal' = "reset" /\ xfer' = "none" /\ Cut
    /\ op' = "none" /\ ret' = "none"
    /\ UNCHANGED <<irq_task, note, me, quick, clocks, at, late, fate>>

-----------------------------------------------------------------------------
(* The interrupt handler: a transfer ends, the task in irq_task is told.   *)
(* eSetBits: an error does not take back a value that is still pending.    *)

Notify(success) ==
    note' = [note EXCEPT ![irq_task] = IF success \/ @ = "ok" THEN "ok" ELSE "error"]

Callback(success) ==
    /\ xfer # "none" /\ irq_task \in Task
    /\ success => ~Held(slave)
    /\ hal' = "ready" /\ xfer' = "none"
    /\ fate' = IF xfer = "stale" THEN fate ELSE IF success THEN "ok" ELSE "failed"
    /\ Notify(success)
    /\ slave' \in (IF success THEN {<<>>} ELSE Bits)
    /\ UNCHANGED <<inited, irq_task, i2cCall, at, late, ret>>

-----------------------------------------------------------------------------
(* uni_hal_i2c_mem_read, uni_hal_i2c_mem_write with irq_enable.            *)

Enter(t, what, first) ==
    /\ at = "idle" /\ inited
    /\ op' = what /\ me' = t /\ at' = first /\ late' = FALSE
    /\ fate' = "none" /\ ret' = "none"
    /\ UNCHANGED <<bus, note, slave, clocks>>

MemCall(t, zero) == Enter(t, "mem", "wait_ready") /\ quick' = zero

I2cExpire ==
    /\ at \in {"wait_ready", "wait", "try"} /\ late' = TRUE
    /\ UNCHANGED <<bus, note, i2cCall, at, fate, ret, slave>>

GiveUpUnlimited == FALSE        \* mutant: the wait for the bus has no limit

GiveUp == hal # "ready" /\ late

WaitReady ==
    /\ at = "wait_ready"
    /\ \/ hal = "ready" /\ at' = "arm" /\ UNCHANGED <<ret, xfer>>
       \/ GiveUp /\ Return("false")
    /\ UNCHANGED <<inited, irq_task, hal, note, i2cCall, late, fate, slave>>

ForgetNothing == note' = note   \* mutant: an earlier outcome stays pending

(* Forget the outcome of an earlier transfer.                              *)
Forget == note' = [note EXCEPT ![me] = "none"]

Arm ==
    /\ at = "arm" /\ at' = "start"
    /\ irq_task' = me /\ Forget
    /\ UNCHANGED <<inited, hal, xfer, i2cCall, late, fate, ret, slave>>

(* HAL_I2C_Mem_*_IT, which may refuse.  A START condition calls the slave  *)
(* to order unless it holds SDA.  With a timeout of 0 nobody waits.        *)
Start ==
    /\ at = "start"
    /\ \/ /\ hal = "ready" /\ hal' = "busy" /\ fate' = "running"
          /\ slave' = IF Held(slave) THEN slave ELSE <<>>
          /\ IF quick THEN at' = "idle" /\ ret' = "true" /\ xfer' = "stale"
                      ELSE at' = "wait" /\ xfer' = "mine" /\ UNCHANGED ret
          /\ late' = FALSE     \* the wait for the outcome has a time of its own
       \/ Return("false") /\ UNCHANGED <<hal, fate, slave, late>>
    /\ UNCHANGED <<inited, irq_task, note, i2cCall>>

(* xTaskNotifyWait returns with the notification, or without it in time.   *)
Woken ==
    /\ at = "wait" /\ note[me] # "none"
    /\ Return(IF note[me] = "ok" THEN "true" ELSE "false")
    /\ note' = [note EXCEPT ![me] = "none"]
    /\ UNCHANGED <<inited, irq_task, hal, i2cCall, late, fate, slave>>

WaitTimeout ==
    /\ at = "wait" /\ note[me] = "none" /\ late
    /\ Return("false")
    /\ UNCHANGED <<inited, irq_task, hal, note, i2cCall, late, fate, slave>>

-----------------------------------------------------------------------------
(* The blocking calls: isready, master_receive, master_transmit.  They     *)
(* repeat while the HAL is busy, which an earlier transfer or a stuck bus  *)
(* can cause, and the time allows.                                         *)

BlockingCall(t) == Enter(t, "blocking", "try") /\ quick' = FALSE

TrySuccess ==
    /\ at = "try" /\ hal = "ready" /\ ~Held(slave)
    /\ fate' = "ok" /\ slave' = <<>> /\ Return("true")
    /\ UNCHANGED <<inited, irq_task, hal, note, i2cCall, late>>

TryFailure ==
    /\ at = "try"
    /\ \/ hal = "ready" /\ slave' \in (IF Held(slave) THEN {slave} ELSE Bits)
       \/ hal = "busy" /\ late /\ slave' = slave
    /\ fate' = "failed" /\ Return("false")
    /\ UNCHANGED <<inited, irq_task, hal, note, i2cCall, late>>

-----------------------------------------------------------------------------
(* uni_hal_i2c_recover: the peripheral off the bus, up to nine clocks      *)
(* while SDA is low, a STOP condition, and a new initialisation.           *)

RecoverCall(t) ==
    /\ at = "idle"
    /\ op' = "recover" /\ me' = t /\ quick' = FALSE /\ at' = "clock" /\ clocks' = 0
    /\ fate' = "none" /\ ret' = "none" /\ late' = FALSE
    /\ inited' = FALSE /\ hal' = "reset" /\ xfer' = "none" /\ Cut
    /\ UNCHANGED <<irq_task, note>>

RecoverClock ==
    /\ at = "clock" /\ Held(slave) /\ clocks < 9
    /\ slave' = Fall(slave) /\ clocks' = clocks + 1
    /\ UNCHANGED <<bus, note, op, me, quick, at, late, fate, ret>>

SdaHighUnread(s) == TRUE        \* mutant: the lines are not read back

SdaHigh(s) == ~Held(s)

(* SCL falls, SDA falls, SCL rises, SDA rises: a STOP condition unless the *)
(* slave still pulls SDA low.  Both lines are read, then uni_hal_i2c_init. *)
RecoverStop ==
    /\ at = "clock" /\ ~(Held(slave) /\ clocks < 9)
    /\ slave' = IF Held(Fall(slave)) THEN Fall(slave) ELSE <<>>
    /\ Initialise
    /\ at' = "idle"
    /\ ret' = IF SdaHigh(slave') /\ inited' THEN "true" ELSE "false"
    /\ UNCHANGED <<irq_task, xfer, note, i2cCall, late, fate>>

\* The pins could not be set up as outputs: no clock, no STOP.
RecoverNoPins ==
    /\ at = "clock" /\ clocks = 0
    /\ Initialise /\ at' = "idle" /\ ret' = "false"
    /\ UNCHANGED <<irq_task, xfer, note, i2cCall, late, fate, slave>>

-----------------------------------------------------------------------------

I2cNext ==
    \/ Restart \/ BusInit \/ BusDeinit
    \/ \E success \in BOOLEAN : Callback(success)
    \/ \E t \in Task : \/ \E zero \in BOOLEAN : MemCall(t, zero)
                       \/ BlockingCall(t) \/ RecoverCall(t)
    \/ I2cExpire \/ WaitReady \/ Arm \/ Start \/ Woken \/ WaitTimeout
    \/ TrySuccess \/ TryFailure
    \/ RecoverClock \/ RecoverStop \/ RecoverNoPins

I2cSpec == I2cInit /\ [][I2cNext]_i2cVars

(* A running call is scheduled and its clock runs; transfers need not end. *)
CallStep == WaitReady \/ Arm \/ Start \/ Woken \/ WaitTimeout
            \/ TrySuccess \/ TryFailure \/ RecoverClock \/ RecoverStop \/ RecoverNoPins

I2cFairSpec == I2cSpec /\ WF_i2cVars(CallStep) /\ WF_i2cVars(I2cExpire)

-----------------------------------------------------------------------------

I2cTypeOK ==
    /\ inited \in BOOLEAN /\ irq_task \in Task \cup {NoTask}
    /\ hal \in {"reset", "ready", "busy"} /\ xfer \in {"none", "mine", "stale"}
    /\ note \in [Task -> {"none", "ok", "error"}]
    /\ op \in {"none", "mem", "blocking", "recover"} /\ me \in Task \cup {NoTask}
    /\ at \in {"idle", "wait_ready", "arm", "start", "wait", "try", "clock"}
    /\ quick \in BOOLEAN /\ late \in BOOLEAN
    /\ fate \in {"none", "running", "ok", "failed"} /\ ret \in {"none", "true", "false"}
    /\ slave \in Seq({0, 1}) /\ clocks \in 0..9

(* A transfer that was reported as successful is over and went well: no    *)
(* outcome of an earlier transfer, finished after its timeout, is counted  *)
(* for it.                                                                 *)
SuccessMeansDone ==
    ret = "true" /\ op \in {"mem", "blocking"} /\ ~quick => fate = "ok"

(* A waiting task has a notification exactly when its own transfer is      *)
(* over, and the right one.                                                *)
WaiterInformed ==
    at = "wait" => /\ fate = "running" <=> note[me] = "none"
                   /\ fate = "ok" <=> note[me] = "ok"

(* io/uni_hal_i2c.h on uni_hal_i2c_recover: "@return true when both lines  *)
(* are high afterwards and the interface is initialised again"; the slave  *)
(* has then let go for good.                                               *)
RecoverTells ==
    op = "recover" /\ ret = "true" /\ at = "idle" => slave = <<>> /\ inited

(* Transfers that never end do not keep a call for ever.                   *)
CallReturns == at # "idle" ~> at = "idle"
=============================================================================
