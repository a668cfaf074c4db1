-------------------------------- MODULE CanBus --------------------------------
(***************************************************************************)
(* A CAN node on and off the bus: uni_hal_can_start, uni_hal_can_stop, the *)
(* error state of the node and the interrupt that reports its changes.     *)
(* FDCAN (STM32H7) stops in bus-off and is sent back by the interrupt      *)
(* handler; bxCAN (STM32L4) returns by itself when ABOM is set.            *)
(***************************************************************************)
EXTENDS Integers

CONSTANTS
    MaxCalls,       \* bound: calls of start and stop
    MaxChanges      \* bound: changes of the error state

ASSUME BusAssumption == MaxCalls \in Nat /\ MaxChanges \in Nat

VARIABLES
    bus_h7, auto_bus_off,
    off,            \* INIT (H7) or INAK (L4): the node is off the bus
    request,        \* L4: INRQ, what the node has been asked for
    joined,         \* ACT: the node has seen the idle bus since INIT was cleared
    error_state,    \* of the node
    ir,             \* flags of status changes that wait for the interrupt
    seen,           \* the flags the handler took
    bus_irq,        \* control of the interrupt handler
    bus_pc,         \* control of the calling task
    told,           \* history: the last of PASSIVE, BUS_OFF and RECOVERED reported
    bus_calls, changes

busVars == <<bus_h7, auto_bus_off, off, request, joined, error_state, ir, seen,
             bus_irq, bus_pc, told, bus_calls, changes>>
nodeVars == <<off, request, joined, error_state, ir>>
taskVars == <<bus_pc, bus_calls>>
busFixed    == <<bus_h7, auto_bus_off>>

Bits(s) == CASE s = "active"  -> {}
             [] s = "warning" -> {"EW"}
             [] s = "passive" -> {"EW", "EP"}
             [] s = "busoff"  -> {"EW", "EP", "BO"}

BusInit ==
    /\ bus_h7 \in BOOLEAN /\ auto_bus_off \in BOOLEAN
    /\ off = TRUE /\ request = TRUE /\ joined = FALSE
    /\ error_state = "active" /\ ir = {} /\ seen = {}
    /\ bus_irq = "idle" /\ bus_pc = "idle"
    /\ told = "RECOVERED" /\ bus_calls = 0 /\ changes = 0

BusTaskRuns == bus_irq = "idle" /\ ir = {}

-----------------------------------------------------------------------------
(* The peripheral.                                                          *)

\* Flags rise with every change of a bit on FDCAN, with a bit that gets set
\* on bxCAN.
Changed(s) == IF bus_h7 THEN (Bits(s) \cup Bits(error_state)) \ (Bits(s) \cap Bits(error_state))
              ELSE Bits(s) \ Bits(error_state)

ErrorState(s) ==
    /\ changes < MaxChanges /\ changes' = changes + 1
    /\ s # error_state
    /\ error_state' = s /\ ir' = ir \cup Changed(s)
    /\ UNCHANGED <<request, seen, bus_irq, taskVars, told, busFixed>>

CountersMove ==
    /\ ~off /\ joined /\ error_state # "busoff"
    /\ \E s \in {"active", "warning", "passive"} : ErrorState(s)
    /\ UNCHANGED <<off, joined>>

GoesBusOff ==
    /\ ~off /\ joined /\ error_state = "passive"
    /\ ErrorState("busoff")
    /\ off' = bus_h7 /\ joined' = FALSE

\* The recovery sequence: INIT is clear (FDCAN), or ABOM is set (bxCAN).
Recovers ==
    /\ ~off /\ error_state = "busoff" /\ (bus_h7 \/ auto_bus_off)
    /\ ErrorState("active")
    /\ joined' = TRUE /\ UNCHANGED off

Joins ==
    /\ ~off /\ ~joined /\ error_state # "busoff"
    /\ joined' = TRUE
    /\ UNCHANGED <<off, request, error_state, ir, seen, bus_irq, taskVars, told, changes, busFixed>>

\* bxCAN follows INRQ when it is ready to; leaving bus-off through INRQ
\* resets its counters.
Follows ==
    /\ ~bus_h7 /\ off # request
    /\ off' = request
    /\ error_state' = IF request /\ error_state = "busoff" THEN "active" ELSE error_state
    /\ joined' = (~request /\ joined)
    /\ UNCHANGED <<request, ir, seen, bus_irq, taskVars, told, changes, busFixed>>

-----------------------------------------------------------------------------
(* The interrupt. FDCAN: flags acknowledged first, the state read then.     *)
IrqEnterH7 ==
    /\ bus_h7 /\ bus_irq = "idle" /\ ir # {}
    /\ seen' = ir /\ ir' = {} /\ bus_irq' = "state"
    /\ UNCHANGED <<off, request, joined, error_state, taskVars, told, changes, busFixed>>

Reports(flags, psr) ==
    IF flags \cap psr \cap {"BO"} # {} THEN "BUS_OFF"
    ELSE IF flags \cap psr \cap {"EP"} # {} THEN "PASSIVE"
    ELSE IF flags \cap {"EP", "BO"} # {} /\ psr \cap {"EP", "BO"} = {} THEN "RECOVERED"
    ELSE told

ReportsFlags(flags, psr) ==     \* mutant: the flags are taken for the state
    IF flags \cap {"BO"} # {} THEN "BUS_OFF"
    ELSE IF flags \cap {"EP"} # {} THEN "PASSIVE" ELSE told

Reported(flags, psr) == Reports(flags, psr)

\* Bus-off recovery: the handler clears INIT.
SendsBack(flags, psr) == auto_bus_off /\ "BO" \in flags \cap psr

IrqErrorH7 ==
    /\ bus_irq = "state"
    /\ LET psr == Bits(error_state) IN
       /\ told' = Reported(seen, psr)
       /\ off' = (off /\ ~SendsBack(seen, psr))
    /\ bus_irq' = "idle" /\ seen' = {}
    /\ UNCHANGED <<request, joined, error_state, ir, taskVars, changes, busFixed>>

\* bxCAN: the state is read first, the flag acknowledged then.
IrqReadL4 ==
    /\ ~bus_h7 /\ bus_irq = "idle" /\ ir # {}
    /\ seen' = Bits(error_state) /\ bus_irq' = "clear"
    /\ UNCHANGED <<nodeVars, taskVars, told, changes, busFixed>>

IrqErrorL4 ==
    /\ bus_irq = "clear"
    /\ ir' = {}
    /\ told' = Reported({"EP", "BO"} \cap seen, seen)
    /\ bus_irq' = "idle" /\ seen' = {}
    /\ UNCHANGED <<off, request, joined, error_state, taskVars, changes, busFixed>>

-----------------------------------------------------------------------------
(* uni_hal_can_start: leave the initialisation mode and wait, FDCAN for the *)
(* idle bus too; give up by going back.                                     *)
Call(at) ==
    /\ bus_pc = "idle" /\ BusTaskRuns /\ bus_calls < MaxCalls
    /\ bus_calls' = bus_calls + 1 /\ bus_pc' = at
    /\ request' = (at = "stop")
    /\ UNCHANGED <<joined, error_state, ir, seen, bus_irq, told, changes, busFixed>>

BusStart == Call("start") /\ off' = (off /\ ~bus_h7)

BusReturn ==
    /\ bus_pc' = "idle"
    /\ UNCHANGED <<nodeVars, seen, bus_irq, told, bus_calls, changes, busFixed>>

Started == IF bus_h7 THEN joined ELSE ~off

StartDone ==
    /\ bus_pc = "start" /\ BusTaskRuns /\ Started
    /\ BusReturn

\* _uni_hal_can_mode_init, of the failed start and of uni_hal_can_stop
ModeInit ==
    /\ off' = (off \/ bus_h7)
    /\ joined' = (joined /\ ~bus_h7)

StartFails ==
    /\ bus_pc = "start" /\ BusTaskRuns /\ ~Started
    /\ bus_pc' = "back" /\ request' = TRUE
    /\ ModeInit
    /\ UNCHANGED <<error_state, ir, seen, bus_irq, told, bus_calls, changes, busFixed>>

Stop == Call("stop") /\ off' = (off \/ bus_h7)

WaitOff ==
    /\ bus_pc \in {"back", "stop"} /\ BusTaskRuns /\ off
    /\ BusReturn

WaitOffTimeout ==
    /\ bus_pc \in {"back", "stop"} /\ BusTaskRuns /\ ~off
    /\ BusReturn

BusNext ==
    \/ CountersMove \/ GoesBusOff \/ Recovers \/ Joins \/ Follows
    \/ IrqEnterH7 \/ IrqErrorH7 \/ IrqReadL4 \/ IrqErrorL4
    \/ BusStart \/ StartDone \/ StartFails \/ Stop \/ WaitOff \/ WaitOffTimeout

-----------------------------------------------------------------------------
BusTypeOK ==
    /\ off \in BOOLEAN /\ request \in BOOLEAN /\ joined \in BOOLEAN
    /\ error_state \in {"active", "warning", "passive", "busoff"}
    /\ ir \subseteq {"EW", "EP", "BO"} /\ seen \subseteq {"EW", "EP", "BO"}
    /\ bus_irq \in {"idle", "state", "clear"}
    /\ bus_pc \in {"idle", "start", "back", "stop"}
    /\ told \in {"PASSIVE", "BUS_OFF", "RECOVERED"}

(* uni_hal_can_bus_status_get of FDCAN, where a node in bus-off has INIT    *)
(* set too.                                                                 *)
BusStatus == CASE error_state = "busoff"  -> "BUS_OFF"
               [] error_state # "busoff" /\ off -> "INACTIVE"
               [] error_state = "passive" /\ ~off -> "PASSIVE"
               [] error_state = "warning" /\ ~off -> "WARNING"
               [] error_state = "active"  /\ ~off -> "ACTIVE"

(* What the error callback of the STM32H7 was told last is the state of the *)
(* node, whatever changed while the handler ran: no bus-off and no recovery *)
(* goes unreported, and the status an application polls says the same.      *)
(* (bxCAN reports no recovery, and loses a change that comes between the    *)
(* reading of the state and the acknowledgement.)                           *)
ToldIsState ==
    (bus_h7 /\ bus_irq = "idle" /\ ir = {}) =>
        /\ told = CASE error_state = "busoff" -> "BUS_OFF"
                   [] error_state = "passive" -> "PASSIVE"
                   [] OTHER -> "RECOVERED"
        /\ BusStatus \in (IF told = "RECOVERED" THEN {"INACTIVE", "ACTIVE", "WARNING"}
                          ELSE IF told = "PASSIVE" THEN {"INACTIVE", told} ELSE {told})
=============================================================================
