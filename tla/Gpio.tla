--------------------------------- MODULE Gpio ---------------------------------
(***************************************************************************)
(* The GPIO drivers: pins, and the 16 external interrupt lines that pins   *)
(* of the same number share. One task makes the calls, one register or     *)
(* variable at a time; edges and the EXTI handlers come at any moment.     *)
(* A handler serves each latched line of its vector, masked or not.        *)
(***************************************************************************)
EXTENDS Integers, Sequences

CONSTANTS
    PinContexts,    \* uni_hal_gpio_pin_context_t of the application
    ItEdges,        \* edges callbacks are registered for
    MaxGpioCalls,   \* bound: calls
    MaxEdges        \* bound: edges at the pins

PinOf(c) == <<c.gpio_bank, c.gpio_pin>>

\* A pin has one context, and a speed of uni_hal_gpio_speed_e.
ASSUME GpioAssumption ==
    /\ MaxGpioCalls \in Nat /\ MaxEdges \in Nat
    /\ \A c \in PinContexts : c.gpio_speed \in 0..3 /\ c.gpio_init \in BOOLEAN
    /\ \A c, d \in PinContexts : PinOf(c) = PinOf(d) => c = d

VARIABLES
    gpio_inited,    \* contexts that are initialised
    pins,           \* registers of each pin
    high,           \* output latch: pins that are 1
    vddio2,         \* supply of port G (STM32L4)
    fn, cookie,     \* callback and cookie of each context, 0 for NULL
    g_uni_hal_gpio_ctx, \* the context of each line
    syscfg,         \* the clock of SYSCFG, which routes the lines, is on
    routed, trigger,    \* port and edges a line listens to
    it, irqs,       \* lines that are unmasked, vectors that are enabled
    latched,        \* pending bit of each line: the ports whose edges set it
    gpio_pc, gpio_arg,  \* the call under way and what it was given
    exti,           \* lines the handler has still to look at
    calling,        \* it has cleared the first one and calls back next
    ready,          \* history: the complete registration of each line
    unanswered,     \* history: contexts with an edge after that and no callback since
    asked_level,    \* history: levels a pin may have by the last calls
    gpio_calls, edges

pinVars  == <<gpio_inited, pins, high, vddio2, asked_level>>
ctxVars  == <<fn, cookie, g_uni_hal_gpio_ctx>>
lineVars == <<routed, trigger, it, irqs>>
pending  == <<latched, unanswered>>
edgeVars == <<pending, exti, calling>>
gpioCall == <<gpio_pc, gpio_arg, gpio_calls, syscfg>>
gpioVars == <<pinVars, ctxVars, lineVars, edgeVars, gpioCall, ready, edges>>

PortBanks == {"A", "B", "C", "D", "E", "F", "G", "H", "I"}

\* _uni_hal_gpio_bank knows a handle for these banks.
HasBank(c) == c.gpio_bank \in PortBanks
Pins  == {PinOf(c) : c \in {d \in PinContexts : HasBank(d)}}
Lines == {p[2] : p \in Pins}

NoContext == [gpio_bank |-> "NULL"]
NotReady == [ctx |-> NoContext, edge |-> {}]
ResetPin == [mode |-> "ANALOG", output |-> "PUSHPULL", pull |-> "NO", speed |-> "LOW", af |-> 0]

GpioInit ==
    /\ gpio_inited = {} /\ pins = [p \in Pins |-> ResetPin]
    /\ high = {} /\ asked_level = [p \in Pins |-> BOOLEAN] /\ vddio2 = FALSE
    /\ fn = [c \in PinContexts |-> 0] /\ cookie = fn
    /\ g_uni_hal_gpio_ctx = [l \in Lines |-> NoContext]
    /\ ready = [l \in Lines |-> NotReady]
    /\ routed = [l \in Lines |-> "A"] /\ trigger = [l \in Lines |-> {}]
    /\ it = {} /\ irqs = {} /\ latched = trigger
    /\ gpio_pc = "idle" /\ gpio_arg = NotReady
    /\ exti = <<>> /\ calling = FALSE /\ unanswered = {} /\ syscfg \in BOOLEAN
    /\ gpio_calls = 0 /\ edges = 0

-----------------------------------------------------------------------------
(* What a configuration means.                                              *)
ModeOf(type) ==
    CASE type \in {"OUT_OD", "OUT_PP"} -> "OUTPUT"
      [] type = "IN_DIGITAL" -> "INPUT"
      [] type \in {"ALTERNATE_OD", "ALTERNATE_PP"} -> "ALTERNATE"
      [] OTHER -> "ANALOG"

OutputOf(type) == IF type \in {"OUT_OD", "ALTERNATE_OD"} THEN "OPENDRAIN" ELSE "PUSHPULL"

SpeedOf(speed) ==
    CASE speed = 1 -> "MEDIUM" [] speed = 2 -> "HIGH" [] speed = 3 -> "VERY_HIGH"
      [] OTHER -> "LOW"

PullOf(pull) == IF pull \in {"DOWN", "UP"} THEN pull ELSE "NO"

AlternateOf(alternate) == IF alternate \in 0..15 THEN alternate ELSE 0

\* LL_GPIO_Init: speed and output type are of pins that drive.
Registers(c, old) ==
    LET mode == ModeOf(c.gpio_type)
        new  == [old EXCEPT !.mode = mode, !.pull = PullOf(c.gpio_pull)]
        drives == [new EXCEPT !.output = OutputOf(c.gpio_type), !.speed = SpeedOf(c.gpio_speed)]
    IN  CASE mode = "OUTPUT" -> drives
          [] mode = "ALTERNATE" -> [drives EXCEPT !.af = AlternateOf(c.alternate)]
          [] OTHER -> new

\* uni_hal_gpio_pin_speed_get
SpeedGet(c) ==
    IF ~HasBank(c) THEN 0
    ELSE CHOOSE n \in 0..3 : SpeedOf(n) = pins[PinOf(c)].speed

(* The interrupt vector of a line, and the lines of a vector.               *)
Irqn(line) == IF line < 5 THEN line ELSE IF line < 10 THEN 5 ELSE 10

LinesOf(vector) ==
    SelectSeq(CASE vector = 5 -> <<5, 6, 7, 8, 9>>
                [] vector = 10 -> <<10, 11, 12, 13, 14, 15>>
                [] OTHER -> <<vector>>,
              LAMBDA l : l \in Lines)


Driving(p) == pins[p].mode = "OUTPUT"

\* uni_hal_gpio_pin_get of an output, or of a context without a pin
PinGet(c) == HasBank(c) => PinOf(c) \in high

-----------------------------------------------------------------------------
(* One task, preempted by the handlers.                                     *)
GpioTask == exti = <<>>

GpioCall(next, arg) ==
    /\ GpioTask /\ gpio_pc = "idle" /\ gpio_calls < MaxGpioCalls
    /\ gpio_pc' = next /\ gpio_arg' = arg /\ gpio_calls' = gpio_calls + 1
    /\ UNCHANGED <<edgeVars, edges, syscfg>>

GpioAt(here, next) ==
    /\ GpioTask /\ gpio_pc = here /\ gpio_pc' = next
    /\ UNCHANGED <<gpio_arg, gpio_calls, exti, calling, edges, syscfg>>

\* uni_hal_rcc_init and the application switch SYSCFG, also in the middle of a call.
SyscfgClock ==
    /\ GpioTask /\ gpio_calls < MaxGpioCalls /\ gpio_calls' = gpio_calls + 1
    /\ syscfg' = ~syscfg
    /\ UNCHANGED <<pinVars, ctxVars, lineVars, edgeVars, gpio_pc, gpio_arg, ready, edges>>

Ctx  == gpio_arg.ctx
Line == Ctx.gpio_pin

(* uni_hal_gpio_pin_init                                                    *)
PinInitNone(c) ==
    /\ c \notin gpio_inited /\ ~HasBank(c) /\ GpioCall("idle", NotReady)
    /\ gpio_inited' = IF c.gpio_bank = "EMPTY" THEN gpio_inited \cup {c} ELSE gpio_inited
    /\ UNCHANGED <<pins, high, vddio2, asked_level, ctxVars, lineVars, ready>>

PinInit(c) ==
    /\ c \notin gpio_inited /\ HasBank(c)
    /\ GpioCall("latch", [ctx |-> c, edge |-> {}])
    /\ asked_level' = [asked_level EXCEPT ![PinOf(c)] = {c.gpio_init}]
    /\ vddio2' = (vddio2 \/ c.gpio_bank = "G")
    /\ UNCHANGED <<gpio_inited, pins, high, ctxVars, lineVars, ready>>

Level(p, val) == IF val THEN high \cup {p} ELSE high \ {p}

PinLatch ==
    /\ GpioAt("latch", "config") /\ high' = Level(PinOf(Ctx), Ctx.gpio_init)
    /\ UNCHANGED <<gpio_inited, pins, vddio2, asked_level, ctxVars, lineVars, ready, pending>>

PinConfigure ==
    /\ GpioAt("config", "idle")
    /\ pins' = [pins EXCEPT ![PinOf(Ctx)] = Registers(Ctx, @)]
    /\ gpio_inited' = gpio_inited \cup {Ctx}
    /\ UNCHANGED <<high, vddio2, asked_level, ctxVars, lineVars, ready, pending>>

(* uni_hal_gpio_pin_set                                                     *)
PinSet(c, val) ==
    /\ HasBank(c) /\ GpioCall("idle", NotReady)
    /\ high' = Level(PinOf(c), val) /\ asked_level' = [asked_level EXCEPT ![PinOf(c)] = {val}]
    /\ UNCHANGED <<gpio_inited, pins, vddio2, ctxVars, lineVars, ready>>

(* uni_hal_gpio_pin_deinit                                                  *)
OwnsAlways(c) == TRUE       \* mutant: the line is masked whoever has it

OwnsLine(c) == g_uni_hal_gpio_ctx[c.gpio_pin] = c

PinDeinitNone(c) ==
    /\ c \in gpio_inited /\ ~HasBank(c) /\ GpioCall("idle", NotReady)
    /\ gpio_inited' = gpio_inited \ {c}
    /\ UNCHANGED <<pins, high, vddio2, asked_level, ctxVars, lineVars, ready>>

PinDeinit(c) ==
    /\ c \in gpio_inited /\ HasBank(c)
    /\ GpioCall(IF OwnsLine(c) THEN "mask" ELSE "analog", [ctx |-> c, edge |-> {}])
    /\ ready' = IF ready[c.gpio_pin].ctx = c THEN [ready EXCEPT ![c.gpio_pin] = NotReady] ELSE ready
    /\ UNCHANGED <<pinVars, ctxVars, lineVars>>

PinMask ==
    /\ GpioAt("mask", "forget") /\ it' = it \ {Line}
    /\ UNCHANGED <<pinVars, ctxVars, routed, trigger, irqs, ready, pending>>

PinForget ==
    /\ GpioAt("forget", "unset")
    /\ g_uni_hal_gpio_ctx' = [g_uni_hal_gpio_ctx EXCEPT ![Line] = NoContext]
    /\ UNCHANGED <<pinVars, fn, cookie, lineVars, ready, pending>>

PinUnset ==
    /\ GpioAt("unset", "analog")
    /\ fn' = [fn EXCEPT ![Ctx] = 0] /\ cookie' = [cookie EXCEPT ![Ctx] = 0]
    /\ UNCHANGED <<pinVars, g_uni_hal_gpio_ctx, lineVars, ready, pending>>

PinAnalog ==
    /\ GpioAt("analog", "idle")
    /\ pins' = [pins EXCEPT ![PinOf(Ctx)].mode = "ANALOG", ![PinOf(Ctx)].pull = "NO"]
    /\ gpio_inited' = gpio_inited \ {Ctx}
    /\ UNCHANGED <<high, vddio2, asked_level, ctxVars, lineVars, ready, pending>>

(* uni_hal_gpio_pin_set_interrupt_callback                                  *)
SetInterruptCallback(c, edge, cb) ==
    /\ c \in gpio_inited /\ HasBank(c)
    /\ GpioCall("cookie", [ctx |-> c, edge |-> edge])
    /\ fn' = [fn EXCEPT ![c] = cb]
    /\ ready' = [ready EXCEPT ![c.gpio_pin] = NotReady]
    /\ UNCHANGED <<pinVars, cookie, g_uni_hal_gpio_ctx, lineVars>>

SetCookie ==
    /\ GpioAt("cookie", "owner") /\ cookie' = [cookie EXCEPT ![Ctx] = fn[Ctx]]
    /\ UNCHANGED <<pinVars, fn, g_uni_hal_gpio_ctx, lineVars, ready, pending>>

SetOwner ==
    /\ GpioAt("owner", "route")
    /\ g_uni_hal_gpio_ctx' = [g_uni_hal_gpio_ctx EXCEPT ![Line] = Ctx]
    /\ UNCHANGED <<pinVars, fn, cookie, lineVars, ready, pending>>

Route ==
    /\ GpioAt("route", "unmask")
    /\ routed' = IF syscfg THEN [routed EXCEPT ![Line] = Ctx.gpio_bank] ELSE routed
    /\ UNCHANGED <<pinVars, ctxVars, trigger, it, irqs, ready, pending>>

Unmask ==
    /\ GpioAt("unmask", "trigger") /\ it' = it \cup {Line}
    /\ UNCHANGED <<pinVars, ctxVars, routed, trigger, irqs, ready, pending>>

SetTrigger ==
    /\ GpioAt("trigger", "clear") /\ trigger' = [trigger EXCEPT ![Line] = gpio_arg.edge]
    /\ UNCHANGED <<pinVars, ctxVars, routed, it, irqs, ready, pending>>

ClearStale ==
    /\ GpioAt("clear", "enable") /\ latched' = [latched EXCEPT ![Line] = {}]
    /\ UNCHANGED <<pinVars, ctxVars, lineVars, ready, unanswered>>

EnableLine ==
    /\ GpioAt("enable", "idle")
    /\ it' = it \cup {Line} /\ irqs' = irqs \cup {Irqn(Line)}
    /\ ready' = IF fn[Ctx] = 0 \/ routed[Line] # Ctx.gpio_bank THEN ready
                ELSE [ready EXCEPT ![Line] = gpio_arg]
    /\ unanswered' = unanswered \ {Ctx}
    /\ UNCHANGED <<pinVars, ctxVars, routed, trigger, latched>>

-----------------------------------------------------------------------------
(* An edge at a pin. Whether a masked line latches it is left open; a pin   *)
(* set up as analog has no edges to answer.                                 *)
PinEdge(p, direction) ==
    LET line == p[2]
        seen == routed[line] = p[1] /\ direction \in trigger[line] /\ pins[p].mode # "ANALOG"
        asks == /\ direction \in ready[line].edge /\ PinOf(ready[line].ctx) = p
                /\ ModeOf(ready[line].ctx.gpio_type) # "ANALOG"
    IN  /\ edges < MaxEdges /\ edges' = edges + 1 /\ (seen \/ asks)
        /\ \/ /\ seen
              /\ latched' = [latched EXCEPT ![line] = @ \cup {p[1]}]
           \/ /\ ~(seen /\ line \in it)
              /\ UNCHANGED latched
        /\ unanswered' = IF asks THEN unanswered \cup {ready[line].ctx} ELSE unanswered
        /\ UNCHANGED <<pinVars, lineVars, ctxVars, gpioCall, exti, calling, ready>>

(* EXTIx_IRQHandler: every line of the vector.                              *)
ExtiEnter(line) ==
    /\ exti = <<>> /\ line \in it /\ latched[line] # {} /\ Irqn(line) \in irqs
    /\ exti' = LinesOf(Irqn(line))
    /\ UNCHANGED <<pinVars, lineVars, ctxVars, gpioCall, calling, pending, ready, edges>>

ExtiClear ==
    /\ exti # <<>> /\ ~calling
    /\ IF latched[Head(exti)] = {} THEN exti' = Tail(exti) /\ UNCHANGED <<latched, calling>>
       ELSE /\ latched' = [latched EXCEPT ![Head(exti)] = {}]
            /\ calling' = TRUE /\ UNCHANGED exti
    /\ UNCHANGED <<pinVars, lineVars, ctxVars, gpioCall, ready, unanswered, edges>>

ExtiCall ==
    /\ calling
    /\ LET c == g_uni_hal_gpio_ctx[Head(exti)]
       IN  unanswered' = IF c # NoContext /\ fn[c] # 0 THEN unanswered \ {c} ELSE unanswered
    /\ exti' = Tail(exti) /\ calling' = FALSE
    /\ UNCHANGED <<pinVars, lineVars, ctxVars, gpioCall, latched, ready, edges>>

GpioNext ==
    \/ \E c \in PinContexts :
         \/ PinInitNone(c) \/ PinInit(c) \/ PinDeinitNone(c) \/ PinDeinit(c)
         \/ \E val \in BOOLEAN : PinSet(c, val)
         \/ \E edge \in ItEdges, cb \in {0, 1} : SetInterruptCallback(c, edge, cb)
    \/ SyscfgClock
    \/ PinLatch \/ PinConfigure \/ PinMask \/ PinForget \/ PinUnset \/ PinAnalog
    \/ SetCookie \/ SetOwner \/ Route \/ Unmask \/ SetTrigger \/ ClearStale \/ EnableLine
    \/ \E p \in Pins, direction \in {"rise", "fall"} : PinEdge(p, direction)
    \/ \E line \in Lines : ExtiEnter(line)
    \/ ExtiClear \/ ExtiCall

GpioSpec == GpioInit /\ [][GpioNext]_gpioVars

-----------------------------------------------------------------------------
(* An output pin never drives a level that no call has asked_level for, not while *)
(* it becomes an output either, and reads back as it was set up.            *)
PinsDriven ==
    \A c \in {d \in PinContexts : HasBank(d)} :
        Driving(PinOf(c)) => PinGet(c) \in asked_level[PinOf(c)] /\ SpeedGet(c) = c.gpio_speed

(* A line with a complete registration listens to that pin, and keeps doing *)
(* so while other contexts of the same line or vector come and go. Left out *)
(* is a registration made while the clock of SYSCFG is off, which succeeds  *)
(* although its line keeps the port it had.                                 *)
Listens(line) ==
    LET c == ready[line].ctx
    IN  /\ g_uni_hal_gpio_ctx[line] = c /\ fn[c] # 0 /\ cookie[c] = fn[c]
        /\ routed[line] = c.gpio_bank /\ trigger[line] = ready[line].edge
        /\ line \in it /\ Irqn(line) \in irqs /\ latched[line] \subseteq {c.gpio_bank}

(* An edge after a registration is complete waits in the line or in the     *)
(* handler until the callback runs, and no callback of a context that is    *)
(* not initialised can run.                                                 *)
EdgesAnswered ==
    /\ \A l \in Lines : ready[l] # NotReady => Listens(l)
    /\ \A l \in Lines :
        ready[l].ctx \in unanswered =>
            latched[l] # {} \/ (calling /\ exti # <<>> /\ Head(exti) = l)
    /\ \A l \in Lines : g_uni_hal_gpio_ctx[l] \in gpio_inited \cup {NoContext}

PinsServed == PinsDriven /\ EdgesAnswered
=============================================================================
