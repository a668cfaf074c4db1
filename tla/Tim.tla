--------------------------------- MODULE Tim ---------------------------------
(***************************************************************************)
(* Input capture of the STM32L4 timer driver: TIM1 with a capture channel, *)
(* its capture and update interrupts of equal priority, and the calls that *)
(* start, clear and stop it. Time is counted in ticks of the timer, so     *)
(* that a captured period can be compared with the distance of the edges.  *)
(***************************************************************************)
EXTENDS Integers

CONSTANTS
    Period,         \* of the counter: its auto-reload value + 1
    Latency,        \* ticks within which an interrupt is taken and served
    CountSize,      \* values of overflow_count (the code: 2^32)
    MaxTicks,       \* bound: ticks of a run of the timer
    MaxTimCalls     \* bound: calls

ASSUME TimAssumption ==
    /\ {Period, Latency, CountSize, MaxTicks, MaxTimCalls} \subseteq Nat \ {0}
    /\ Latency < Period \div 2

VARIABLES
    mode,           \* "stopped", "armed" (channel enabled, counter not), "run",
                    \* "again" (in the middle of a start while it runs), "halted"
    now,            \* ticks since the counter was 0
    uif,            \* update flag
    ccif, ccof,     \* capture and overcapture flags of the channel
    overflow_count, chan,           \* ctx->status
    cc_irq, value, counter_seen,    \* the capture interrupt and its locals
    cc_at, irq_at,  \* when ccif went up, and when it had for the one served
    edge, before,   \* history: times of the captured edge and of the one before it
    served,         \* history: distance of the edge last served to the one before
    tim_calls

timVars == <<mode, now, uif, ccif, ccof, overflow_count, chan, cc_irq, value,
             counter_seen, cc_at, irq_at, edge, before, served, tim_calls>>
flags == <<uif, ccif, ccof, cc_at>>
irq   == <<cc_irq, value, counter_seen, irq_at>>
past  == <<edge, before, served>>

Never == -1         \* no edge yet
Early == -2         \* an edge before the counter ran, captured as 0, or amid a start
NoChan == [seen |-> FALSE, valid |-> FALSE, counter |-> 0, overflow_count |-> 0, period |-> 0]

TimInit ==
    /\ mode = "stopped" /\ now = 0
    /\ uif = TRUE       \* LL_TIM_Init generates an update event
    /\ ccif = FALSE /\ ccof = FALSE
    /\ overflow_count = 0 /\ chan = NoChan
    /\ cc_irq = "idle" /\ value = 0 /\ counter_seen = 0
    /\ cc_at = 0 /\ irq_at = 0
    /\ edge = Never /\ before = Never /\ served = 0
    /\ tim_calls = 0

Counter == now % Period
HalfPeriod == Period \div 2
Capture == IF edge = Early THEN 0 ELSE edge % Period

-----------------------------------------------------------------------------
(* The timer and its input.                                                 *)
Counting == mode \in {"run", "again"}

InTime(since) == now + 1 - since <= Latency

Tick ==
    /\ Counting /\ now < MaxTicks
    /\ uif => InTime(now - Counter)
    /\ ccif => InTime(cc_at)
    /\ cc_irq # "idle" => InTime(irq_at)
    /\ now' = now + 1
    /\ uif' = (uif \/ now' % Period = 0)
    /\ UNCHANGED <<mode, ccif, ccof, cc_at, overflow_count, chan, irq, past, tim_calls>>

Edge ==
    /\ mode = "armed" \/ Counting
    /\ Counting => edge # now
    /\ ccif' = TRUE /\ ccof' = (ccof \/ ccif)
    /\ cc_at' = IF ccif THEN cc_at ELSE now
    /\ before' = edge /\ edge' = IF mode = "armed" THEN Early ELSE now
    /\ UNCHANGED <<mode, now, uif, overflow_count, chan, irq, served, tim_calls>>

-----------------------------------------------------------------------------
(* TIM1_UP_TIM16_IRQHandler: the overflow is counted, the callback called.  *)
IrqUpdate ==
    /\ uif /\ cc_irq = "idle" /\ mode \in {"run", "again", "halted"}
    /\ overflow_count' = (overflow_count + 1) % CountSize
    /\ uif' = FALSE
    /\ UNCHANGED <<mode, now, ccif, ccof, cc_at, chan, irq, past, tim_calls>>

(* TIM1_CC_IRQHandler: an overcapture starts over,                          *)
IrqCapture ==
    /\ ccif /\ cc_irq = "idle" /\ mode # "stopped"
    /\ IF ccof
       THEN /\ chan' = [chan EXCEPT !.seen = FALSE, !.valid = FALSE]
            /\ ccof' = FALSE /\ ccif' = FALSE /\ cc_at' = 0
            /\ UNCHANGED <<cc_irq, irq_at>>
       ELSE cc_irq' = "value" /\ irq_at' = cc_at /\ UNCHANGED <<chan, ccif, ccof, cc_at>>
    /\ UNCHANGED <<mode, now, uif, overflow_count, value, counter_seen, past, tim_calls>>

\* otherwise the captured value is read, which clears the flag,
IrqValue ==
    /\ cc_irq = "value"
    /\ value' = Capture /\ ccif' = FALSE /\ cc_at' = 0
    /\ served' = CASE before = Never -> 0 [] before = Early -> Early [] OTHER -> edge - before
    /\ cc_irq' = "counter"
    /\ UNCHANGED <<mode, now, uif, ccof, overflow_count, chan, counter_seen, irq_at,
                   edge, before, tim_calls>>

\* then the counter,
IrqCounter ==
    /\ cc_irq = "counter"
    /\ counter_seen' = Counter /\ cc_irq' = "delta"
    /\ UNCHANGED <<mode, now, flags, overflow_count, chan, value, irq_at, past, tim_calls>>

\* and the update flag: the overflow count at the time of the capture.
CapturedAny(pending) ==     \* mutant: a pending overflow is always added
    IF pending THEN overflow_count + 1
    ELSE IF overflow_count > 0 /\ counter_seen < HalfPeriod /\ value > HalfPeriod
    THEN overflow_count - 1
    ELSE overflow_count

CapturedOverflow(pending) ==
    IF pending THEN IF value < HalfPeriod THEN overflow_count + 1 ELSE overflow_count
    ELSE IF overflow_count > 0 /\ counter_seen < HalfPeriod /\ value > HalfPeriod
    THEN overflow_count - 1
    ELSE overflow_count

\* The code reports no period that is longer than 32 bits; here any length counts.
Delta(laps) ==
    IF value >= chan.counter THEN laps * Period + value - chan.counter
    ELSE IF laps > 0 THEN (laps - 1) * Period + (Period - chan.counter) + value ELSE 0

IrqDelta ==
    /\ cc_irq = "delta"
    /\ LET captured == CapturedOverflow(uif) % CountSize
           delta == Delta((captured - chan.overflow_count) % CountSize)
       IN  chan' = [seen |-> TRUE, counter |-> value, overflow_count |-> captured,
                    valid |-> IF chan.seen THEN delta > 0 ELSE chan.valid,
                    period |-> IF chan.seen /\ delta > 0 THEN delta ELSE chan.period]
    /\ cc_irq' = "idle" /\ irq_at' = 0 /\ value' = 0 /\ counter_seen' = 0
    /\ UNCHANGED <<mode, now, flags, overflow_count, past, tim_calls>>

-----------------------------------------------------------------------------
(* The calls.                                                               *)
TimCall == cc_irq = "idle" /\ tim_calls < MaxTimCalls /\ tim_calls' = tim_calls + 1

Cleared ==
    /\ uif' = FALSE /\ ccif' = FALSE /\ ccof' = FALSE /\ cc_at' = 0
    /\ overflow_count' = 0 /\ chan' = NoChan
    /\ edge' = Never /\ before' = Never /\ served' = 0

\* uni_hal_tim_start: the channel is enabled before the counter.
StartArm ==
    /\ mode = "stopped" /\ TimCall
    /\ Cleared /\ mode' = "armed"
    /\ UNCHANGED <<now, irq>>

StartCounter ==
    /\ mode = "armed" /\ cc_irq = "idle" /\ ~ccif
    /\ mode' = "run"
    /\ UNCHANGED <<now, flags, overflow_count, chan, irq, past, tim_calls>>

\* uni_hal_tim_start of a timer that runs: the counter goes on, and the interrupts
\* come between the writes. The time restarts with the overflows counted since.
StartAgain ==
    /\ mode = "run" /\ TimCall
    /\ overflow_count' = 0 /\ chan' = NoChan /\ mode' = "again"
    /\ UNCHANGED <<now, flags, irq, past>>

StartFlags ==
    /\ mode = "again" /\ cc_irq = "idle"
    /\ uif' = FALSE /\ ccif' = FALSE /\ ccof' = FALSE /\ cc_at' = 0
    /\ mode' = "run" /\ now' = overflow_count * Period + Counter
    /\ before' = Never
    /\ edge' = (IF chan.seen THEN Early ELSE Never)
    /\ served' = (IF chan.seen THEN Early ELSE 0)
    /\ UNCHANGED <<overflow_count, chan, irq, tim_calls>>

\* uni_hal_tim_clear, with the interrupts paused.
Clear ==
    /\ mode = "run" /\ TimCall
    /\ now' = 0 /\ Cleared
    /\ UNCHANGED <<mode, irq>>

\* uni_hal_tim_stop: the counter first, the interrupts and the state then.
StopCounter ==
    /\ mode = "run" /\ TimCall
    /\ mode' = "halted" /\ now' = 0
    /\ UNCHANGED <<flags, overflow_count, chan, irq, past>>

StopRest ==
    /\ mode = "halted" /\ cc_irq = "idle"
    /\ mode' = "stopped" /\ Cleared
    /\ UNCHANGED <<now, irq, tim_calls>>

TimNext ==
    \/ Tick \/ Edge
    \/ IrqUpdate \/ IrqCapture \/ IrqValue \/ IrqCounter \/ IrqDelta
    \/ StartArm \/ StartCounter \/ StartAgain \/ StartFlags \/ Clear \/ StopCounter \/ StopRest

-----------------------------------------------------------------------------
(* A period that is valid is the distance of the last two edges, however    *)
(* overflows, captures and their interrupts fall together, as long as both  *)
(* interrupts are served in less than half a period, and when the timer is  *)
(* started again while it runs. A wrong one is told by the overcapture      *)
(* flag, which the next edge's interrupt acts on. Left out: the period from *)
(* an edge that comes before uni_hal_tim_start has started the counter or   *)
(* is served between its writes, and the lap in which overflow_count wraps. *)
PeriodTrue ==
    (mode = "run" /\ cc_irq = "idle" /\ chan.valid /\ ~ccof) =>
        served = Early \/ now >= CountSize * Period \/ chan.period = served
=============================================================================
