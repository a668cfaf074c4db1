------------------------------- MODULE CanTx -------------------------------
(***************************************************************************)
(* Transmission in the CAN drivers, can/uni_hal_can_stm32h7.c (FDCAN) and  *)
(* can/uni_hal_can_stm32l4.c (bxCAN): frames go into one of a few slots    *)
(* (TX buffers, TX mailboxes); a blocking call waits for its slot, and the *)
(* transmit interrupt reports every slot that is done to a callback.       *)
(*                                                                         *)
(* Nothing in the drivers locks the slots: one task sends.  The callback   *)
(* may send as well, from the interrupt handler.                           *)
(***************************************************************************)
EXTENDS Naturals

CONSTANTS
    Slots,
    Drivers,            \* FDCAN with its buffers "dedicated" or as a "fifo", "bxcan"
    CallbackSends       \* whether the callback may call uni_hal_can_transmit_nowait

ASSUME CanAssumption ==
    /\ Slots \subseteq Nat
    /\ Drivers \subseteq {"dedicated", "fifo", "bxcan"}
    /\ CallbackSends \subseteq BOOLEAN

VARIABLES
    driver,
    retry,      \* config.auto_retransmission
    sends,      \* the callback sends frames
    started,    \* the peripheral takes part in bus traffic
    listening,  \* a callback is registered, its interrupt enabled
    box,        \* whose frame a slot holds: "none", "mine" (of the blocking call), "other"
    request,    \* slots with a pending request: TXBRP; slots without TME
    cancel,     \* slots with a cancellation request: TXBCR, ABRQ
    success,    \* slots whose last frame went out: TXBTO, TXOK
    booked,     \* h7: tx_inflight; l4: slots with a completed request, RQCP
    flag,       \* h7: TC or TCF is up in IR
    tx_ok,      \* slots with status.tx_ok
    isr,        \* "idle", "ack" (flags taken), "report"
    done,       \* slots the handler has still to report
    good,       \* of these, the ones that went out
    pc,         \* the sending task: "idle", "fill", "request", "wait", "look", "kept"
    blocking,   \* its call is uni_hal_can_transmit
    slot,       \* its slot
    expired,    \* its time is over
    fate,       \* of the frame of the blocking call: "none", "queued", "sent", "lost"
    ret,        \* what the call returned: "none", "true", "false", "timeout" (false)
    owed        \* history: what the handler is still to see of each slot:
                \* "none", "queued", "sent", "lost", "thrown" (by a stop), "confused"

config == <<driver, retry, sends>>
bus    == <<started, cancel>>
task   == <<pc, blocking, slot, expired, ret>>
vars   == <<config, bus, listening, box, request, success, booked, flag, tx_ok,
            isr, done, good, task, fate, owed>>

Init ==
    /\ driver \in Drivers /\ retry \in BOOLEAN /\ sends \in CallbackSends
    /\ started = FALSE /\ cancel = {} /\ listening = FALSE
    /\ box = [s \in Slots |-> "none"]
    /\ request = {} /\ success = {} /\ booked = {} /\ flag = FALSE /\ tx_ok = {}
    /\ isr = "idle" /\ done = {} /\ good = {}
    /\ pc = "idle" /\ blocking = FALSE /\ slot \in Slots /\ expired = FALSE
    /\ fate = "none" /\ ret = "none"
    /\ owed = [s \in Slots |-> "none"]

-----------------------------------------------------------------------------
(* The peripheral.                                                         *)

H7 == driver # "bxcan"

IrqPending == listening /\ IF H7 THEN flag ELSE booked # {}

(* The handler preempts the task, though not at once: the last few reads   *)
(* of a waiting call may still go before it (WaitDone, Look).              *)
TaskRuns == isr = "idle" /\ ~IrqPending

(* Where the next frame may go: the lowest slot without a request, or one  *)
(* that the peripheral names (the put index of the FIFO, CODE).            *)
Free == {n \in Slots \ request :
            driver = "dedicated" => \A m \in Slots \ request : n <= m}

(* A frame leaves its slot: transmitted, or lost to an error with          *)
(* retransmission off or to a cancellation.                                *)
FrameEnds(s, sent) ==
    /\ s \in request
    /\ IF sent THEN started ELSE s \in cancel \/ (started /\ ~retry)
    /\ request' = request \ {s} /\ cancel' = cancel \ {s}
    /\ success' = IF sent THEN success \cup {s} ELSE success
    /\ booked' = IF H7 THEN booked ELSE booked \cup {s}
    /\ flag' = (flag \/ (H7 /\ listening))
    /\ LET outcome == IF sent THEN "sent" ELSE "lost"
       IN  /\ fate' = IF box[s] = "mine" THEN outcome ELSE fate
           /\ owed' = IF owed[s] = "queued" THEN [owed EXCEPT ![s] = outcome] ELSE owed
    /\ UNCHANGED <<config, started, listening, box, tx_ok, isr, done, good, task>>

(* A request on a slot: the outcome of its last frame is forgotten.        *)
(* What the handler had not yet seen of that frame is lost.                *)
Requested(s) ==
    /\ request' = request \cup {s} /\ success' = success \ {s}
    /\ booked' = IF H7 THEN booked \cup {s} ELSE booked \ {s}
    /\ owed' = IF ~listening THEN owed
               ELSE [owed EXCEPT ![s] = IF @ \in {"none", "thrown"} THEN "queued"
                                        ELSE "confused"]

-----------------------------------------------------------------------------
(* The transmit interrupt.                                                 *)

(* h7: the flags of the interrupt register are acknowledged first.         *)
IsrAck ==
    /\ IrqPending /\ isr = "idle"
    /\ isr' = "ack" /\ flag' = FALSE
    /\ UNCHANGED <<config, bus, listening, box, request, success, booked, tx_ok, done,
                   good, task, fate, owed>>

(* Slots that were given a frame (h7) or have a completed request (l4).    *)
Done(slots) == slots \ request

(* All slots that are done are taken off the books before any callback     *)
(* runs.  On the l4, clearing RQCP clears TXOK as well.                    *)
IsrTake ==
    /\ isr = "ack" /\ isr' = "report"
    /\ done' = Done(booked) /\ good' = done' \cap success
    /\ booked' = booked \ done'
    /\ success' = IF H7 THEN success ELSE success \ done'
    /\ owed' = [s \in Slots |->
                    IF s \notin done' THEN owed[s]
                    ELSE IF owed[s] \in (IF s \in good' THEN {"sent"} ELSE {"lost", "thrown"})
                    THEN "none"
                    ELSE "confused"]
    /\ UNCHANGED <<config, bus, listening, box, request, flag, tx_ok, task, fate>>

Outcome(s) == IF s \in good THEN tx_ok \cup {s} ELSE tx_ok \ {s}

(* The lowest slot is reported; the callback may send the next frame.      *)
Reported(s) == s \in done /\ \A r \in done : s <= r

IsrReport ==
    /\ isr = "report"
    /\ \E s \in Slots : Reported(s) /\ done' = done \ {s} /\ tx_ok' = Outcome(s)
    /\ UNCHANGED <<config, bus, listening, box, request, success, booked, flag, isr, good,
                   task, fate, owed>>

IsrReportSend ==
    /\ isr = "report" /\ sends /\ started
    /\ \E s \in Slots, n \in Free :
        /\ Reported(s) /\ done' = done \ {s} /\ tx_ok' = Outcome(s) \ {n}
        /\ box' = [box EXCEPT ![n] = "other"]
        /\ Requested(n)
    /\ UNCHANGED <<config, bus, listening, flag, isr, good, task, fate>>

AckLast == FALSE                \* mutant: the flags are acknowledged after the work

Kept == flag

IsrExit ==
    /\ isr = "report" /\ done = {}
    /\ isr' = "idle" /\ good' = {} /\ flag' = Kept
    /\ UNCHANGED <<config, bus, listening, box, request, success, booked, tx_ok, done,
                   task, fate, owed>>

-----------------------------------------------------------------------------
(* The task.                                                               *)

Start ==
    /\ TaskRuns /\ pc = "idle" /\ started' = TRUE
    /\ UNCHANGED <<config, cancel, listening, box, request, success, booked, flag, tx_ok,
                   isr, done, good, task, fate, owed>>

(* Bus-off puts FDCAN back into initialisation; the status interrupt takes *)
(* it out again.                                                           *)
BusOff ==
    /\ H7 /\ started' = ~started
    /\ UNCHANGED <<config, cancel, listening, box, request, success, booked, flag, tx_ok,
                   isr, done, good, task, fate, owed>>

(* Also a uni_hal_can_start that the bus keeps from its end.  On the h7,   *)
(* opening the configuration throws pending frames away; tx_ok and         *)
(* tx_inflight stay.                                                       *)
Stop ==
    /\ TaskRuns /\ pc = "idle" /\ started' = FALSE
    /\ IF H7 THEN /\ request' = {} /\ success' = {} /\ cancel' = {}
                  /\ fate' = IF \E s \in request : box[s] = "mine" THEN "lost" ELSE fate
                  /\ owed' = [s \in Slots |-> IF listening /\ s \in request THEN "thrown"
                                              ELSE owed[s]]
             ELSE UNCHANGED <<request, success, cancel, fate, owed>>
    /\ UNCHANGED <<config, listening, box, booked, flag, tx_ok, isr, done, good, task>>

ForgetKept == booked            \* mutant: frames that ended before are still on the books

(* Frames that completed before the callback existed are not reported.     *)
Forget == IF H7 THEN request ELSE {}

(* uni_hal_can_set_tx_callback; "register it before the first frame".      *)
SetTxCallback ==
    /\ TaskRuns /\ pc = "idle"
    /\ \/ request = {} /\ listening' = TRUE /\ booked' = Forget /\ flag' = FALSE
       \/ listening' = FALSE /\ UNCHANGED <<booked, flag>>
    /\ owed' = [s \in Slots |-> "none"]
    /\ UNCHANGED <<config, bus, box, request, success, tx_ok, isr, done, good, task, fate>>

TransmitAbort ==
    /\ TaskRuns /\ pc = "idle"
    /\ cancel' = request
    /\ UNCHANGED <<config, started, listening, box, request, success, booked, flag, tx_ok,
                   isr, done, good, task, fate, owed>>

(* _uni_hal_can_queue finds a free slot, fills it and requests it; a frame *)
(* may be one that the node cannot send (CAN FD).                          *)
Transmit(wait) ==
    /\ TaskRuns /\ pc = "idle"
    /\ blocking' = wait /\ expired' = FALSE
    /\ fate' = IF wait THEN "none" ELSE fate
    /\ box' = IF wait THEN [s \in Slots |-> IF box[s] = "mine" THEN "other" ELSE box[s]]
                      ELSE box
    /\ \E sendable \in BOOLEAN :
        \/ /\ sendable /\ started /\ slot' \in Free
           /\ pc' = "fill" /\ ret' = "none"
        \/ /\ ~(sendable /\ started /\ Free # {})
           /\ ret' = "false" /\ UNCHANGED <<pc, slot>>
    /\ UNCHANGED <<config, bus, listening, request, success, booked, flag, tx_ok, isr,
                   done, good, owed>>

ForgetOutcome(s) == tx_ok \ {s}

(* The frame is written; on the l4 tx_ok is reset before that.             *)
Fill ==
    /\ TaskRuns /\ pc = "fill" /\ pc' = "request"
    /\ box' = [b \in Slots |-> IF b = slot THEN IF blocking THEN "mine" ELSE "other"
                               ELSE box[b]]
    /\ tx_ok' = IF H7 THEN tx_ok ELSE ForgetOutcome(slot)
    /\ UNCHANGED <<config, bus, listening, request, success, booked, flag, isr, done, good,
                   blocking, slot, expired, ret, fate, owed>>

(* On the h7 the bookkeeping and the request go together, masked.          *)
Request ==
    /\ TaskRuns /\ pc = "request"
    /\ Requested(slot)
    /\ tx_ok' = IF H7 THEN ForgetOutcome(slot) ELSE tx_ok
    /\ IF blocking THEN pc' = "wait" /\ fate' = "queued" /\ UNCHANGED ret
                   ELSE pc' = "idle" /\ ret' = "true" /\ UNCHANGED fate
    /\ UNCHANGED <<config, bus, listening, box, flag, isr, done, good, blocking, slot,
                   expired>>

Expire ==
    /\ pc = "wait" /\ expired' = TRUE
    /\ UNCHANGED <<config, bus, listening, box, request, success, booked, flag, tx_ok, isr,
                   done, good, pc, blocking, slot, ret, fate, owed>>

(* The request is gone.                                                    *)
WaitDone ==
    /\ isr = "idle" /\ pc = "wait" /\ slot \notin request /\ pc' = "look"
    /\ UNCHANGED <<config, bus, listening, box, request, success, booked, flag, tx_ok, isr,
                   done, good, blocking, slot, expired, ret, fate, owed>>

KeptFirst(at) ==                \* mutant: tx_ok is read first
    IF at = "kept" THEN slot \in success ELSE ~H7 /\ slot \in tx_ok

(* On the l4 the interrupt may have acknowledged the request already, or   *)
(* do so at any moment; it keeps the outcome in tx_ok.                     *)
Succeeded(at) == IF at = "look" THEN slot \in success ELSE ~H7 /\ slot \in tx_ok

Look ==
    /\ isr = "idle" /\ pc \in {"look", "kept"}
    /\ IF Succeeded(pc) THEN pc' = "idle" /\ ret' = "true"
       ELSE IF pc = "look" THEN pc' = "kept" /\ UNCHANGED ret
       ELSE pc' = "idle" /\ ret' = "false"
    /\ UNCHANGED <<config, bus, listening, box, request, success, booked, flag, tx_ok, isr,
                   done, good, blocking, slot, expired, fate, owed>>

GiveUpNever == FALSE            \* mutant: the wait has no limit

GiveUp == expired

(* The frame may have ended since the request was looked at.               *)
WaitTimeout ==
    /\ TaskRuns /\ pc = "wait" /\ GiveUp
    /\ cancel' = cancel \cup ({slot} \cap request)
    /\ pc' = "idle" /\ ret' = "timeout"
    /\ UNCHANGED <<config, started, listening, box, request, success, booked, flag, tx_ok,
                   isr, done, good, blocking, slot, expired, fate, owed>>

-----------------------------------------------------------------------------

Handler == IsrAck \/ IsrTake \/ IsrReport \/ IsrReportSend \/ IsrExit

Call == Fill \/ Request \/ WaitDone \/ Look \/ WaitTimeout

Next ==
    \/ \E s \in Slots, sent \in BOOLEAN : FrameEnds(s, sent)
    \/ Handler
    \/ Start \/ BusOff \/ Stop \/ SetTxCallback \/ TransmitAbort
    \/ \E wait \in BOOLEAN : Transmit(wait)
    \/ Expire \/ Call

Spec == Init /\ [][Next]_vars

(* The handler ends, a running call is scheduled, its clock runs; the bus  *)
(* may stay silent.                                                        *)
FairSpec == Spec /\ WF_vars(Handler) /\ WF_vars(Call) /\ WF_vars(Expire)

-----------------------------------------------------------------------------

TypeOK ==
    /\ driver \in Drivers /\ retry \in BOOLEAN /\ sends \in CallbackSends
    /\ started \in BOOLEAN /\ listening \in BOOLEAN
    /\ box \in [Slots -> {"none", "mine", "other"}]
    /\ request \subseteq Slots /\ cancel \subseteq Slots /\ success \subseteq Slots
    /\ booked \subseteq Slots /\ tx_ok \subseteq Slots /\ flag \in BOOLEAN
    /\ isr \in {"idle", "ack", "report"} /\ done \subseteq Slots /\ good \subseteq Slots
    /\ pc \in {"idle", "fill", "request", "wait", "look", "kept"} /\ blocking \in BOOLEAN
    /\ slot \in Slots /\ expired \in BOOLEAN
    /\ fate \in {"none", "queued", "sent", "lost"}
    /\ ret \in {"none", "true", "false", "timeout"}
    /\ owed \in [Slots -> {"none", "queued", "sent", "lost", "thrown", "confused"}]

(* uni_hal_can_transmit tells the truth about its own frame: true when it  *)
(* went out, false when it was refused or lost, whether the interrupt or   *)
(* the call itself saw the end of it first.  A frame that was given up may *)
(* still go out.  (A callback that sends may reuse the slot of the waiting *)
(* call.)                                                                  *)
OutcomeTold ==
    ~sends /\ pc = "idle" /\ blocking => /\ ret = "true" => fate = "sent"
                                         /\ ret = "false" => fate \in {"none", "lost"}

(* The callback hears of every frame that left its slot, once and with the *)
(* right outcome: uni_hal_can.h on uni_hal_can_set_tx_callback, "called    *)
(* whenever a frame has left its TX mailbox, successfully or not".  Frames *)
(* that a stop of the h7 throws away are left out here: they may be told   *)
(* late, as lost, or not at all.                                           *)
EveryFrameReported ==
    /\ \A s \in Slots : owed[s] # "confused"
    /\ TaskRuns => \A s \in Slots : owed[s] \in {"none", "queued", "thrown"}

(* It does as long as only the task sends.                                 *)
TaskFramesReported == ~sends => EveryFrameReported

(* No slot that is done stays on the books without an interrupt to come:   *)
(* the flags are acknowledged before the books are read, never after.      *)
NothingLeftBehind ==
    listening /\ TaskRuns => \A s \in booked \ request : owed[s] = "thrown"

(* In bus-off a frame never leaves its slot; the blocking call returns all *)
(* the same.  (Frames that a callback keeps sending may keep the handler   *)
(* busy.)                                                                  *)
TransmitReturns == ~sends /\ pc # "idle" ~> pc = "idle"
=============================================================================
