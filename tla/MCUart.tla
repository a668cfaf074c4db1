------------------------------- MODULE MCUart -------------------------------
(* Both UART drivers over the same port, in one instance for TLC with what  *)
(* their scheduling justifies: the H7 sends with interrupts as late as they *)
(* may be, the L4 sends while it receives and forwards. part says whose     *)
(* behaviour it is.                                                         *)
EXTENDS UartPort

VARIABLE part

H7 == INSTANCE UartH7 WITH Latency <- "any", Tunnel <- "none", MaxRx <- 0

(* One task that sends one byte or two of the same keeps the traffic of the *)
(* L4, which also receives, in bounds.                                      *)
Sender == {CHOOSE t \in Task : TRUE}
Same   == {data \in Chunk : \A i \in 1..Len(data) : data[i] = CHOOSE b \in Byte : TRUE}

L4 == INSTANCE UartL4 WITH Latency <- "handler", Tunnel <- "opaque", MaxTx <- 2,
                           Task <- Sender, Chunk <- Same

uartAll == <<part, vars>>

UartInit == (part = "h7" /\ H7!Init) \/ (part = "l4" /\ PortInit(FALSE))

OfH7 == part = "h7" /\ UNCHANGED part
OfL4 == part = "l4" /\ UNCHANGED part

UartNext == (OfH7 /\ H7!Next) \/ (OfL4 /\ L4!Next)

UartSpec ==
    /\ UartInit /\ [][UartNext]_uartAll
    /\ WF_uartAll(OfH7 /\ H7!Isr) /\ WF_uartAll(OfL4 /\ L4!Isr)
    /\ WF_uartAll(UNCHANGED part /\ LoadShift)
    /\ WF_uartAll(OfH7 /\ H7!ShiftDone) /\ SF_uartAll(OfL4 /\ L4!ShiftDone)
    /\ \A t \in Task : WF_uartAll(OfH7 /\ H7!Trigger(t))
    /\ \A t \in Sender : WF_uartAll(OfL4 /\ L4!Trigger(t))

(* The handler of the L4 may starve a call for good: UartL4CallHangs.       *)
CallsOfH7Return == part = "h7" => CallsReturn

BlockChunks == {<<b>> : b \in Byte} \cup {<<b, c>> : b, c \in Byte}
=============================================================================
