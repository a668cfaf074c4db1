---------------------------- MODULE MCUartNested ----------------------------
(* Both UART drivers over the same port, in one instance for TLC: part      *)
(* says whose behaviour it is.                                              *)
EXTENDS UartPort

VARIABLE part

H7 == INSTANCE UartH7
L4 == INSTANCE UartL4

NestedInit == (part = "h7" /\ H7!Init) \/ (part = "l4" /\ L4!Init)

OfH7 == part = "h7" /\ UNCHANGED part
OfL4 == part = "l4" /\ UNCHANGED part

NestedNext == (OfH7 /\ H7!Next) \/ (OfL4 /\ L4!Next)

NestedSpec == NestedInit /\ [][NestedNext]_<<part, vars>>

BlockChunks == {<<b>> : b \in Byte} \cup {<<b, c>> : b, c \in Byte}
AnyChunks   == BlockChunks \cup {<<>>}
=============================================================================
