------------------------------ MODULE MCUartL4 ------------------------------
(* Instances of UartL4 for TLC. *)
EXTENDS UartL4

(* What callers send: a single byte (stdio), or a longer block that may not *)
(* fit.                                                                     *)
BlockChunks == {<<b>> : b \in Byte} \cup {<<b, c>> : b, c \in Byte}
=============================================================================
