------------------------------ MODULE MCUartH7 ------------------------------
(* Instances of UartH7 for TLC. *)
EXTENDS UartH7

(* What callers send: a single byte (stdio), or a longer block that may not *)
(* fit.                                                                     *)
BlockChunks == {<<b>> : b \in Byte} \cup {<<b, c>> : b, c \in Byte}
=============================================================================
