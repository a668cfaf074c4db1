----------------------------- MODULE ByteStream -----------------------------
(***************************************************************************)
(* What the transmit side of a serial port promises its callers: the bytes *)
(* it accepted appear on the line, each exactly once and in the order in   *)
(* which they were accepted.  How many bytes of a call are accepted is     *)
(* left open (uni_hal_io_transmit_data returns that number).               *)
(***************************************************************************)
EXTENDS Naturals, Sequences

CONSTANT Byte          \* the payload of one character

VARIABLES accepted,    \* every byte taken from a caller, oldest first
          sent         \* every byte whose last bit has left the transmitter

vars == <<accepted, sent>>

Init == accepted = <<>> /\ sent = <<>>

(* One call: some bytes are added behind those accepted before. *)
Accept ==
    /\ accepted' \in Seq(Byte)
    /\ Len(accepted') >= Len(accepted)
    /\ SubSeq(accepted', 1, Len(accepted)) = accepted
    /\ sent' = sent

(* One character leaves: it is the oldest one that has not left yet. *)
Send ==
    /\ Len(sent) < Len(accepted)
    /\ sent' = Append(sent, accepted[Len(sent) + 1])
    /\ accepted' = accepted

Next == Accept \/ Send

Spec == Init /\ [][Next]_vars

(* The line is never silent for good while something is left to send. *)
FairSpec == Spec /\ WF_vars(Send)
=============================================================================
