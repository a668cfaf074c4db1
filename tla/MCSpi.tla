------------------------------- MODULE MCSpi -------------------------------
(* Instances of Spi for TLC. *)
EXTENDS Spi

BothModes  == {"master", "slave"}
AnyStarts  == BOOLEAN
=============================================================================
