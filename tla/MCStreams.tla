------------------------------ MODULE MCStreams ------------------------------
(* Three parts that share no state, in one instance for TLC: the search of  *)
(* an IO port, reception in the CAN drivers, the I2C driver. A behaviour is *)
(* one of the part it starts with.                                          *)
EXTENDS IoSync, CanRx, I2cBus

CONSTANTS a, b

VARIABLE part

streamsAll == <<part, vars, rxVars, i2cVars>>

StreamsInit ==
    /\ part \in {"io", "rx", "i2c"}
    /\ Init /\ RxInit /\ I2cInit
    /\ part # "io" => pat = <<a>> /\ ~switching
    /\ part # "rx" => rx_h7
    /\ part # "i2c" => slave = <<>>

OfIo  == part = "io" /\ UNCHANGED <<part, rxVars, i2cVars>>
OfRx  == part = "rx" /\ UNCHANGED <<part, vars, i2cVars>>
OfI2c == part = "i2c" /\ UNCHANGED <<part, vars, rxVars>>

StreamsNext == (OfIo /\ Next) \/ (OfRx /\ RxNext) \/ (OfI2c /\ I2cNext)

StreamsSpec ==
    /\ StreamsInit /\ [][StreamsNext]_streamsAll
    /\ WF_streamsAll(OfIo /\ SyncByte) /\ WF_streamsAll(OfIo /\ SyncTimeout)
    /\ WF_streamsAll(OfIo /\ Expire)
    /\ WF_streamsAll(OfRx /\ RxIrq)
    /\ WF_streamsAll(OfI2c /\ CallStep) /\ WF_streamsAll(OfI2c /\ I2cExpire)

-----------------------------------------------------------------------------
(* Patterns with no overlap, with a repeated byte, and with borders of      *)
(* different lengths.                                                       *)
Overlapping == {<<a>>, <<a, b>>, <<a, a, b>>, <<a, b, a, b, b>>, <<a, b, a, a, b, a>>}
=============================================================================
