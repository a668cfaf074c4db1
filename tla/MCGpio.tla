-------------------------------- MODULE MCGpio --------------------------------
(* An instance of Gpio for TLC.                                             *)
EXTENDS Gpio

(* An input and an output on one line, another line of their vector,        *)
(* a context without a pin and one of an unknown bank.                      *)
Pin(bank, n, type, speed, init) ==
    [gpio_bank |-> bank, gpio_pin |-> n, gpio_type |-> type, gpio_pull |-> "UP",
     gpio_speed |-> speed, alternate |-> 5, gpio_init |-> init]
BoardPins ==
    {Pin("A", 5, "IN_DIGITAL", 0, FALSE), Pin("B", 5, "OUT_PP", 3, TRUE),
     Pin("G", 6, "ALTERNATE_OD", 1, FALSE), Pin("EMPTY", 0, "OUT_PP", 0, FALSE),
     Pin("OTHER", 0, "OUT_PP", 0, FALSE)}
PinEdges == {{"rise"}, {"rise", "fall"}}
=============================================================================
