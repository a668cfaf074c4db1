------------------------------- MODULE MCAdc --------------------------------
(* Two ADCs for TLC: pins and internal channels, one block or two, with and *)
(* without DMA, settings the ADC does not have.                             *)
EXTENDS Adc

Plain == [channels |-> <<1, 2>>, sync |-> TRUE, divider |-> 4, sampling |-> 0,
          resolution |-> 0, dma |-> TRUE, handled |-> TRUE]
Internal == [channels |-> <<5, 20>>, sync |-> FALSE, divider |-> 0, sampling |-> 92,
             resolution |-> 12, dma |-> TRUE, handled |-> TRUE]
Pair(two, three) == [a \in Adcs |-> IF a = 2 THEN two ELSE three]
AdcPairs ==
    {Pair(Plain, Internal),
     Pair(Plain, [Plain EXCEPT !.channels = <<3, 1>>, !.handled = FALSE]),
     Pair([Plain EXCEPT !.divider = 6], [Plain EXCEPT !.dma = FALSE]),
     Pair([Plain EXCEPT !.sampling = 800], [Internal EXCEPT !.channels = <<20>>])}
=============================================================================
