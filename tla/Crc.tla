---------------------------------- MODULE Crc ----------------------------------
(***************************************************************************)
(* The CRC drivers: one unit for all contexts. A CRC is a function of the  *)
(* polynomial, the initial value and the bytes in the order they were fed, *)
(* so the data register is kept as those: a value of two units is the same *)
(* when they are. Data are sequences of bytes, each a number of its own.   *)
(***************************************************************************)
EXTENDS Integers, Sequences, SequencesExt

CONSTANTS
    CrcContexts,    \* uni_hal_crc_context_t of the application
    OtherInitial,   \* an initial value of uni_hal_crc_reset_ex
    MaxData,        \* bound: bytes of a call
    MaxCrcCalls     \* bound: calls

VARIABLES
    crc_chip, crc_clock, crc_initialized,
    POL,            \* polynomial and its size
    DR,             \* initial value and the bytes since
    message,        \* history: the context that has used the unit alone, and what for
    byte, crc_calls

crcVars == <<crc_chip, crc_clock, crc_initialized, POL, DR, message, byte, crc_calls>>

NoPol == [coef |-> "reset", size |-> 32]

ASSUME CrcAssumption == MaxData \in Nat /\ MaxCrcCalls \in Nat /\ NoPol \notin CrcContexts

Nobody == [ctx |-> NoPol, initial |-> "reset", data |-> <<>>]

CrcInit ==
    /\ crc_chip \in {"h7", "l4"} /\ crc_clock = FALSE /\ crc_initialized = {}
    /\ POL = NoPol /\ DR = [initial |-> "reset", fed |-> <<>>]
    /\ message = Nobody /\ byte = 0 /\ crc_calls = 0

\* _uni_hal_crc_get_polysize
PolySize(size) == IF size \in {7, 8, 16} THEN size ELSE 32

PolOf(c) == [coef |-> c.coef, size |-> PolySize(c.size)]

-----------------------------------------------------------------------------
(* Registers take words: sequences of bytes, the most significant first. A  *)
(* load reverses the bytes of memory, a join by shifts keeps their order.   *)
Load32(bytes)   == Reverse(bytes)
Join(bytes)     == bytes
Unswapped(word) == word         \* mutant: the word as it was loaded
Swap32(word)    == Reverse(word)

\* The words that uni_hal_crc_append feeds for data at an address.
WordsH7(data, aligned) ==
    LET n == Len(data) \div 4
        Word(i) == SubSeq(data, 4 * i - 3, 4 * i)
        tail == SubSeq(data, 4 * n + 1, Len(data))
    IN  [i \in 1..n |-> IF aligned THEN Swap32(Load32(Word(i))) ELSE Join(Word(i))]
        \o (CASE Len(tail) = 1 -> <<Join(tail)>>
              [] Len(tail) = 2 -> <<Join(tail)>>
              [] Len(tail) = 3 -> <<Join(SubSeq(tail, 1, 2)), Join(SubSeq(tail, 3, 3))>>
              [] OTHER -> <<>>)

WordsL4(data) == [i \in 1..Len(data) |-> <<data[i]>>]

Fed(data, aligned) ==
    FlattenSeq(IF crc_chip = "h7" THEN WordsH7(data, aligned) ELSE WordsL4(data))

\* uni_hal_crc_get_value: the size of the context decides how much is read.
GetValue(c) ==
    IF c \notin crc_initialized \/ c.size \notin {7, 8, 16, 32} THEN [width |-> 0]
    ELSE [width |-> c.size, pol |-> POL, initial |-> DR.initial, fed |-> DR.fed]

-----------------------------------------------------------------------------
CrcCall == crc_calls < MaxCrcCalls /\ crc_calls' = crc_calls + 1 /\ UNCHANGED crc_chip

\* uni_hal_rcc_clk_set of the STM32L4 refuses a clock that is on already.
ClockTaken == crc_chip = "h7" \/ ~crc_clock

Load(initial) == DR' = [initial |-> initial, fed |-> <<>>]
Owned(c, initial, data) ==
    message' = IF POL' = PolOf(c) THEN [ctx |-> c, initial |-> initial, data |-> data] ELSE Nobody

InitCrc(c) ==
    /\ CrcCall /\ crc_clock' = TRUE /\ UNCHANGED byte
    /\ IF ClockTaken
       THEN /\ crc_initialized' = crc_initialized \cup {c} /\ POL' = PolOf(c)
            /\ Load(c.initial) /\ Owned(c, c.initial, <<>>)
       ELSE UNCHANGED <<crc_initialized, POL, DR, message>>

ResetCrcEx(c, initial) ==
    /\ c \in crc_initialized /\ CrcCall
    /\ Load(initial) /\ UNCHANGED <<crc_clock, crc_initialized, POL, byte>>
    /\ Owned(c, initial, <<>>)

ResetCrc(c) == ResetCrcEx(c, c.initial)

Data(n) == [i \in 1..n |-> byte + i]

AppendData(c, n, aligned) ==
    /\ c \in crc_initialized /\ CrcCall /\ byte' = byte + n
    /\ DR' = [DR EXCEPT !.fed = @ \o Fed(Data(n), aligned)]
    /\ message' = IF message.ctx = c THEN [message EXCEPT !.data = @ \o Data(n)] ELSE Nobody
    /\ UNCHANGED <<crc_clock, crc_initialized, POL>>

CalculateEx(c, initial, n, aligned) ==
    /\ c \in crc_initialized /\ CrcCall /\ byte' = byte + n
    /\ DR' = [initial |-> initial, fed |-> Fed(Data(n), aligned)]
    /\ UNCHANGED <<crc_clock, crc_initialized, POL>>
    /\ Owned(c, initial, Data(n))

Calculate(c, n, aligned) == CalculateEx(c, c.initial, n, aligned)

CrcNext ==
    \E c \in CrcContexts :
        \/ InitCrc(c) \/ ResetCrc(c) \/ ResetCrcEx(c, OtherInitial)
        \/ \E n \in 0..MaxData, aligned \in BOOLEAN :
            \/ AppendData(c, n, aligned)
            \/ Calculate(c, n, aligned) \/ CalculateEx(c, OtherInitial, n, aligned)

-----------------------------------------------------------------------------
(* The value a context reads while no other one has used the unit is the    *)
(* CRC of its polynomial over the bytes it appended, however they were cut  *)
(* and aligned and whichever driver fed them.                               *)
CrcSame ==
    LET c == message.ctx
    IN  message # Nobody /\ c.size \in {7, 8, 16, 32} =>
            GetValue(c) = [width |-> c.size, pol |-> [coef |-> c.coef, size |-> c.size],
                           initial |-> message.initial, fed |-> message.data]
=============================================================================
