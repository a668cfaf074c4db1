-------------------------------- MODULE Flash --------------------------------
(***************************************************************************)
(* The flash driver of the STM32H7: two banks of sectors, a sector of two  *)
(* flash words. Sectors are erased by interrupt, with a timeout after      *)
(* which the erase goes on without the driver; ranges are erased, words    *)
(* programmed and banks swapped by polling. One task calls.                *)
(***************************************************************************)
EXTENDS Integers, FiniteSets

CONSTANTS
    SectorTotal,    \* FLASH_SECTOR_TOTAL: sectors of a bank
    Ranges,         \* address ranges <<addr, size>> that are erased and written
    MaxFlashCalls   \* bound: calls

ASSUME FlashAssumption ==
    SectorTotal \in Nat \ {0} /\ MaxFlashCalls \in Nat /\ Ranges \subseteq Nat \X Nat

(* Addresses count units of 16 bytes from FLASH_BASE, two to a flash word.  *)
WordSize == 2
SectorSize == 4
BankSize == SectorTotal * SectorSize
FlashEnd == 2 * BankSize - 1
Banks2 == {0, 1}
FlashWords == 0..((2 * BankSize) \div WordSize - 1)
FlashSectors == Banks2 \X (0..SectorTotal - 1)
BankBase(bank) == bank * BankSize
WordsOf(units) == {u \div WordSize : u \in units}
SectorWords(s) ==
    LET first == BankBase(s[1]) + s[2] * SectorSize IN WordsOf(first..(first + SectorSize - 1))

VARIABLES
    content,        \* of each flash word: "erased", "data" or "torn"
    flash_ready,    \* uni_hal_flash_init was called
    flash_step,     \* where the erase by interrupt is
    target,         \* its sector, and the ones erase_bank has left
    left, all_erased,
    flash_op_done, flash_op_failed,
    hal_busy,       \* the lock of the HAL, held by an erase by interrupt
    operation,      \* sector the hardware erases for it, or none
    claim,          \* of the last call: words, their content, and whether it was told
    before_call, may_change,    \* content at that call, and the words it may change
    raced,          \* history: a late end came between done_clear and Erase_IT
    flash_calls

flashVars == <<content, flash_ready, flash_step, target, left, all_erased, flash_op_done,
               flash_op_failed, hal_busy, operation, claim, before_call, may_change, raced,
               flash_calls>>
eraseVars == <<target, left, all_erased>>
signalVars == <<flash_op_done, flash_op_failed>>
callVars == <<before_call, may_change>>

NoSector == <<2, 0>>
Erased(words, told) == [words |-> words, are |-> "erased", told |-> told]
Nothing == Erased({}, FALSE)

FlashInit ==
    /\ content = [w \in FlashWords |-> "data"]
    /\ flash_ready = FALSE /\ flash_step = "idle"
    /\ target = NoSector /\ left = {} /\ all_erased = FALSE
    /\ flash_op_done = FALSE /\ flash_op_failed = FALSE
    /\ hal_busy = FALSE /\ operation = NoSector
    /\ claim = Nothing /\ before_call = content /\ may_change = {}
    /\ raced = FALSE /\ flash_calls = 0

FlashCall(words) ==
    /\ flash_step = "idle" /\ flash_calls < MaxFlashCalls
    /\ flash_calls' = flash_calls + 1 /\ raced' = FALSE
    /\ before_call' = content
    /\ may_change' = words \cup (IF hal_busy THEN SectorWords(operation) ELSE {})

InitFlash ==
    /\ FlashCall({})
    /\ flash_ready' = TRUE /\ claim' = Nothing
    /\ flash_op_done' = FALSE
    /\ UNCHANGED <<content, flash_step, eraseVars, flash_op_failed, hal_busy, operation>>

-----------------------------------------------------------------------------
(* uni_hal_flash_erase_sector and uni_hal_flash_erase_bank.                 *)
EraseSectors(bank, numbers) ==
    /\ LET words == UNION {SectorWords(<<bank, n>>) : n \in numbers}
       IN  FlashCall(words) /\ claim' = Erased(words, FALSE)
    /\ IF flash_ready
       THEN /\ flash_step' = "clear"
            /\ \E n \in numbers :
                   /\ \A m \in numbers : n <= m
                   /\ target' = <<bank, n>> /\ left' = numbers \ {n}
            /\ all_erased' = TRUE
       ELSE UNCHANGED <<flash_step, eraseVars>>
    /\ UNCHANGED <<content, flash_ready, signalVars, hal_busy, operation>>

EraseSector(s) == EraseSectors(s[1], {s[2]})
EraseBank(bank) == EraseSectors(bank, 0..SectorTotal - 1)

KeptLeftOver == UNCHANGED flash_op_done     \* mutant: a completion left over is kept

DoneClear == flash_op_done' = FALSE

EraseClear ==
    /\ flash_step = "clear"
    /\ DoneClear /\ flash_op_failed' = FALSE
    /\ flash_step' = "start"
    /\ UNCHANGED <<content, flash_ready, eraseVars, hal_busy, operation, claim, callVars, raced,
                   flash_calls>>

\* HAL_FLASHEx_Erase_IT refuses while an erase by interrupt holds its lock.
EraseStart ==
    /\ flash_step = "start"
    /\ \/ /\ ~hal_busy
          /\ hal_busy' = TRUE /\ operation' = target /\ flash_step' = "wait"
          /\ UNCHANGED all_erased
       \/ /\ flash_step' = "lock" /\ all_erased' = FALSE
          /\ UNCHANGED <<hal_busy, operation>>
    /\ UNCHANGED <<content, flash_ready, target, left, signalVars, claim, callVars, raced,
                   flash_calls>>

EraseDone ==
    /\ flash_step = "wait" /\ flash_op_done
    /\ flash_op_done' = FALSE
    /\ all_erased' = (all_erased /\ ~flash_op_failed)
    /\ flash_step' = "lock"
    /\ UNCHANGED <<content, flash_ready, target, left, flash_op_failed, hal_busy, operation,
                   claim, callVars, raced, flash_calls>>

EraseTimeout ==
    /\ flash_step = "wait" /\ ~flash_op_done
    /\ all_erased' = FALSE /\ flash_step' = "lock"
    /\ UNCHANGED <<content, flash_ready, target, left, signalVars, hal_busy, operation, claim,
                   callVars, raced, flash_calls>>

EraseNext ==
    /\ flash_step = "lock" /\ left # {}
    /\ \E n \in left : (\A m \in left : n <= m) /\ target' = <<target[1], n>> /\ left' = left \ {n}
    /\ flash_step' = "clear"
    /\ UNCHANGED <<content, flash_ready, all_erased, signalVars, hal_busy, operation, claim,
                   callVars, raced, flash_calls>>

EraseReturn ==
    /\ flash_step = "lock" /\ left = {}
    /\ flash_step' = "idle"
    /\ claim' = [claim EXCEPT !.told = all_erased]
    /\ UNCHANGED <<content, flash_ready, eraseVars, signalVars, hal_busy, operation, callVars,
                   raced, flash_calls>>

-----------------------------------------------------------------------------
(* FLASH_IRQHandler: the HAL ends the operation and calls back.             *)
OperationEnds(failed) ==
    /\ operation # NoSector
    /\ \E torn \in BOOLEAN :
           /\ torn => failed
           /\ content' = [w \in FlashWords |->
                  IF w \notin SectorWords(operation) THEN content[w]
                  ELSE IF ~failed THEN "erased" ELSE IF torn THEN "torn" ELSE content[w]]
    /\ operation' = NoSector /\ hal_busy' = FALSE
    /\ flash_op_done' = TRUE /\ flash_op_failed' = (flash_op_failed \/ failed)
    /\ raced' = (raced \/ flash_step = "start")
    /\ UNCHANGED <<flash_ready, flash_step, eraseVars, claim, callVars, flash_calls>>

-----------------------------------------------------------------------------
(* uni_hal_flash_erase: the sectors of an address range of one bank.        *)
Touched(addr, size) ==
    {w \in FlashWords : \E s \in FlashSectors :
         w \in SectorWords(s) /\ SectorWords(s) \cap WordsOf(addr..(addr + size - 1)) # {}}

EraseCount(offset, size) == ((offset + size - 1) \div SectorSize) - offset \div SectorSize + 1
EraseOffset(addr) == addr - (IF addr < BankSize THEN 0 ELSE BankSize)

EraseAccepted(addr, size) ==
    size # 0 /\ addr <= FlashEnd /\ size <= BankSize - EraseOffset(addr) /\ ~hal_busy

\* The HAL erases the sectors one after the other and stops at the first that fails.
EraseRange(addr, size) ==
    /\ FlashCall(Touched(addr, size))
    /\ LET bank == IF addr < BankSize THEN 0 ELSE 1
           first == EraseOffset(addr) \div SectorSize
           count == EraseCount(EraseOffset(addr), size)
       IN  \E n \in 0..count, torn \in BOOLEAN :
               /\ EraseAccepted(addr, size) \/ (n = 0 /\ ~torn)
               /\ torn => n < count
               /\ content' = [w \in FlashWords |->
                      IF \E i \in 0..n - 1 : w \in SectorWords(<<bank, first + i>>) THEN "erased"
                      ELSE IF torn /\ w \in SectorWords(<<bank, first + n>>) THEN "torn"
                      ELSE content[w]]
               /\ claim' = Erased(Touched(addr, size), EraseAccepted(addr, size) /\ n = count)
    /\ UNCHANGED <<flash_ready, flash_step, eraseVars, signalVars, hal_busy, operation>>

(* uni_hal_flash_write, of words the caller has erased: it stops at the     *)
(* first that fails, and returns how many bytes are written.                *)
WriteAccepted(addr, size) ==
    /\ size # 0 /\ size % WordSize = 0 /\ addr % WordSize = 0
    /\ addr < FlashEnd /\ size <= FlashEnd - addr + 1
    /\ ~hal_busy

FlashWrite(addr, size) ==
    /\ \A w \in WordsOf(addr..(addr + size - 1)) \cap FlashWords : content[w] = "erased"
    /\ FlashCall(WordsOf(addr..(addr + size - 1)))
    /\ \E n \in 0..(size \div WordSize), torn \in BOOLEAN :
           LET first == addr \div WordSize IN
           /\ WriteAccepted(addr, size) \/ (n = 0 /\ ~torn)
           /\ torn => n < size \div WordSize
           /\ content' = [w \in FlashWords |->
                  IF w \in first..(first + n - 1) THEN "data"
                  ELSE IF torn /\ w = first + n THEN "torn" ELSE content[w]]
           /\ claim' = [words |-> WordsOf(addr..(addr + n * WordSize - 1)), are |-> "data",
                      told |-> TRUE]
    /\ UNCHANGED <<flash_ready, flash_step, eraseVars, signalVars, hal_busy, operation>>

-----------------------------------------------------------------------------
(* A reset, which tears the sector that is being erased.                    *)
Restarted ==
    /\ flash_ready' = FALSE /\ flash_step' = "idle"
    /\ target' = NoSector /\ left' = {} /\ all_erased' = FALSE
    /\ flash_op_done' = FALSE /\ flash_op_failed' = FALSE
    /\ hal_busy' = FALSE /\ operation' = NoSector
    /\ claim' = Nothing /\ may_change' = FlashWords /\ raced' = FALSE

FlashReset ==
    /\ flash_ready
    /\ content' = [w \in FlashWords |->
           IF operation # NoSector /\ w \in SectorWords(operation) THEN "torn" ELSE content[w]]
    /\ Restarted
    /\ UNCHANGED <<before_call, flash_calls>>

Swapped(w) == (w + BankSize \div WordSize) % ((2 * BankSize) \div WordSize)

\* uni_hal_flash_swap_banks: it resets when the option bytes are programmed.
SwapBanks ==
    /\ FlashCall(FlashWords)
    /\ \/ /\ ~hal_busy
          /\ content' = [w \in FlashWords |-> content[Swapped(w)]]
          /\ flash_ready' = FALSE /\ flash_op_done' = FALSE /\ flash_op_failed' = FALSE
       \/ UNCHANGED <<content, flash_ready, signalVars>>
    /\ claim' = Nothing
    /\ UNCHANGED <<flash_step, eraseVars, hal_busy, operation>>

FlashNext ==
    \/ InitFlash
    \/ \E s \in FlashSectors : EraseSector(s)
    \/ \E bank \in Banks2 : EraseBank(bank)
    \/ EraseClear \/ EraseStart \/ EraseDone \/ EraseTimeout \/ EraseNext \/ EraseReturn
    \/ \E failed \in BOOLEAN : OperationEnds(failed)
    \/ \E r \in Ranges : EraseRange(r[1], r[2]) \/ FlashWrite(r[1], r[2])
    \/ FlashReset \/ SwapBanks

-----------------------------------------------------------------------------
(* When a call returns, what it tells is true of the flash: every sector    *)
(* that an accepted range or bank touches is erased, every byte counted as  *)
(* written holds its data, and no word outside of what was asked for has    *)
(* changed, whatever timed out, failed or was reset before. Left out is an  *)
(* erase before whose start the end of one that had timed out comes in      *)
(* after the semaphore was cleared: it is taken for its own.                *)
FlashTold ==
    flash_step = "idle" =>
        /\ claim.told /\ ~raced => \A w \in claim.words : content[w] = claim.are
        /\ \A w \in FlashWords \ may_change : content[w] = before_call[w]
=============================================================================
