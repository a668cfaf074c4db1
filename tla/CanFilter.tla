------------------------------ MODULE CanFilter ------------------------------
(***************************************************************************)
(* uni_hal_can_set_filter of both CAN drivers, one register write at a     *)
(* time while frames arrive. A filter comes in the layout of the bxCAN     *)
(* filter registers. The STM32L4 has these; the STM32H7 translates to a    *)
(* standard and an extended filter element.                                *)
(***************************************************************************)
EXTENDS Integers

CONSTANTS
    Banks,          \* filter banks of an instance (the code: 14)
    Ids, Masks,     \* filter words tried: sets of the bits that are 1
    MaxSets         \* bound: calls

\* The bits of a word: "s" of the standard identifier (31:21), "l" of the low
\* part of an extended one (20:3), "i" is IDE, "r" RTR.
WordBits == {"s", "l", "i", "r"}

ASSUME FilterAssumption ==
    /\ Banks \in Nat \ {0} /\ MaxSets \in Nat
    /\ Ids \subseteq SUBSET WordBits /\ Masks \subseteq SUBSET WordBits

VARIABLES
    fl_h7,
    std, ext_id, ext_mask,      \* H7: the elements of each bank, None when off
    fr, active, finit,          \* L4: FR1, FR2 and FFA of the banks, FA1R, FINIT
    fl_pc, fl_arg,              \* the call under way
    was, set,                   \* history: filters of each bank before it and last set
    sets

filterVars == <<fl_h7, std, ext_id, ext_mask, fr, active, finit, fl_pc, fl_arg,
                was, set, sets>>

Keys == {1, 2} \X (0..(Banks - 1))      \* <<instance, bank of it>>
None == [off |-> TRUE]

FilterInit ==
    /\ fl_h7 \in BOOLEAN
    /\ std = [k \in Keys |-> None] /\ ext_id = std /\ ext_mask = [k \in Keys |-> {}]
    /\ fr = std /\ active = {} /\ finit = FALSE
    /\ fl_pc = "idle" /\ fl_arg = None
    /\ was = std /\ set = std /\ sets = 0

-----------------------------------------------------------------------------
(* What a filter means. bxCAN compares the bits the mask has with the word  *)
(* of a frame, in which a standard frame has zeros for the bits it lacks.   *)
Frames == {w \in SUBSET WordBits : "l" \in w => "i" \in w}

Equal(w, id, mask) == ((w \cup id) \ (w \cap id)) \cap mask = {}

BxMatch(f, w) == f # None /\ Equal(w, f.id, f.mask)

\* What the elements of FDCAN let through; they do not look at RTR.
FdMatch(k, w) ==
    IF "i" \in w
    THEN ext_id[k] # None /\ Equal(w, ext_id[k].id, ext_mask[k] \cap {"s", "l"})
    ELSE std[k] # None /\ Equal(w, std[k].id, std[k].mask \cap {"s"})

\* The FIFO a frame gets to through a bank, or -1.
Passes(k, w) ==
    IF fl_h7
    THEN IF ~FdMatch(k, w) THEN -1
         ELSE IF "i" \in w THEN ext_id[k].fifo ELSE std[k].fifo
    ELSE IF finit \/ k \notin active \/ ~BxMatch(fr[k], w) THEN -1 ELSE fr[k].fifo

Means(f, w) ==
    IF f # None /\ BxMatch([f EXCEPT !.mask = IF fl_h7 THEN @ \ {"r"} ELSE @], w)
    THEN f.fifo ELSE -1

-----------------------------------------------------------------------------
(* The call: slot numbers as bxCAN has them, those of CAN2 from Banks on;   *)
(* the STM32H7 takes CAN2's also from 0.                                    *)
Bank(c, slot) ==
    IF fl_h7 THEN <<c, IF c = 2 /\ slot >= Banks THEN slot - Banks ELSE slot>>
    ELSE <<IF slot >= Banks THEN 2 ELSE 1, slot % Banks>>

Accepted(c, slot) == LET k == Bank(c, slot) IN k \in Keys /\ k[1] = c

CallStep(pc) == fl_pc' = pc /\ UNCHANGED <<fl_h7, fl_arg, was, set, sets>>

SetFilter(c, slot, fifo, id, mask) ==
    /\ fl_pc = "idle" /\ sets < MaxSets
    /\ Accepted(c, slot)
    /\ LET k == Bank(c, slot) IN
       /\ fl_arg' = [key |-> k, id |-> id, mask |-> mask, fifo |-> fifo]
       /\ was' = set
       /\ set' = [set EXCEPT ![k] = [id |-> id, mask |-> mask, fifo |-> fifo]]
    /\ sets' = sets + 1 /\ fl_pc' = "out"
    /\ UNCHANGED <<fl_h7, std, ext_id, ext_mask, fr, active, finit>>

l4Regs == <<fr, active, finit>>
h7Regs == <<std, ext_id, ext_mask>>

\* FDCAN: both elements out of use, one write each.
DisableStd ==
    /\ fl_h7 /\ fl_pc = "out" /\ CallStep("out ext")
    /\ std' = [std EXCEPT ![fl_arg.key] = None]
    /\ UNCHANGED <<ext_id, ext_mask, l4Regs>>

LeftInUse(k) == ext_id      \* mutant: the old element stays in use meanwhile

ExtDisabled(k) == [ext_id EXCEPT ![k] = None]

DisableExt ==
    /\ fl_pc = "out ext" /\ CallStep("std")
    /\ ext_id' = ExtDisabled(fl_arg.key)
    /\ UNCHANGED <<std, ext_mask, l4Regs>>

IdeMatters == "i" \in fl_arg.mask
IdeExtended == "i" \in fl_arg.id
WantStandard == (IdeMatters => ~IdeExtended) /\ "l" \notin fl_arg.id \cap fl_arg.mask
WantExtended == IdeMatters => IdeExtended

SetStd ==
    /\ fl_pc = "std" /\ CallStep(IF WantExtended THEN "ext mask" ELSE "idle")
    /\ std' = IF WantStandard
              THEN [std EXCEPT ![fl_arg.key] =
                        [fifo |-> fl_arg.fifo, id |-> fl_arg.id, mask |-> fl_arg.mask]]
              ELSE std
    /\ UNCHANGED <<ext_id, ext_mask, l4Regs>>

SetExtMask ==
    /\ fl_pc = "ext mask" /\ CallStep("ext")
    /\ ext_mask' = [ext_mask EXCEPT ![fl_arg.key] = fl_arg.mask]
    /\ UNCHANGED <<std, ext_id, l4Regs>>

SetExt ==
    /\ fl_pc = "ext" /\ CallStep("idle")
    /\ ext_id' = [ext_id EXCEPT ![fl_arg.key] = [fifo |-> fl_arg.fifo, id |-> fl_arg.id]]
    /\ UNCHANGED <<std, ext_mask, l4Regs>>

\* bxCAN: filter initialisation mode, in which nothing is received; the bank
\* is set up while it is inactive.
EnterFinit ==
    /\ ~fl_h7 /\ fl_pc = "out" /\ CallStep("deactivate")
    /\ finit' = TRUE /\ UNCHANGED <<fr, active, h7Regs>>

Deactivate ==
    /\ fl_pc = "deactivate" /\ CallStep("words")
    /\ active' = active \ {fl_arg.key} /\ UNCHANGED <<fr, finit, h7Regs>>

SetWords ==
    /\ fl_pc = "words" /\ CallStep("activate")
    /\ fr' = [fr EXCEPT ![fl_arg.key] =
                  [id |-> fl_arg.id, mask |-> fl_arg.mask, fifo |-> fl_arg.fifo]]
    /\ UNCHANGED <<active, finit, h7Regs>>

Activate ==
    /\ fl_pc = "activate" /\ CallStep("leave")
    /\ active' = active \cup {fl_arg.key} /\ UNCHANGED <<fr, finit, h7Regs>>

LeaveFinit ==
    /\ fl_pc = "leave" /\ CallStep("idle")
    /\ finit' = FALSE /\ UNCHANGED <<fr, active, h7Regs>>

FilterNext ==
    \/ \E c \in {1, 2}, slot \in 0..(2 * Banks - 1), fifo \in {0, 1}, id \in Ids, mask \in Masks :
           SetFilter(c, slot, fifo, id, mask)
    \/ DisableStd \/ DisableExt \/ SetStd \/ SetExtMask \/ SetExt
    \/ EnterFinit \/ Deactivate \/ SetWords \/ Activate \/ LeaveFinit

-----------------------------------------------------------------------------
(* Between calls every bank of both drivers lets through exactly what its   *)
(* filter means on bxCAN (but for RTR on the STM32H7), into its FIFO. While *)
(* a bank changes it lets nothing through that neither the old nor the new  *)
(* filter would, and no other bank anything new.                            *)
FilterExact ==
    \A k \in Keys, w \in Frames :
        IF fl_pc = "idle" THEN Passes(k, w) = Means(set[k], w)
        ELSE Passes(k, w) \in {-1, Means(was[k], w), Means(set[k], w)}
=============================================================================
