------------------------------ MODULE CanTiming ------------------------------
(***************************************************************************)
(* uni_hal_can_timing_calc and uni_hal_can_timing_calc_data: the search    *)
(* for a bit timing, against what "the best exact setting" means.          *)
(***************************************************************************)
EXTENDS Integers

CONSTANTS
    Clocks,     \* clock rates tried
    Bitrates    \* bit rates tried

ASSUME TimingAssumption == Clocks \subseteq Nat /\ Bitrates \subseteq Nat

VARIABLES clock, bitrate, limits, quanta, best_error, timing

timingVars == <<clock, bitrate, limits, quanta, best_error, timing>>

Nominal == [quanta_min |-> 8, quanta_max |-> 25, prescaler_max |-> 1024, bs1_max |-> 16,
            bs2_max |-> 8, sample_point |-> 875, sjw_max |-> 1]
DataPhase == [quanta_min |-> 5, quanta_max |-> 25, prescaler_max |-> 32, bs1_max |-> 32,
              bs2_max |-> 16, sample_point |-> 800, sjw_max |-> 16]

NoTiming == [prescaler |-> 0, bs1 |-> 0, bs2 |-> 0, sjw |-> 0]
Worst == 1000000        \* UINT32_MAX

TimingInit ==
    /\ clock \in Clocks /\ bitrate \in Bitrates /\ limits \in {Nominal, DataPhase}
    /\ quanta = limits.quanta_max
    /\ best_error = Worst /\ timing = NoTiming

Distance(x, y) == IF x > y THEN x - y ELSE y - x
SamplePoint(b1, q) == ((1 + b1) * 1000) \div q
Smaller(x, y) == IF x < y THEN x ELSE y

TicksPerBit == clock \div bitrate

Tried == bitrate # 0 /\ clock # 0 /\ clock % bitrate = 0

\* bs1 for a number of quanta; bs2 is what is left.
Bs1(q) ==
    LET wanted == Smaller((q * limits.sample_point + 500) \div 1000 - 1, limits.bs1_max)
    IN  IF q - 1 - wanted < 1 THEN q - 2 ELSE wanted

Fits(q) ==
    /\ TicksPerBit % q = 0
    /\ TicksPerBit \div q \in 1..limits.prescaler_max
    /\ Bs1(q) \in 1..limits.bs1_max /\ q - 1 - Bs1(q) <= limits.bs2_max

NotWorse(error) == error <= best_error      \* mutant: the last of equal settings

Better(error) == error < best_error

(* One turn of the loop: an exact setting that beats the best so far.       *)
TryQuanta ==
    /\ Tried /\ quanta >= limits.quanta_min
    /\ LET b1 == Bs1(quanta)  b2 == quanta - 1 - b1
           error == Distance(SamplePoint(b1, quanta), limits.sample_point)
       IN  IF Fits(quanta) /\ Better(error)
           THEN /\ best_error' = error
                /\ timing' = [prescaler |-> TicksPerBit \div quanta, bs1 |-> b1, bs2 |-> b2,
                              sjw |-> Smaller(b2, limits.sjw_max)]
           ELSE UNCHANGED <<best_error, timing>>
    /\ quanta' = quanta - 1
    /\ UNCHANGED <<clock, bitrate, limits>>

TimingNext == TryQuanta

-----------------------------------------------------------------------------
\* Every setting of the peripheral that gives exactly the bit rate.
Exact ==
    {t \in (1..limits.bs1_max) \X (1..limits.bs2_max) :
        LET q == 1 + t[1] + t[2] IN
        /\ q \in limits.quanta_min..limits.quanta_max
        /\ clock % (bitrate * q) = 0 /\ clock \div (bitrate * q) \in 1..limits.prescaler_max}

(* The search returns a setting when there is one, and none of the others   *)
(* is closer to the wanted sample point, or as close with more quanta; the  *)
(* jump width never exceeds the second segment.                             *)
TimingBest ==
    (~Tried \/ quanta < limits.quanta_min) =>
        IF timing = NoTiming THEN ~Tried \/ Exact = {}
        ELSE LET mine == <<timing.bs1, timing.bs2>>
                 q == 1 + timing.bs1 + timing.bs2
                 Error(t) == Distance(SamplePoint(t[1], 1 + t[1] + t[2]), limits.sample_point)
             IN  /\ mine \in Exact /\ clock = bitrate * q * timing.prescaler
                 /\ timing.sjw \in 1..timing.bs2
                 /\ \A t \in Exact :
                        Error(t) > Error(mine) \/ (Error(t) = Error(mine) /\ 1 + t[1] + t[2] <= q)
=============================================================================
