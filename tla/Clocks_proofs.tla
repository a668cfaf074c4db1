---------------------------- MODULE Clocks_proofs ----------------------------
(***************************************************************************)
(* Proofs about the clocks: the clock tree of uni_hal_rcc_init and of the  *)
(* clock security system, the clocks of the peripherals, and the backup    *)
(* domain, which keeps its clock over a reset. The three share no state.   *)
(* Each part has an inductive invariant, the lemmas it needs, and the      *)
(* theorems that state the component's properties for every value of the   *)
(* constants.                                                              *)
(***************************************************************************)
EXTENDS Clocks, PeriphClock, Backup, FiniteSetTheorems, TLAPS

------------------------------------------------------------------------------
(***************************************************************************)
(* Clocks: PLLs, wait states and system clock, set by a call and the NMI.  *)
(***************************************************************************)
(* Where a call, or the handler, can be. *)
Steps == {"idle", "hse", "csi", "hsi", "pll", "disable", "off", "source", "plls", "lock",
          "pllend", "sys", "latency", "switch", "wait", "adjust", "end"}

(* The cases FlashCovers is about: no failure of the crystal within a call or before   *)
(* PLL1 is the system clock, and on the STM32L4 an M that an internal source can have. *)
Fine == hit # "other" /\ (chip = "l4" => Portable)

(* The values of the variables; the handler starts no oscillators. *)
ClockTypes ==
    /\ TypeOK /\ pc \in [Callers -> Steps]
    /\ pc["nmi"] \notin {"hse", "csi", "hsi"}
    /\ chip = "h7" => vos \in {0, 1, 3} /\ level \in {0, 1, 3}
    /\ chip = "l4" => level = vos

(* The crystal fails once: nothing watches it afterwards. It is watched, and the task is *)
(* busy, only from the first call on.                                                    *)
FailsOnce ==
    /\ hit # "no" => ~css /\ ~hse_enable
    /\ pc["nmi"] # "idle" => hit # "no"
    /\ pc["task"] # "idle" \/ css \/ hit # "no" => calls # 0

(* A PLL that is on runs from the source its divider was written for, and is not reset *)
(* while it is the system clock.                                                       *)
PllKnown ==
    /\ pc["task"] = "idle" \/ pc["nmi"] = "idle"
    /\ \A i \in Plls : pll[i] # "off" => div[i] = pllsrc
    /\ sw = "pll" => pll[1] # "off"
    /\ chip = "h7" => \A c \in Callers : /\ pc[c] \in {"plls", "lock"} => pllsrc = loc[c].src
                                         /\ pc[c] = "source" => AllOff

(* PLL1 is reported and on. *)
ReadyPll == 1 \in st_pll /\ pll[1] # "off"

(* A PLL1 that is chosen as the system clock is on: the task comes as far only with all *)
(* its PLLs up, and the handler starts with none reported.                              *)
PllReported ==
    /\ chip = "h7" =>
          /\ pc["task"] \in {"plls", "lock"} /\ loc["task"].k # 1 /\ loc["task"].ok => ReadyPll
          /\ pc["task"] = "pllend" /\ loc["task"].ok => ReadyPll
          /\ pc["task"] = "sys" => ReadyPll
          /\ pc["task"] \in {"latency", "switch", "wait"} => loc["task"].src = "pll"
          /\ \A c \in Callers : pc[c] = "latency" /\ loc[c].src = "pll" => pll[1] # "off"
    /\ \A c \in Callers : pc[c] \in {"disable", "off", "source"} => loc[c].k = 1
    /\ pc["nmi"] \in {"pll", "disable", "off", "source"} => st_pll = {}
    /\ pc["nmi"] \in {"plls", "lock"} /\ loc["nmi"].k = 1 => st_pll = {}
    /\ pc["nmi"] \in {"plls", "lock", "pllend", "sys"} /\ 1 \in st_pll => pll[1] # "off"

(* Some row of a table covers the frequency with no more wait states than there are. *)
Enough(t, m, l) == \E i \in DOMAIN t : m <= t[i][1] /\ t[i][2] <= l

(* The present wait states are enough for a frequency. *)
LatOK(m) == Enough(LatencyTable, m, lat)

(* The wait states and the prescaler are there before the system clock is: as soon as   *)
(* PLL1 is asked for they are enough for it, and until the prescaler of the STM32H7 has *)
(* been set they are enough for HSI undivided, but for a slow PLL1 at VOS3.             *)
SpeedOK ==
    /\ sw = "pll" \/ want = "pll" => LatOK(cfg.mhz \div ahb)
    /\ chip = "h7" /\ ahb = 1 => sw = "hsi" /\ want = "hsi" /\ (LatOK(64) \/ SetEarly)
    /\ chip = "h7" /\ calls = 0 => ahb = 1 /\ lat = 7 /\ pc["task"] = "idle"
    /\ chip = "l4" => ahb = 1
    /\ \A c \in Callers :
          /\ pc[c] = "latency" => chip = "h7" /\ (loc[c].src = "pll" => cfg.mhz # 0)
          /\ chip = "h7" /\ pc[c] = "switch" /\ loc[c].src = "pll" => LatOK(cfg.mhz \div 2)
          /\ pc[c] = "wait" => want = loc[c].src
          /\ pc[c] = "adjust" => chip = "l4" /\ sw = want
    /\ chip = "l4" /\ pc["task"] \notin {"idle", "end"} => lat = 4
    /\ chip = "h7" /\ pc["nmi"] \notin {"idle", "wait", "end"} =>
          ahb = 2 /\ sw = "hsi" /\ want = "hsi"
    /\ chip = "l4" /\ pc["nmi"] \notin {"idle", "end"} => LatOK(cfg.mhz)

(* The frequencies of PLL1. *)
ConfigKnown == IF chip = "h7" THEN cfg.mhz \in H7Freqs ELSE cfg.mhz \in L4Freqs

(* What the assumption says of them. *)
LEMMA Frequencies ==
    ASSUME chip \in {"h7", "l4"}, ConfigKnown
    PROVE  /\ cfg.mhz \in Nat
           /\ chip = "h7" => cfg.mhz % 2 = 0
           /\ chip = "l4" => cfg.mhz <= 80
<1>1. CASE chip = "h7"
  <2>1. cfg.mhz \in H7Freqs
    BY <1>1 DEF ConfigKnown
  <2>2. cfg.mhz \in Nat /\ cfg.mhz % 2 = 0
    BY <2>1, ClocksAssumption
  <2>. QED  BY <1>1, <2>2
<1>2. CASE chip = "l4"
  <2>1. cfg.mhz \in 1..80
    BY <1>2, ClocksAssumption DEF ConfigKnown
  <2>. QED  BY <1>2, <2>1
<1>. QED  BY <1>1, <1>2

(* The frequency of a configuration is a number. *)
LEMMA ConfigNat == cfg \in Config => cfg.mhz \in Nat
<1>1. H7Freqs \cup L4Freqs \subseteq Nat
  BY ClocksAssumption
<1>2. cfg \in Config => cfg.mhz \in H7Freqs \cup L4Freqs
  BY DEF Config
<1>. QED  BY <1>1, <1>2

(* The inductive invariant of the wait states. *)
ClkInv ==
    /\ ClockTypes /\ FailsOnce /\ ConfigKnown
    /\ Fine => PllKnown /\ PllReported /\ SpeedOK

(* The cases StatusTrue is about: a failure of the crystal, if any, met a chip its first *)
(* call had set up.                                                                      *)
Steady == (hit = "no" \/ (hit = "system" /\ calls = 1)) /\ (chip = "l4" => Portable)

(* A PLL that is reported is locked. *)
Told == \A i \in st_pll : pll[i] = "locked"

(* When that is so: on the STM32L4 always, on the STM32H7 once the loop over the PLLs is *)
(* over, and within it for those it has passed.                                          *)
PllsTold ==
    /\ chip = "l4" => Told /\ \A c \in Callers : pc[c] \notin {"disable", "off", "source"}
    /\ chip = "h7" /\ (\/ inited \/ hit # "no"
                       \/ pc["task"] \in {"pllend", "sys", "latency", "switch", "wait"}
                       \/ pc["task"] = "end" /\ loc["task"].ok /\ st_sys) => Told
    /\ chip = "h7" /\ pc["task"] \in {"plls", "lock"} =>
           \A i \in st_pll : i < loc["task"].k => pll[i] = "locked"
    /\ pc["nmi"] \in {"pll", "disable", "off", "source"} => st_pll = {}

(* The system clock that belongs to what is reported. *)
Target == IF 1 \in st_pll THEN "pll" ELSE IF BestSource = "none" THEN "msi" ELSE BestSource

(* The first call has not succeeded. *)
Unready == \/ pc["task"] \notin {"idle", "end"}
           \/ pc["task"] = "idle" /\ ~inited
           \/ pc["task"] = "end" /\ ~loc["task"].ok

(* A system clock that is reported is that one: the report is made after the switch to  *)
(* what was chosen, and nothing that would choose another source is reported meanwhile. *)
SysTold ==
    /\ hit = "system" => pc["task"] = "idle"
    /\ chip = "h7" /\ pc["task"] # "idle" => ~inited
    /\ chip = "h7" /\ hit = "no" /\ Unready => ~st_sys
    /\ chip = "h7" /\ pc["task"] \in {"sys", "latency", "switch", "wait"} => loc["task"].ok
    /\ pc["nmi"] \notin {"idle", "end", "adjust"} => ~st_sys
    /\ st_sys /\ pc["task"] \in {"idle", "end", "adjust"} => want = Target
    /\ \A c \in Callers : pc[c] \in {"latency", "switch", "wait"} => loc[c].src = Target

(* The inductive invariant of the status. *)
StatInv == ClkInv /\ (Steady => PllsTold /\ SysTold)

(* A set of rows has a first row. *)
LEMMA MinIn ==
    ASSUME NEW S \in SUBSET (1..5), S # {}
    PROVE  Min(S) \in S /\ \A y \in S : Min(S) <= y
<1>1. \E x \in S : \A y \in S : x <= y
  <2>. DEFINE Least(n) == n \in S /\ \A y \in 1..(n - 1) : y \notin S
  <2>1. PICK x \in S : x \in 1..5
    OBVIOUS
  <2>2. Least(1) \/ Least(2) \/ Least(3) \/ Least(4) \/ Least(5)
    BY <2>1
  <2>. QED  BY <2>2
<1>. QED  BY <1>1 DEF Min

(* The tables have up to five rows of frequencies and wait states. *)
LEMMA TableShape ==
    ASSUME chip \in {"h7", "l4"}, vos \in 0..3
    PROVE  /\ DOMAIN LatencyTable \in SUBSET (1..5)
           /\ \A i \in DOMAIN LatencyTable :
                  LatencyTable[i][1] \in Nat /\ LatencyTable[i][2] \in 0..4
<1>1. chip = "l4" \/ (chip = "h7" /\ (vos <= 1 \/ vos = 2 \/ vos = 3))
  OBVIOUS
<1>. USE DEF LatencyTable, TableOf, VosIndex, H7Latency, L4Latency
<1>2. CASE chip = "l4"
  BY <1>2
<1>3. CASE chip = "h7" /\ vos <= 1
  BY <1>3
<1>4. CASE chip = "h7" /\ vos = 2
  BY <1>4
<1>5. CASE chip = "h7" /\ vos = 3
  BY <1>5
<1>. QED  BY <1>1, <1>2, <1>3, <1>4, <1>5

(* _uni_hal_flash_select_latency selects enough wait states when a row covers the *)
(* frequency at all.                                                              *)
LEMMA SelectedCovers ==
    ASSUME chip \in {"h7", "l4"}, vos \in 0..3, NEW m \in Nat, Rows(m) # {}
    PROVE  /\ SelectLatency(m) \in 0..4
           /\ Enough(LatencyTable, m, SelectLatency(m))
<1>1. Rows(m) \in SUBSET (1..5)
  BY TableShape DEF Rows
<1>2. Min(Rows(m)) \in Rows(m)
  BY <1>1, MinIn
<1>. DEFINE i == Min(Rows(m))
<1>3. i \in DOMAIN LatencyTable /\ m <= LatencyTable[i][1]
  BY <1>2 DEF Rows
<1>4. SelectLatency(m) = LatencyTable[i][2]
  BY DEF SelectLatency
<1>5. LatencyTable[i][2] \in 0..4
  BY <1>3, TableShape
<1>. HIDE DEF i
<1>. QED  BY <1>3, <1>4, <1>5 DEF Enough

(* What it selects for PLL1 of an STM32H7 is enough for HSI undivided, which still runs *)
(* until the prescaler is set, unless PLL1 is slow and the voltage low.                 *)
LEMMA EnoughFor64 ==
    ASSUME chip = "h7", vos \in {0, 1, 3}, NEW m \in Nat, Rows(m) # {}, vos = 3 => m > 45
    PROVE  Enough(LatencyTable, 64, SelectLatency(m))
<1>1. PICK i : i \in DOMAIN LatencyTable /\ m <= LatencyTable[i][1]
                 /\ LatencyTable[i][2] <= SelectLatency(m)
  BY SelectedCovers DEF Enough
<1>2. SelectLatency(m) \in 0..4
  BY SelectedCovers
<1>. USE DEF LatencyTable, TableOf, VosIndex, H7Latency
<1>3. CASE vos # 3
  BY <1>1, <1>2, <1>3 DEF Enough
<1>4. CASE vos = 3
  <2>1. 2 \in DOMAIN LatencyTable /\ 64 <= LatencyTable[2][1] /\ LatencyTable[2][2] = 1
    BY <1>4
  <2>2. SelectLatency(m) >= 1
    BY <1>1, <1>2, <1>4
  <2>. QED  BY <1>2, <2>1, <2>2 DEF Enough
<1>. QED  BY <1>3, <1>4

(* The divided internal oscillators need no wait states; 4 are enough on the STM32L4, and *)
(* the 7 of the reset are on the STM32H7.                                                 *)
LEMMA EnoughAlways ==
    ASSUME chip \in {"h7", "l4"}, vos \in 0..3
    PROVE  /\ \A m \in Nat, l \in Nat :
                  m <= (IF chip = "h7" THEN 45 ELSE 16) => Enough(LatencyTable, m, l)
           /\ chip = "l4" => \A m \in Nat : m <= 80 => Enough(LatencyTable, m, 4)
           /\ chip = "h7" => Enough(LatencyTable, 64, 7)
<1>. USE DEF Enough, LatencyTable, TableOf, VosIndex, H7Latency, L4Latency
<1>1. \A m \in Nat, l \in Nat :
          m <= (IF chip = "h7" THEN 45 ELSE 16) => Enough(LatencyTable, m, l)
  OBVIOUS
<1>2. chip = "l4" => \A m \in Nat : m <= 80 => Enough(LatencyTable, m, 4)
  OBVIOUS
<1>3. chip = "h7" => Enough(LatencyTable, 64, 7)
  OBVIOUS
<1>. QED  BY <1>1, <1>2, <1>3

(* At VOS1 the table of VOS0 is right but for its last row. *)
LEMMA EnoughAtVos1 ==
    ASSUME chip = "h7", NEW m \in Nat, NEW l \in Nat, m <= 225, Enough(TableOf(0), m, l)
    PROVE  Enough(TableOf(1), m, l)
<1>. USE DEF TableOf, H7Latency
<1>1. PICK i : i \in DOMAIN TableOf(0) /\ m <= TableOf(0)[i][1] /\ TableOf(0)[i][2] <= l
  BY DEF Enough
<1>2. i \in 1..5
  BY <1>1
<1>3. CASE i = 5
  BY <1>1, <1>3 DEF Enough
<1>4. CASE i # 5
  <2>1. i \in DOMAIN TableOf(1) /\ TableOf(1)[i] = TableOf(0)[i]
    BY <1>2, <1>4
  <2>. QED  BY <1>1, <2>1 DEF Enough
<1>. QED  BY <1>3, <1>4

(* The local variables of one caller, and what the steps assign of them. *)
Locals(Ix)      == [src : Src, k : Ix, ok : BOOLEAN]
SetOk(f, c, b) == [f EXCEPT ![c].ok = b]
SetSrc(f, c, s) == [f EXCEPT ![c].src = s]
SetNext(f, c, k, b) == [f EXCEPT ![c].k = k, ![c].ok = b]

(* Assigned values of their types, they keep theirs. *)
LEMMA LocalsKept ==
    ASSUME NEW Ix, NEW f \in [Callers -> Locals(Ix)], NEW c \in Callers
    PROVE  /\ \A b \in BOOLEAN : SetOk(f, c, b) \in [Callers -> Locals(Ix)]
           /\ \A s \in Src : SetSrc(f, c, s) \in [Callers -> Locals(Ix)]
           /\ \A k \in Ix, b \in BOOLEAN : SetNext(f, c, k, b) \in [Callers -> Locals(Ix)]
           /\ \A r \in Locals(Ix) : [f EXCEPT ![c] = r] \in [Callers -> Locals(Ix)]
<1>. USE DEF Locals, SetOk, SetSrc, SetNext
<1>1. \A b \in BOOLEAN : [f EXCEPT ![c].ok = b] \in [Callers -> Locals(Ix)]
  OBVIOUS
<1>2. \A s \in Src : [f EXCEPT ![c].src = s] \in [Callers -> Locals(Ix)]
  OBVIOUS
<1>3. \A k \in Ix, b \in BOOLEAN :
          [f EXCEPT ![c].k = k, ![c].ok = b] \in [Callers -> Locals(Ix)]
  OBVIOUS
<1>4. \A r \in Locals(Ix) : [f EXCEPT ![c] = r] \in [Callers -> Locals(Ix)]
  OBVIOUS
<1>. QED  BY <1>1, <1>2, <1>3, <1>4

(* An assignment changes that local variable of that caller. *)
LEMMA LocalsAfter ==
    ASSUME NEW Ix, NEW f \in [Callers -> Locals(Ix)], NEW c \in Callers, NEW b, NEW k, NEW s,
           NEW d \in Callers
    PROVE  /\ SetOk(f, c, b)[d].src = f[d].src
           /\ SetOk(f, c, b)[d].k = f[d].k
           /\ SetOk(f, c, b)[d].ok = IF d = c THEN b ELSE f[d].ok
           /\ SetSrc(f, c, s)[d].src = IF d = c THEN s ELSE f[d].src
           /\ SetSrc(f, c, s)[d].k = f[d].k
           /\ SetSrc(f, c, s)[d].ok = f[d].ok
           /\ SetNext(f, c, k, b)[d].src = f[d].src
           /\ SetNext(f, c, k, b)[d].k = IF d = c THEN k ELSE f[d].k
           /\ SetNext(f, c, k, b)[d].ok = IF d = c THEN b ELSE f[d].ok
<1>1. CASE d # c
  BY <1>1 DEF SetOk, SetSrc, SetNext
<1>2. CASE d = c
  BY <1>2 DEF SetOk, SetSrc, SetNext, Locals
<1>. QED  BY <1>1, <1>2

(* Where the task and the handler are. *)
PcOK == pc \in [Callers -> Steps] /\ pc["nmi"] \notin {"hse", "csi", "hsi"}

(* A step to a known place keeps that so. *)
LEMMA Goes ==
    ASSUME PcOK, NEW c \in Callers, NEW l \in Steps, Goto(c, l),
           c = "nmi" => l \notin {"hse", "csi", "hsi"}
    PROVE  PcOK'
BY DEF PcOK, Goto, Callers

(* The loop goes to the next PLL, or ends after the last. *)
LEMMA NextPllDoes ==
    ASSUME NEW c \in Callers, NEW ok \in BOOLEAN, NextPll(c, ok), PcOK,
           loc \in [Callers -> Locals(Plls)]
    PROVE  /\ PcOK' /\ loc' \in [Callers -> Locals(Plls)]
           /\ \/ /\ loc[c].k + 1 \in Plls /\ Goto(c, "plls")
                 /\ loc' = SetNext(loc, c, loc[c].k + 1, ok)
              \/ /\ loc[c].k + 1 \notin Plls /\ Goto(c, "pllend")
                 /\ loc' = SetOk(loc, c, ok)
<1>1. CASE loc[c].k + 1 \in Plls
  <2>1. Goto(c, "plls") /\ loc' = SetNext(loc, c, loc[c].k + 1, ok)
    BY <1>1 DEF NextPll, SetNext
  <2>. QED  BY <1>1, <2>1, LocalsKept, Goes DEF Steps
<1>2. CASE loc[c].k + 1 \notin Plls
  <2>1. Goto(c, "pllend") /\ loc' = SetOk(loc, c, ok)
    BY <1>2 DEF NextPll, SetOk
  <2>. QED  BY <1>2, <2>1, LocalsKept, Goes DEF Steps
<1>. QED  BY <1>1, <1>2

(* The types of the local variables, and of all other variables. *)
LocalsOK == loc \in [Callers -> Locals(Plls)]

OtherTypes ==
    /\ chip \in {"h7", "l4"} /\ cfg \in Config
    /\ osc \subseteq Src /\ css \in BOOLEAN /\ pllsrc \in Src
    /\ pll \in [Plls -> {"off", "on", "locked"}]
    /\ div \in [Plls -> Src \cup {"one"}]
    /\ sw \in Src /\ want \in Src /\ ahb \in {1, 2}
    /\ vos \in 0..3 /\ level \in 0..3 /\ lat \in 0..7
    /\ st_osc \subseteq Src /\ st_pll \subseteq Plls /\ st_sys \in BOOLEAN
    /\ inited \in BOOLEAN /\ hse_enable \in BOOLEAN /\ calls \in 0..MaxInit
    /\ hit \in {"no", "system", "other"}
    /\ chip = "h7" => vos \in {0, 1, 3} /\ level \in {0, 1, 3}
    /\ chip = "l4" => level = vos

(* Together these are the types. *)
LEMMA TypesAre == ClockTypes <=> PcOK /\ LocalsOK /\ OtherTypes
BY DEF ClockTypes, TypeOK, PcOK, LocalsOK, OtherTypes, Locals

(* _uni_hal_stm_rcc_sysclk fails: its caller is at its end. *)
LEMMA SysFailsDoes ==
    ASSUME NEW c \in Callers, SysFails(c), PcOK, LocalsOK, Plls' = Plls
    PROVE  PcOK' /\ LocalsOK' /\ Goto(c, "end") /\ loc' = SetOk(loc, c, FALSE)
<1>1. Goto(c, "end") /\ loc' = SetOk(loc, c, FALSE)
  BY DEF SysFails, SetOk
<1>. QED  BY <1>1, Goes, LocalsKept DEF LocalsOK, Steps

(* The best source, if any, is one that is reported. *)
LEMMA BestIs ==
    /\ BestSource \in Src \ {"msi", "pll"}
    /\ BestSource # "none" => BestSource \in st_osc
BY DEF BestSource, Src

(* Frequencies are natural numbers. *)
LEMMA PllMhzNat == ASSUME OtherTypes PROVE PllMhz \in Nat /\ \A s \in Src : SrcMhz(s) \in Nat
<1>same. \A s : Mhz(s) \in {25, 4, 64, 8, 16}
  BY DEF Mhz, H7Mhz, L4Mhz
<1>1. cfg.mhz \in Nat
  BY ConfigNat DEF OtherTypes
<1>2. \A a \in Nat, b \in {25, 4, 64, 8, 16}, d \in {25, 4, 64, 8, 16} :
         /\ b \in Nat /\ d \in Nat \ {0} /\ a * 10 \in Nat /\ a * b \in Nat
  BY SMT
<1>3. \A a \in Nat, d \in Nat \ {0} : a \div d \in Nat
  BY SMT
<1>. DEFINE p == cfg.mhz * Mhz(pllsrc)
            q == Mhz(div[1])
<1>4. p \in Nat /\ q \in Nat \ {0} /\ cfg.mhz * 10 \in Nat
  BY <1>same, <1>1, <1>2
<1>5. PllMhz = IF div[1] = "one" THEN cfg.mhz * 10 ELSE p \div q
  BY DEF PllMhz
<1>. HIDE DEF p, q
<1>6. PllMhz \in Nat
  BY <1>3, <1>4, <1>5
<1>. QED  BY <1>same, <1>6 DEF SrcMhz

(* Every step keeps the types. *)
LEMMA TypesStep == ClockTypes /\ [Next]_vars => ClockTypes'
<1>. SUFFICES ASSUME PcOK, LocalsOK, OtherTypes, [Next]_vars
              PROVE  PcOK' /\ LocalsOK' /\ OtherTypes'
  BY DEF ClockTypes, TypeOK, PcOK, LocalsOK, OtherTypes, Locals
<1>. USE DEF hwVars, speedVars, statVars, ctlVars, fixVars, histVars
<1>same. /\ chip' = chip => Plls' = Plls
         /\ Src = {"none", "msi", "hsi", "csi", "hse", "pll"} /\ 1 \in Plls
  BY ClocksAssumption DEF Plls, Src, OtherTypes
<1>1. CASE PwrInit
  <2>1. PcOK'
    BY <1>1 DEF PcOK, PwrInit
  <2>2. LocalsOK'
    BY <1>same, <1>1, LocalsKept DEF LocalsOK, PwrInit
  <2>3. OtherTypes'
    BY <1>same, <1>1 DEF OtherTypes, PwrInit
  <2>. QED  BY <2>1, <2>2, <2>3
<1>2. CASE RccInit
  <2>1. "task" \in Callers /\ loc' = SetOk(loc, "task", TRUE) /\ Goto("task", "hse")
    BY <1>2 DEF RccInit, SetOk, Callers
  <2>2. /\ lat' = (IF chip = "l4" THEN 4 ELSE lat) /\ calls < MaxInit /\ calls' = calls + 1
        /\ UNCHANGED <<hwVars, ahb, vos, level, statVars, fixVars, hse_enable, hit>>
    BY <1>2 DEF RccInit, FlashFirst
  <2>3. Plls' = Plls
    BY <1>same, <2>2
  <2>4. calls' \in 0..MaxInit
    BY <2>2, ClocksAssumption DEF OtherTypes
  <2>5. OtherTypes'
    BY <2>2, <2>3, <2>4 DEF OtherTypes
  <2>6. LocalsOK'
    BY <2>1, <2>3, LocalsKept DEF LocalsOK
  <2>. QED  BY <2>1, <2>5, <2>6, Goes DEF Steps
<1>3. CASE HseH7
  <2>1. PcOK'
    BY <1>3, Goes DEF At, Callers, Steps, HseH7, HseOutcome
  <2>2. LocalsOK'
    BY <1>same, <1>3, LocalsKept DEF LocalsOK, HseH7, HseOutcome
  <2>3. OtherTypes'
    BY <1>same, <1>3 DEF OtherTypes, HseH7, HseOutcome, Unfed
  <2>. QED  BY <2>1, <2>2, <2>3
<1>4. CASE HseL4
  <2>1. PcOK'
    BY <1>4, Goes DEF At, Callers, Steps, HseL4, HseOutcome
  <2>2. LocalsOK'
    BY <1>same, <1>4, LocalsKept DEF LocalsOK, HseL4, HseOutcome
  <2>3. OtherTypes'
    BY <1>same, <1>4 DEF OtherTypes, HseL4, HseOutcome
  <2>. QED  BY <2>1, <2>2, <2>3
<1>5. CASE HseUnused
  <2>1. PcOK'
    BY <1>5, Goes DEF At, Callers, Steps, HseUnused
  <2>2. LocalsOK'
    BY <1>same, <1>5, LocalsKept DEF LocalsOK, HseUnused
  <2>3. OtherTypes'
    BY <1>same, <1>5 DEF OtherTypes, HseUnused
  <2>. QED  BY <2>1, <2>2, <2>3
<1>6. CASE Csi
  <2>1. PcOK'
    BY <1>6, Goes DEF At, Callers, Steps, Csi, StartOsc
  <2>2. LocalsOK'
    BY <1>same, <1>6, LocalsKept DEF LocalsOK, Csi, StartOsc
  <2>3. osc' \subseteq Src /\ st_osc' \subseteq Src
    BY <1>same, <1>6 DEF OtherTypes, Csi, StartOsc
  <2>4. /\ UNCHANGED <<css, pllsrc, pll, div, sw, want, speedVars, st_pll, st_sys, inited>>
        /\ UNCHANGED <<fixVars, histVars>> /\ Plls' = Plls
    BY <1>same, <1>6 DEF Csi, StartOsc
  <2>5. OtherTypes'
    BY <2>3, <2>4 DEF OtherTypes
  <2>. QED  BY <2>1, <2>2, <2>5
<1>7. CASE Hsi
  <2>1. PcOK'
    BY <1>7, Goes DEF At, Callers, Steps, Hsi, StartOsc
  <2>2. LocalsOK'
    BY <1>same, <1>7, LocalsKept DEF LocalsOK, Hsi, StartOsc
  <2>3. OtherTypes'
    BY <1>same, <1>7 DEF OtherTypes, Hsi, StartOsc
  <2>. QED  BY <2>1, <2>2, <2>3
<1>8. ASSUME NEW c \in Callers, PllChoose(c) PROVE PcOK' /\ LocalsOK' /\ OtherTypes'
  <2>a. [src |-> BestSource, k |-> 1, ok |-> TRUE] \in Locals(Plls)
    BY <1>same, BestIs DEF Locals
  <2>1. PcOK'
    BY <1>8, Goes DEF At, Callers, Steps, PllChoose, AfterPll
  <2>2. LocalsOK'
    BY <1>same, <1>8, <2>a, LocalsKept DEF LocalsOK, PllChoose, AfterPll
  <2>3. OtherTypes'
    BY <1>same, <1>8, <2>a DEF OtherTypes, PllChoose
  <2>. QED  BY <2>1, <2>2, <2>3
<1>9. ASSUME NEW c \in Callers, PllDisable(c) PROVE PcOK' /\ LocalsOK' /\ OtherTypes'
  <2>1. PcOK'
    BY <1>9, Goes DEF At, Callers, Steps, PllDisable
  <2>2. LocalsOK'
    BY <1>same, <1>9, LocalsKept DEF LocalsOK, PllDisable
  <2>3. OtherTypes'
    BY <1>same, <1>9 DEF OtherTypes, PllDisable, Disabled
  <2>. QED  BY <2>1, <2>2, <2>3
<1>10. ASSUME NEW c \in Callers, PllWaitOff(c) PROVE PcOK' /\ LocalsOK' /\ OtherTypes'
  <2>1. PcOK'
    BY <1>10, Goes DEF At, Callers, Steps, PllWaitOff, AfterPll
  <2>2. LocalsOK'
    BY <1>same, <1>10, LocalsKept DEF LocalsOK, PllWaitOff, AfterPll
  <2>3. OtherTypes'
    BY <1>same, <1>10 DEF OtherTypes, PllWaitOff
  <2>. QED  BY <2>1, <2>2, <2>3
<1>11. ASSUME NEW c \in Callers, PllSource(c) PROVE PcOK' /\ LocalsOK' /\ OtherTypes'
  <2>a. loc[c].src \in Src /\ loc[c].k \in Plls
    BY DEF LocalsOK, Locals
  <2>1. PcOK'
    BY <1>11, Goes DEF At, Callers, Steps, PllSource
  <2>2. LocalsOK'
    BY <1>same, <1>11, <2>a, LocalsKept DEF LocalsOK, PllSource
  <2>3. OtherTypes'
    BY <1>same, <1>11, <2>a DEF OtherTypes, PllSource
  <2>. QED  BY <2>1, <2>2, <2>3
<1>12. ASSUME NEW c \in Callers, PllSkip(c) PROVE PcOK' /\ LocalsOK' /\ OtherTypes'
  <2>1. (loc[c].ok /\ ~PllUsed(loc[c].k)) \in BOOLEAN
    BY DEF LocalsOK, Locals
  <2>2. NextPll(c, loc[c].ok /\ ~PllUsed(loc[c].k))
    BY <1>12 DEF PllSkip
  <2>3. PcOK' /\ LocalsOK'
    BY <1>same, <1>12, <2>1, <2>2, NextPllDoes DEF LocalsOK, PllSkip
  <2>4. OtherTypes'
    BY <1>same, <1>12 DEF OtherTypes, LocalsOK, Locals, PllSkip
  <2>. QED  BY <2>3, <2>4
<1>13. ASSUME NEW c \in Callers, PllEnable(c) PROVE PcOK' /\ LocalsOK' /\ OtherTypes'
  <2>a. loc[c].src \in Src /\ loc[c].k \in Plls
    BY DEF LocalsOK, Locals
  <2>1. PcOK'
    BY <1>13, Goes DEF At, Callers, Steps, PllEnable
  <2>2. LocalsOK'
    BY <1>same, <1>13, <2>a, LocalsKept DEF LocalsOK, PllEnable
  <2>3. OtherTypes'
    BY <1>same, <1>13, <2>a DEF OtherTypes, PllEnable, Program, MScaled
  <2>. QED  BY <2>1, <2>2, <2>3
<1>14. ASSUME NEW c \in Callers, PllEnableL4(c) PROVE PcOK' /\ LocalsOK' /\ OtherTypes'
  <2>a. loc[c].src \in Src /\ loc[c].k \in Plls
    BY DEF LocalsOK, Locals
  <2>1. PcOK'
    BY <1>14, Goes DEF At, Callers, Steps, PllEnableL4
  <2>2. LocalsOK'
    BY <1>same, <1>14, <2>a, LocalsKept DEF LocalsOK, PllEnableL4
  <2>3. OtherTypes'
    BY <1>same, <1>14, <2>a DEF OtherTypes, PllEnableL4, Program, MScaled
  <2>. QED  BY <2>1, <2>2, <2>3
<1>15. ASSUME NEW c \in Callers, PllLocked(c) PROVE PcOK' /\ LocalsOK' /\ OtherTypes'
  <2>1. (loc[c].ok) \in BOOLEAN
    BY DEF LocalsOK, Locals
  <2>2. NextPll(c, loc[c].ok)
    BY <1>15 DEF PllLocked
  <2>3. PcOK' /\ LocalsOK'
    BY <1>same, <1>15, <2>1, <2>2, NextPllDoes DEF LocalsOK, PllLocked
  <2>4. OtherTypes'
    BY <1>same, <1>15 DEF OtherTypes, LocalsOK, Locals, PllLocked
  <2>. QED  BY <2>3, <2>4
<1>16. ASSUME NEW c \in Callers, PllTimeout(c) PROVE PcOK' /\ LocalsOK' /\ OtherTypes'
  <2>1. (FALSE) \in BOOLEAN
    BY DEF LocalsOK, Locals
  <2>2. NextPll(c, FALSE)
    BY <1>16 DEF PllTimeout
  <2>3. PcOK' /\ LocalsOK'
    BY <1>same, <1>16, <2>1, <2>2, NextPllDoes DEF LocalsOK, PllTimeout
  <2>4. OtherTypes'
    BY <1>same, <1>16 DEF OtherTypes, LocalsOK, Locals, PllTimeout
  <2>. QED  BY <2>3, <2>4
<1>17. ASSUME NEW c \in Callers, PllEnd(c) PROVE PcOK' /\ LocalsOK' /\ OtherTypes'
  <2>1. loc' = SetOk(loc, c, TRUE) /\ Goto(c, AfterPll(c, loc[c].ok))
    BY <1>17 DEF PllEnd, SetOk
  <2>2. /\ (pll' = Disabled(Plls) /\ st_pll' = {}) \/ UNCHANGED <<pll, st_pll>>
        /\ UNCHANGED <<osc, css, pllsrc, div, sw, want, speedVars, st_osc, st_sys,
                       inited, fixVars, histVars>>
    BY <1>17 DEF PllEnd
  <2>3. Plls' = Plls
    BY <1>same, <2>2
  <2>4. OtherTypes'
    BY <1>same, <2>2, <2>3 DEF OtherTypes, Disabled
  <2>5. LocalsOK'
    BY <2>1, <2>3, LocalsKept DEF LocalsOK
  <2>. QED  BY <2>1, <2>4, <2>5, Goes DEF Steps, AfterPll
<1>18. ASSUME NEW c \in Callers, SysChoose(c) PROVE PcOK' /\ LocalsOK' /\ OtherTypes'
  <2>1. OtherTypes' /\ Plls' = Plls
    <3>1. st_sys' = st_sys \/ st_sys' = FALSE
      BY <1>18 DEF SysChoose
    <3>. QED  BY <1>same, <3>1, <1>18 DEF SysChoose, OtherTypes
  <2>2. CASE SysFails(c)
    BY <2>1, <2>2, SysFailsDoes
  <2>3. CASE ~SysFails(c)
    <3>1. PICK s \in Src : loc' = [loc EXCEPT ![c].src = s]
      BY <1>same, <2>3, <1>18, BestIs DEF SysChoose
    <3>2. Goto(c, "latency") \/ Goto(c, "switch")
      BY <2>3, <1>18 DEF SysChoose
    <3>3. LocalsOK'
      BY <2>1, <3>1, LocalsKept DEF LocalsOK, SetSrc
    <3>. QED  BY <2>1, <3>2, <3>3, Goes DEF Steps
  <2>. QED  BY <2>2, <2>3
<1>19. ASSUME NEW c \in Callers, SysLatency(c) PROVE PcOK' /\ LocalsOK' /\ OtherTypes'
  <2>1. Plls' = Plls
    BY <1>same, <1>19 DEF SysLatency
  <2>2. loc[c].src \in Src
    BY DEF LocalsOK, Locals
  <2>. DEFINE axi == SrcMhz(loc[c].src) \div 2
  <2>3. axi \in Nat
    BY <2>2, PllMhzNat
  <2>4. CASE Rows(axi) = {}
    <3>1. OtherTypes'
      BY <1>same, <2>4, <1>19 DEF SysLatency, OtherTypes
    <3>2. SysFails(c)
      BY <2>4, <1>19 DEF SysLatency
    <3>. QED  BY <2>1, <3>1, <3>2, SysFailsDoes
  <2>5. CASE Rows(axi) # {}
    <3>1. SelectLatency(axi) \in 0..4
      BY <2>3, <2>5, SelectedCovers DEF OtherTypes
    <3>2. lat' = SelectLatency(axi) /\ Goto(c, "switch") /\ UNCHANGED <<loc, st_sys>>
      BY <2>5, <1>19 DEF SysLatency
    <3>3. OtherTypes'
      BY <1>same, <3>1, <3>2, <1>19 DEF SysLatency, OtherTypes
    <3>. QED  BY <2>1, <3>2, <3>3, Goes DEF LocalsOK, Steps
  <2>. QED  BY <2>4, <2>5
<1>20. ASSUME NEW c \in Callers, SysSwitch(c) PROVE PcOK' /\ LocalsOK' /\ OtherTypes'
  <2>a. loc[c].src \in Src /\ loc[c].k \in Plls
    BY DEF LocalsOK, Locals
  <2>1. PcOK'
    BY <1>20, Goes DEF At, Callers, Steps, SysSwitch, SwitchTo
  <2>2. LocalsOK'
    BY <1>same, <1>20, <2>a, LocalsKept DEF LocalsOK, SysSwitch, SwitchTo
  <2>3. OtherTypes'
    BY <1>same, <1>20, <2>a DEF OtherTypes, SysSwitch, SwitchTo
  <2>. QED  BY <2>1, <2>2, <2>3
<1>21. ASSUME NEW c \in Callers, SysSwitchL4(c) PROVE PcOK' /\ LocalsOK' /\ OtherTypes'
  <2>a. loc[c].src \in Src /\ loc[c].k \in Plls
    BY DEF LocalsOK, Locals
  <2>1. PcOK'
    BY <1>21, Goes DEF At, Callers, Steps, SysSwitchL4, SwitchTo
  <2>2. LocalsOK'
    BY <1>same, <1>21, <2>a, LocalsKept DEF LocalsOK, SysSwitchL4, SwitchTo
  <2>3. OtherTypes'
    BY <1>same, <1>21, <2>a DEF OtherTypes, SysSwitchL4, SwitchTo
  <2>. QED  BY <2>1, <2>2, <2>3
<1>22. ASSUME NEW c \in Callers, SysSwitched(c) PROVE PcOK' /\ LocalsOK' /\ OtherTypes'
  <2>1. PcOK'
    BY <1>22, Goes DEF At, Callers, Steps, SysSwitched
  <2>2. LocalsOK'
    BY <1>same, <1>22, LocalsKept DEF LocalsOK, SysSwitched
  <2>3. OtherTypes'
    BY <1>same, <1>22 DEF OtherTypes, SysSwitched
  <2>. QED  BY <2>1, <2>2, <2>3
<1>23. ASSUME NEW c \in Callers, SysTimeout(c) PROVE PcOK' /\ LocalsOK' /\ OtherTypes'
  <2>1. SysFails(c) /\ OtherTypes'
    BY <1>same, <1>23 DEF SysTimeout, OtherTypes
  <2>2. Plls' = Plls
    BY <1>same, <1>23 DEF SysTimeout
  <2>. QED  BY <2>1, <2>2, SysFailsDoes
<1>24. ASSUME NEW c \in Callers, SysAdjust(c) PROVE PcOK' /\ LocalsOK' /\ OtherTypes'
  <2>a. SelectLatency(SrcMhz(sw)) \in 0..4 \/ Rows(SrcMhz(sw)) = {}
    BY PllMhzNat, SelectedCovers DEF OtherTypes
  <2>1. PcOK'
    BY <1>24, Goes DEF At, Callers, Steps, SysAdjust
  <2>2. LocalsOK'
    BY <1>same, <1>24, <2>a, LocalsKept DEF LocalsOK, SysAdjust
  <2>3. OtherTypes'
    BY <1>same, <1>24, <2>a DEF OtherTypes, SysAdjust
  <2>. QED  BY <2>1, <2>2, <2>3
<1>25. ASSUME NEW c \in Callers, End(c) PROVE PcOK' /\ LocalsOK' /\ OtherTypes'
  <2>1. PcOK'
    BY <1>25, Goes DEF At, Callers, Steps, End
  <2>2. LocalsOK'
    BY <1>same, <1>25, LocalsKept DEF LocalsOK, End
  <2>3. OtherTypes'
    BY <1>same, <1>25 DEF OtherTypes, End
  <2>. QED  BY <2>1, <2>2, <2>3
<1>26. CASE NmiH7 \/ NmiL4
  <2>1. HseFailure /\ Fallback \in Src
    BY <1>26, <1>same DEF NmiH7, NmiL4, Fallback
  <2>2. PcOK'
    BY <2>1, Goes DEF HseFailure, Callers, Steps
  <2>3. LocalsOK' /\ Plls' = Plls
    BY <1>same, <2>1 DEF HseFailure, LocalsOK
  <2>4. pll' \in [Plls -> {"off", "on", "locked"}]
    BY <1>same, <2>1 DEF HseFailure, Unfed, OtherTypes
  <2>5. OtherTypes'
    BY <1>same, <2>1, <2>3, <2>4 DEF HseFailure, OtherTypes
  <2>. QED  BY <2>2, <2>3, <2>5
<1>27. ASSUME NEW i \in Plls, Lock(i) PROVE PcOK' /\ LocalsOK' /\ OtherTypes'
  BY <1>same, <1>27 DEF Lock, PcOK, LocalsOK, OtherTypes
<1>28. CASE SystemSwitches
  BY <1>same, <1>28 DEF SystemSwitches, PcOK, LocalsOK, OtherTypes
<1>29. CASE UNCHANGED vars
  BY <1>same, <1>29 DEF vars, PcOK, LocalsOK, OtherTypes
<1>30. CASE VoltageComes
  BY <1>same, <1>30 DEF VoltageComes, PcOK, LocalsOK, OtherTypes
<1>. QED  BY <1>1, <1>2, <1>3, <1>4, <1>5, <1>6, <1>7, <1>8, <1>9, <1>10, <1>11, <1>12, <1>13,
             <1>14, <1>15, <1>16, <1>17, <1>18, <1>19, <1>20, <1>21, <1>22, <1>23, <1>24, <1>25,
             <1>26, <1>27, <1>28, <1>29, <1>30 DEF Next, CodeStep, PllStep, SysStep, Hardware

(* Chip and configuration stay; only a failure of the crystal changes the history, and *)
(* only uni_hal_rcc_init counts calls.                                                 *)
LEMMA FixedStep ==
    [Next]_vars => /\ UNCHANGED <<chip, cfg>>
                   /\ UNCHANGED hit \/ NmiH7 \/ NmiL4
                   /\ UNCHANGED calls \/ RccInit
<1>. DEFINE Kept == /\ UNCHANGED <<chip, cfg>>
                    /\ UNCHANGED hit \/ NmiH7 \/ NmiL4
                    /\ UNCHANGED calls \/ RccInit
<1>. SUFFICES ASSUME [Next]_vars PROVE Kept
  OBVIOUS
<1>. USE DEF fixVars, histVars
<1>1. CASE PwrInit
  BY <1>1 DEF PwrInit
<1>2. CASE RccInit
  BY <1>2 DEF RccInit
<1>3. CASE HseH7
  BY <1>3 DEF HseH7, HseOutcome
<1>4. CASE HseL4
  BY <1>4 DEF HseL4, HseOutcome
<1>5. CASE HseUnused
  BY <1>5 DEF HseUnused
<1>6. CASE Csi
  BY <1>6 DEF Csi, StartOsc
<1>7. CASE Hsi
  BY <1>7 DEF Hsi, StartOsc
<1>8. ASSUME NEW c \in Callers, PllChoose(c) PROVE Kept
  BY <1>8 DEF PllChoose
<1>9. ASSUME NEW c \in Callers, PllDisable(c) PROVE Kept
  BY <1>9 DEF PllDisable
<1>10. ASSUME NEW c \in Callers, PllWaitOff(c) PROVE Kept
  BY <1>10 DEF PllWaitOff
<1>11. ASSUME NEW c \in Callers, PllSource(c) PROVE Kept
  BY <1>11 DEF PllSource
<1>12. ASSUME NEW c \in Callers, PllSkip(c) PROVE Kept
  BY <1>12 DEF PllSkip
<1>13. ASSUME NEW c \in Callers, PllEnable(c) PROVE Kept
  BY <1>13 DEF PllEnable
<1>14. ASSUME NEW c \in Callers, PllEnableL4(c) PROVE Kept
  BY <1>14 DEF PllEnableL4
<1>15. ASSUME NEW c \in Callers, PllLocked(c) PROVE Kept
  BY <1>15 DEF PllLocked
<1>16. ASSUME NEW c \in Callers, PllTimeout(c) PROVE Kept
  BY <1>16 DEF PllTimeout
<1>17. ASSUME NEW c \in Callers, PllEnd(c) PROVE Kept
  BY <1>17 DEF PllEnd
<1>18. ASSUME NEW c \in Callers, SysChoose(c) PROVE Kept
  BY <1>18 DEF SysChoose
<1>19. ASSUME NEW c \in Callers, SysLatency(c) PROVE Kept
  BY <1>19 DEF SysLatency
<1>20. ASSUME NEW c \in Callers, SysSwitch(c) PROVE Kept
  BY <1>20 DEF SysSwitch
<1>21. ASSUME NEW c \in Callers, SysSwitchL4(c) PROVE Kept
  BY <1>21 DEF SysSwitchL4
<1>22. ASSUME NEW c \in Callers, SysSwitched(c) PROVE Kept
  BY <1>22 DEF SysSwitched
<1>23. ASSUME NEW c \in Callers, SysTimeout(c) PROVE Kept
  BY <1>23 DEF SysTimeout
<1>24. ASSUME NEW c \in Callers, SysAdjust(c) PROVE Kept
  BY <1>24 DEF SysAdjust
<1>25. ASSUME NEW c \in Callers, End(c) PROVE Kept
  BY <1>25 DEF End
<1>26. CASE NmiH7 \/ NmiL4
  BY <1>26 DEF NmiH7, NmiL4, HseFailure
<1>27. ASSUME NEW i \in Plls, Lock(i) PROVE Kept
  BY <1>27 DEF Lock
<1>28. CASE SystemSwitches
  BY <1>28 DEF SystemSwitches
<1>29. CASE UNCHANGED vars
  BY <1>29 DEF vars
<1>30. CASE VoltageComes
  BY <1>30 DEF VoltageComes
<1>. QED  BY <1>1, <1>2, <1>3, <1>4, <1>5, <1>6, <1>7, <1>8, <1>9, <1>10, <1>11, <1>12, <1>13,
             <1>14, <1>15, <1>16, <1>17, <1>18, <1>19, <1>20, <1>21, <1>22, <1>23, <1>24, <1>25,
             <1>26, <1>27, <1>28, <1>29, <1>30 DEF Next, CodeStep, PllStep, SysStep, Hardware

(* Every step keeps that the crystal fails once. *)
LEMMA FailsOnceStep == PcOK /\ OtherTypes /\ FailsOnce /\ [Next]_vars => FailsOnce'
<1>. SUFFICES ASSUME PcOK, OtherTypes, FailsOnce, [Next]_vars PROVE FailsOnce'
  OBVIOUS
<1>. USE DEF FailsOnce, PcOK, At, Goto, Callers, hwVars, ctlVars, histVars
<1>1. CASE PwrInit
  BY <1>1 DEF PwrInit
<1>2. CASE RccInit
  <2>1. calls' = calls + 1 /\ calls \in Nat
    BY <1>2, ClocksAssumption DEF RccInit, OtherTypes
  <2>. QED  BY <1>2, <2>1 DEF RccInit
<1>3. CASE HseH7
  BY <1>3 DEF HseH7, HseOutcome
<1>4. CASE HseL4
  BY <1>4 DEF HseL4, HseOutcome
<1>5. CASE HseUnused
  BY <1>5 DEF HseUnused
<1>6. CASE Csi
  BY <1>6 DEF Csi, StartOsc
<1>7. CASE Hsi
  BY <1>7 DEF Hsi, StartOsc
<1>8. ASSUME NEW c \in Callers, PllChoose(c) PROVE FailsOnce'
  BY <1>8 DEF PllChoose
<1>9. ASSUME NEW c \in Callers, PllDisable(c) PROVE FailsOnce'
  BY <1>9 DEF PllDisable
<1>10. ASSUME NEW c \in Callers, PllWaitOff(c) PROVE FailsOnce'
  BY <1>10 DEF PllWaitOff
<1>11. ASSUME NEW c \in Callers, PllSource(c) PROVE FailsOnce'
  BY <1>11 DEF PllSource
<1>12. ASSUME NEW c \in Callers, PllSkip(c) PROVE FailsOnce'
  BY <1>12 DEF PllSkip, NextPll
<1>13. ASSUME NEW c \in Callers, PllEnable(c) PROVE FailsOnce'
  BY <1>13 DEF PllEnable
<1>14. ASSUME NEW c \in Callers, PllEnableL4(c) PROVE FailsOnce'
  BY <1>14 DEF PllEnableL4
<1>15. ASSUME NEW c \in Callers, PllLocked(c) PROVE FailsOnce'
  BY <1>15 DEF PllLocked, NextPll
<1>16. ASSUME NEW c \in Callers, PllTimeout(c) PROVE FailsOnce'
  BY <1>16 DEF PllTimeout, NextPll
<1>17. ASSUME NEW c \in Callers, PllEnd(c) PROVE FailsOnce'
  BY <1>17 DEF PllEnd
<1>18. ASSUME NEW c \in Callers, SysChoose(c) PROVE FailsOnce'
  BY <1>18 DEF SysChoose, SysFails
<1>19. ASSUME NEW c \in Callers, SysLatency(c) PROVE FailsOnce'
  BY <1>19 DEF SysLatency, SysFails
<1>20. ASSUME NEW c \in Callers, SysSwitch(c) PROVE FailsOnce'
  BY <1>20 DEF SysSwitch, SwitchTo
<1>21. ASSUME NEW c \in Callers, SysSwitchL4(c) PROVE FailsOnce'
  BY <1>21 DEF SysSwitchL4, SwitchTo
<1>22. ASSUME NEW c \in Callers, SysSwitched(c) PROVE FailsOnce'
  BY <1>22 DEF SysSwitched
<1>23. ASSUME NEW c \in Callers, SysTimeout(c) PROVE FailsOnce'
  BY <1>23 DEF SysTimeout, SysFails
<1>24. ASSUME NEW c \in Callers, SysAdjust(c) PROVE FailsOnce'
  BY <1>24 DEF SysAdjust
<1>25. ASSUME NEW c \in Callers, End(c) PROVE FailsOnce'
  BY <1>25 DEF End
<1>26. CASE NmiH7 \/ NmiL4
  BY <1>26 DEF NmiH7, NmiL4, HseFailure
<1>27. ASSUME NEW i \in Plls, Lock(i) PROVE FailsOnce'
  BY <1>27 DEF Lock
<1>28. CASE SystemSwitches
  BY <1>28 DEF SystemSwitches
<1>29. CASE UNCHANGED vars
  BY <1>29 DEF vars
<1>30. CASE VoltageComes
  BY <1>30 DEF VoltageComes
<1>. QED  BY <1>1, <1>2, <1>3, <1>4, <1>5, <1>6, <1>7, <1>8, <1>9, <1>10, <1>11, <1>12, <1>13,
             <1>14, <1>15, <1>16, <1>17, <1>18, <1>19, <1>20, <1>21, <1>22, <1>23, <1>24, <1>25,
             <1>26, <1>27, <1>28, <1>29, <1>30 DEF Next, CodeStep, PllStep, SysStep, Hardware

(* What holds in those cases. *)
Shown == PllKnown /\ PllReported /\ SpeedOK

(* What an assignment of `ok`, of `k` and `ok`, of `src` leaves in the local variables. *)
LEMMA OkSet ==
    ASSUME LocalsOK, NEW c \in Callers, NEW b, loc' = SetOk(loc, c, b)
    PROVE  \A d \in Callers :
               /\ loc'[d].src = loc[d].src /\ loc'[d].k = loc[d].k
               /\ loc'[d].ok = IF d = c THEN b ELSE loc[d].ok
BY LocalsAfter DEF LocalsOK

LEMMA NextSet ==
    ASSUME LocalsOK, NEW c \in Callers, NEW b, NEW k, loc' = SetNext(loc, c, k, b)
    PROVE  \A d \in Callers :
               /\ loc'[d].src = loc[d].src
               /\ loc'[d].k = IF d = c THEN k ELSE loc[d].k
               /\ loc'[d].ok = IF d = c THEN b ELSE loc[d].ok
BY LocalsAfter DEF LocalsOK

LEMMA SrcSet ==
    ASSUME LocalsOK, NEW c \in Callers, NEW s, loc' = SetSrc(loc, c, s)
    PROVE  \A d \in Callers :
               /\ loc'[d].k = loc[d].k /\ loc'[d].ok = loc[d].ok
               /\ loc'[d].src = IF d = c THEN s ELSE loc[d].src
BY LocalsAfter DEF LocalsOK

(* What the loop leaves in them. *)
LEMMA NextPllLocals ==
    ASSUME NEW c \in Callers, NEW ok \in BOOLEAN, NextPll(c, ok), PcOK, LocalsOK
    PROVE  \E k \in Plls, l \in {"plls", "pllend"} :
           /\ Goto(c, l) /\ (l = "plls" => k = loc[c].k + 1)
           /\ (l = "pllend" => k = loc[c].k /\ k + 1 \notin Plls)
           /\ \A d \in Callers : /\ loc'[d].src = loc[d].src
                                 /\ loc'[d].k = IF d = c THEN k ELSE loc[d].k
                                 /\ loc'[d].ok = IF d = c THEN ok ELSE loc[d].ok
<1>1. \/ /\ loc[c].k + 1 \in Plls /\ Goto(c, "plls")
         /\ loc' = SetNext(loc, c, loc[c].k + 1, ok)
      \/ /\ loc[c].k + 1 \notin Plls /\ Goto(c, "pllend")
         /\ loc' = SetOk(loc, c, ok)
  BY NextPllDoes DEF LocalsOK
<1>2. CASE loc[c].k + 1 \in Plls
  BY <1>1, <1>2, NextSet
<1>3. CASE loc[c].k + 1 \notin Plls
  <2>1. loc[c].k \in Plls
    BY DEF LocalsOK, Locals
  <2>2. \A d \in Callers : /\ loc'[d].src = loc[d].src
                           /\ loc'[d].k = loc[d].k
                           /\ loc'[d].ok = IF d = c THEN ok ELSE loc[d].ok
    BY <1>1, <1>3, OkSet
  <2>. QED  BY <1>1, <1>3, <2>1, <2>2
<1>. QED  BY <1>2, <1>3

(* A PLL that runs from the source its divider was written for has its frequency. *)
LEMMA NominalPll ==
    ASSUME OtherTypes, div[1] = pllsrc
    PROVE  PllMhz = cfg.mhz
<1>1. cfg.mhz \in Nat /\ Mhz(pllsrc) \in {25, 4, 64, 8, 16}
  BY ConfigNat DEF OtherTypes, Mhz, H7Mhz, L4Mhz
<1>2. \A a \in Nat, b \in {25, 4, 64, 8, 16} : (a * b) \div b = a
  BY SMT
<1>3. pllsrc # "one"
  BY DEF OtherTypes, Src
<1>. QED  BY <1>1, <1>2, <1>3 DEF PllMhz

(* Where a call ends, nothing changes for the wait states. *)
LEMMA SpeedKept ==
    ASSUME SpeedOK, PcOK, NEW c \in Callers, Goto(c, "end"),
           c = "nmi" \/ pc["nmi"] = "idle",
           \A d \in Callers : loc'[d].src = loc[d].src,
           UNCHANGED <<chip, cfg, sw, want, ahb, vos, lat, calls>>, pc[c] \notin {"idle", "switch"}
    PROVE  SpeedOK'
<1>1. LatencyTable' = LatencyTable
  BY DEF LatencyTable, TableOf, VosIndex, H7Latency
<1>2. \A m : LatOK(m)' <=> LatOK(m)
  BY <1>1 DEF LatOK
<1>3. \A d \in Callers : pc'[d] = IF d = c THEN "end" ELSE pc[d]
  BY DEF Goto, PcOK
<1>. QED  BY <1>2, <1>3 DEF SpeedOK, SetEarly, Callers

(* Every step keeps the order of PLL, wait states, prescaler and switch. *)
LEMMA ShownStep == ClkInv /\ [Next]_vars /\ Fine' => Shown'
<1>. SUFFICES ASSUME ClkInv, [Next]_vars, Fine' PROVE Shown'
  OBVIOUS
<1>same. /\ PcOK /\ LocalsOK /\ OtherTypes /\ FailsOnce /\ ConfigKnown
         /\ (UNCHANGED <<chip, vos>> => LatencyTable' = LatencyTable)
         /\ (chip' = chip => Plls' = Plls)
  BY TypesAre DEF ClkInv, LatencyTable, TableOf, VosIndex, H7Latency, L4Latency, Plls
<1>before. Fine /\ Shown
  <2>1. hit # "other" => Fine
    BY FixedStep DEF Fine, Portable, Plls
  <2>2. NmiH7 \/ NmiL4 => hit = "no"
    BY <1>same DEF NmiH7, NmiL4, HseFailure, FailsOnce
  <2>3. Fine
    BY <2>1, <2>2, FixedStep DEF Fine
  <2>. QED  BY <2>3 DEF ClkInv, Shown
<1>values. /\ 1 \in Plls /\ cfg.mhz \in Nat /\ calls \in Nat
           /\ \A d \in Callers : loc[d].src \in Src /\ loc[d].k \in Plls /\ loc[d].ok \in BOOLEAN
           /\ \A d \in Callers : loc[d].k + 1 # 1
           /\ \A m \in Nat : m \div 1 = m
  BY <1>same, ConfigNat, ClocksAssumption DEF Plls, OtherTypes, LocalsOK, Locals
<1>. USE <1>same, <1>before, <1>values DEF Shown, PcOK, At, Goto, Callers, hwVars, speedVars,
         statVars, ctlVars, fixVars, histVars
<1>1. CASE PwrInit
  <2>1. PllKnown'
    BY <1>1 DEF PllKnown, AllOff, OtherTypes, PwrInit
  <2>2. PllReported'
    BY <1>1 DEF PllReported, ReadyPll, PwrInit
  <2>3. chip' = "h7" /\ vos' \in {0, 1, 3} /\ ahb' = 1 /\ lat' = 7 /\ sw' = "hsi" /\ want' = "hsi"
    BY <1>1 DEF PwrInit, SpeedOK
  <2>4. Enough(LatencyTable', 64, 7)
    BY <2>3 DEF Enough, LatencyTable, TableOf, VosIndex, H7Latency
  <2>5. SpeedOK'
    BY <1>1, <2>3, <2>4 DEF SpeedOK, LatOK, SetEarly, PwrInit
  <2>. QED  BY <2>1, <2>2, <2>5
<1>2. CASE RccInit
  <2>1. /\ Goto("task", "hse") /\ lat' = (IF chip = "l4" THEN 4 ELSE lat)
        /\ pc["task"] = "idle" /\ pc["nmi"] = "idle" /\ calls' = calls + 1
        /\ UNCHANGED <<hwVars, ahb, vos, level, statVars, fixVars, hse_enable, hit>>
    BY <1>2 DEF RccInit, FlashFirst
  <2>2. "task" \in Callers /\ loc' = SetOk(loc, "task", TRUE)
    BY <1>2 DEF RccInit, SetOk
  <2>3. \A d \in Callers : loc'[d].src = loc[d].src /\ loc'[d].k = loc[d].k
    BY <2>2, OkSet
  <2>4. PllKnown'
    BY <2>1, <2>3 DEF PllKnown, AllOff, OtherTypes
  <2>5. PllReported'
    BY <2>1, <2>3 DEF PllReported, ReadyPll
  <2>6. chip = "l4" => Enough(LatencyTable, cfg.mhz, 4)
    BY EnoughAlways, Frequencies DEF OtherTypes
  <2>7. CASE chip = "l4"
    <3>1. ahb = 1 /\ Enough(LatencyTable', cfg.mhz', lat')
      BY <2>1, <2>6, <2>7 DEF SpeedOK
    <3>. QED  BY <2>1, <2>3, <2>4, <2>5, <2>7, <3>1 DEF SpeedOK, LatOK, SetEarly
  <2>8. CASE chip # "l4"
    <3>1. lat' = lat /\ calls' # 0 /\ LatencyTable' = LatencyTable
      BY <2>1, <2>8
    <3>2. SpeedOK'
      BY <2>1, <2>3, <2>8, <3>1 DEF SpeedOK, LatOK, SetEarly
    <3>. QED  BY <2>4, <2>5, <3>2
  <2>. QED  BY <2>7, <2>8
<1>3. CASE HseH7
  <2>1. \A i \in Plls : pll'[i] = "off" <=> pll[i] = "off"
    BY <1>3 DEF HseH7, HseOutcome, Unfed, OtherTypes
  <2>2. PllKnown'
    BY <1>3, <2>1 DEF PllKnown, AllOff, HseH7, HseOutcome
  <2>3. PllReported'
    BY <1>3, <2>1 DEF PllReported, ReadyPll, HseH7, HseOutcome
  <2>4. SpeedOK'
    BY <1>3 DEF SpeedOK, LatOK, SetEarly, HseH7, HseOutcome
  <2>. QED  BY <2>2, <2>3, <2>4
<1>4. CASE HseL4
  <2>7. PllKnown'
    BY <1>4 DEF PllKnown, AllOff, OtherTypes, HseL4, HseOutcome
  <2>8. PllReported'
    BY <1>4 DEF PllKnown, AllOff, OtherTypes, PllReported, ReadyPll, HseL4, HseOutcome
  <2>9. SpeedOK'
    BY <1>4 DEF SpeedOK, LatOK, SetEarly, HseL4, HseOutcome
  <2>. QED  BY <2>7, <2>8, <2>9
<1>5. CASE HseUnused
  <2>7. PllKnown'
    BY <1>5 DEF PllKnown, AllOff, OtherTypes, HseUnused
  <2>8. PllReported'
    BY <1>5 DEF PllKnown, AllOff, OtherTypes, PllReported, ReadyPll, HseUnused
  <2>9. SpeedOK'
    BY <1>5 DEF SpeedOK, LatOK, SetEarly, HseUnused
  <2>. QED  BY <2>7, <2>8, <2>9
<1>6. CASE Csi
  <2>7. PllKnown'
    BY <1>6 DEF PllKnown, AllOff, OtherTypes, Csi, StartOsc
  <2>8. PllReported'
    BY <1>6 DEF PllKnown, AllOff, OtherTypes, PllReported, ReadyPll, Csi, StartOsc
  <2>9. SpeedOK'
    BY <1>6 DEF SpeedOK, LatOK, SetEarly, Csi, StartOsc
  <2>. QED  BY <2>7, <2>8, <2>9
<1>7. CASE Hsi
  <2>7. PllKnown'
    BY <1>7 DEF PllKnown, AllOff, OtherTypes, Hsi, StartOsc
  <2>8. PllReported'
    BY <1>7 DEF PllKnown, AllOff, OtherTypes, PllReported, ReadyPll, Hsi, StartOsc
  <2>9. SpeedOK'
    BY <1>7 DEF SpeedOK, LatOK, SetEarly, Hsi, StartOsc
  <2>. QED  BY <2>7, <2>8, <2>9
<1>8. ASSUME NEW c \in Callers, PllChoose(c) PROVE Shown'
  <2>1. PICK l \in {"sys", "end", "disable", "plls"} :
           /\ Goto(c, l) /\ (l = "plls" => chip # "h7") /\ (l = "end" => c # "nmi" /\ chip # "l4")
           /\ (c = "task" /\ chip = "h7" => l # "sys") /\ (chip = "l4" => l # "disable")
    BY <1>8 DEF PllChoose, AfterPll, OtherTypes
  <2>2. /\ pc[c] = "pll" /\ (c = "nmi" \/ pc["nmi"] = "idle")
        /\ UNCHANGED <<hwVars, speedVars, statVars, fixVars, histVars>>
    BY <1>8 DEF PllChoose
  <2>3. \A d \in Callers :
            loc'[d] = IF d = c THEN [src |-> BestSource, k |-> 1, ok |-> TRUE] ELSE loc[d]
    BY <1>8 DEF PllChoose, LocalsOK
  <2>4. loc'[c].k = 1 /\ \A d \in Callers \ {c} : loc'[d] = loc[d]
    BY <2>3
  <2>5. PllKnown'
    BY <2>1, <2>2, <2>4 DEF PllKnown, AllOff, OtherTypes
  <2>6. PllReported'
    BY <2>1, <2>2, <2>4 DEF PllReported, ReadyPll
  <2>7. SpeedOK'
    BY <2>1, <2>2, <2>4 DEF SpeedOK, LatOK, SetEarly
  <2>. QED  BY <2>5, <2>6, <2>7
<1>9. ASSUME NEW c \in Callers, PllDisable(c) PROVE Shown'
  <2>1. \A i \in Plls : pll[i] = "off" => pll'[i] = "off"
    BY <1>9 DEF PllDisable, Disabled
  <2>2. sw = "pll" => pll'[1] = pll[1]
    BY <1>9 DEF PllDisable, Disabled
  <2>3. PllKnown'
    BY <1>9, <2>1, <2>2 DEF PllKnown, AllOff, PllDisable
  <2>4. PllReported'
    BY <1>9, <2>1, <2>2 DEF PllReported, ReadyPll, PllKnown, PllDisable
  <2>5. SpeedOK'
    BY <1>9 DEF SpeedOK, LatOK, SetEarly, PllDisable
  <2>. QED  BY <2>3, <2>4, <2>5
<1>10. ASSUME NEW c \in Callers, PllWaitOff(c) PROVE Shown'
  <2>7. PllKnown'
    BY <1>10 DEF PllKnown, AllOff, OtherTypes, PllWaitOff, AfterPll
  <2>8. PllReported'
    BY <1>10 DEF PllKnown, AllOff, OtherTypes, PllReported, ReadyPll, PllWaitOff, AfterPll
  <2>9. SpeedOK'
    BY <1>10 DEF SpeedOK, LatOK, SetEarly, PllWaitOff, AfterPll
  <2>. QED  BY <2>7, <2>8, <2>9
<1>11. ASSUME NEW c \in Callers, PllSource(c) PROVE Shown'
  <2>1. AllOff \/ pllsrc' = pllsrc
    BY <1>11 DEF PllSource
  <2>2. /\ pc[c] = "source" /\ (c = "nmi" \/ pc["nmi"] = "idle") /\ Goto(c, "plls")
        /\ pllsrc' = (IF AllOff THEN loc[c].src ELSE pllsrc)
        /\ UNCHANGED <<osc, css, pll, div, sw, want, speedVars, statVars, loc, fixVars, histVars>>
    BY <1>11 DEF PllSource
  <2>3. PllKnown'
    BY <2>1, <2>2 DEF PllKnown, AllOff
  <2>4. PllReported'
    BY <2>2 DEF PllReported, ReadyPll
  <2>5. SpeedOK'
    BY <2>2 DEF SpeedOK, LatOK, SetEarly
  <2>. QED  BY <2>3, <2>4, <2>5
<1>12. ASSUME NEW c \in Callers, PllSkip(c) PROVE Shown'
  <2>1. PICK ok \in BOOLEAN : NextPll(c, ok) /\ (ok => loc[c].ok /\ ~PllUsed(loc[c].k))
    BY <1>12 DEF PllSkip
  <2>3. PICK k \in Plls, l \in {"plls", "pllend"} :
           /\ Goto(c, l) /\ (l = "plls" => k = loc[c].k + 1)
           /\ \A d \in Callers : /\ loc'[d].src = loc[d].src
                                 /\ loc'[d].k = IF d = c THEN k ELSE loc[d].k
                                 /\ loc'[d].ok = IF d = c THEN ok ELSE loc[d].ok
    BY <2>1, NextPllLocals
  <2>4. l = "plls" => k # 1
    BY <2>3
  <2>5. /\ pc[c] = "plls" /\ (c = "nmi" \/ pc["nmi"] = "idle")
        /\ st_pll' = st_pll \ {loc[c].k}
        /\ UNCHANGED <<hwVars, speedVars, st_osc, st_sys, inited, fixVars, histVars>>
    BY <1>12 DEF PllSkip, PllKnown
  <2>6. loc'[c].ok => loc[c].ok /\ loc[c].k # 1
    BY <2>1, <2>3 DEF PllUsed
  <2>7. PllKnown'
    BY <2>3, <2>5 DEF PllKnown, AllOff
  <2>8. PllReported'
    <3>1. CASE c = "task"
      BY <2>3, <2>4, <2>5, <2>6, <3>1 DEF PllReported, ReadyPll
    <3>2. CASE c = "nmi"
      BY <2>3, <2>4, <2>5, <2>6, <3>2 DEF PllReported, ReadyPll
    <3>. QED  BY <3>1, <3>2
  <2>9. SpeedOK'
    BY <2>3, <2>5 DEF SpeedOK, LatOK, SetEarly
  <2>. QED  BY <2>7, <2>8, <2>9
<1>13. ASSUME NEW c \in Callers, PllEnable(c) PROVE Shown'
  <2>7. PllKnown'
    BY <1>13 DEF PllKnown, AllOff, OtherTypes, PllEnable, Program, MScaled
  <2>8. PllReported'
    BY <1>13 DEF PllKnown, AllOff, OtherTypes, PllReported, ReadyPll, PllEnable, Program, MScaled
  <2>9. SpeedOK'
    BY <1>13 DEF SpeedOK, LatOK, SetEarly, PllEnable, Program, MScaled
  <2>. QED  BY <2>7, <2>8, <2>9
<1>14. ASSUME NEW c \in Callers, PllEnableL4(c) PROVE Shown'
  <2>1. loc[c].k = 1 /\ chip = "l4"
    BY <1>14 DEF PllEnableL4, Plls
  <2>2. Scales(c)
    BY <2>1 DEF Fine, Portable, Scales
  <2>3. Program(c, loc[c].src)
    BY <1>14, <2>2 DEF PllEnableL4
  <2>4. /\ pc[c] = "plls" /\ Goto(c, "lock")
        /\ pllsrc' = (IF pll[1] = "off" THEN loc[c].src ELSE pllsrc)
        /\ UNCHANGED <<osc, css, sw, want, speedVars, statVars, loc, fixVars, histVars>>
    BY <1>14 DEF PllEnableL4
  <2>5. /\ pll'[1] # "off" /\ div'[1] = pllsrc'
    BY <2>1, <2>3, <2>4 DEF Program, MScaled, PllKnown, OtherTypes
  <2>6. PllKnown'
    BY <1>14, <2>1, <2>4, <2>5 DEF PllKnown, AllOff, Plls
  <2>7. PllReported'
    BY <1>14, <2>1, <2>4, <2>5 DEF PllReported, ReadyPll
  <2>8. SpeedOK'
    BY <2>4 DEF SpeedOK, LatOK, SetEarly
  <2>. QED  BY <2>6, <2>7, <2>8
<1>15. ASSUME NEW c \in Callers, PllLocked(c) PROVE Shown'
  <2>1. PICK ok \in BOOLEAN : NextPll(c, ok) /\ (ok => loc[c].ok)
    BY <1>15 DEF PllLocked
  <2>3. PICK k \in Plls, l \in {"plls", "pllend"} :
           /\ Goto(c, l) /\ (l = "plls" => k = loc[c].k + 1)
           /\ \A d \in Callers : /\ loc'[d].src = loc[d].src
                                 /\ loc'[d].k = IF d = c THEN k ELSE loc[d].k
                                 /\ loc'[d].ok = IF d = c THEN ok ELSE loc[d].ok
    BY <2>1, NextPllLocals
  <2>4. l = "plls" => k # 1
    BY <2>3
  <2>5. /\ pc[c] = "lock" /\ (c = "nmi" \/ pc["nmi"] = "idle")
        /\ st_pll' = st_pll \cup {loc[c].k} /\ pll[loc[c].k] # "off"
        /\ UNCHANGED <<hwVars, speedVars, st_osc, st_sys, inited, fixVars, histVars>>
    BY <1>15 DEF PllLocked
  <2>6. loc'[c].ok => loc[c].ok
    BY <2>1, <2>3
  <2>7. PllKnown'
    BY <2>3, <2>5 DEF PllKnown, AllOff
  <2>8. PllReported'
    <3>1. CASE c = "task"
      BY <2>3, <2>4, <2>5, <2>6, <3>1 DEF PllReported, ReadyPll
    <3>2. CASE c = "nmi"
      BY <2>3, <2>4, <2>5, <2>6, <3>2 DEF PllReported, ReadyPll
    <3>. QED  BY <3>1, <3>2
  <2>9. SpeedOK'
    BY <2>3, <2>5 DEF SpeedOK, LatOK, SetEarly
  <2>. QED  BY <2>7, <2>8, <2>9
<1>16. ASSUME NEW c \in Callers, PllTimeout(c) PROVE Shown'
  <2>1. PICK ok \in BOOLEAN : NextPll(c, ok) /\ ~ok
    BY <1>16 DEF PllTimeout
  <2>3. PICK k \in Plls, l \in {"plls", "pllend"} :
           /\ Goto(c, l) /\ (l = "plls" => k = loc[c].k + 1)
           /\ \A d \in Callers : /\ loc'[d].src = loc[d].src
                                 /\ loc'[d].k = IF d = c THEN k ELSE loc[d].k
                                 /\ loc'[d].ok = IF d = c THEN ok ELSE loc[d].ok
    BY <2>1, NextPllLocals
  <2>4. l = "plls" => k # 1
    BY <2>3
  <2>5. /\ pc[c] = "lock" /\ (c = "nmi" \/ pc["nmi"] = "idle")
        /\ st_pll' = st_pll \ {loc[c].k}
        /\ UNCHANGED <<hwVars, speedVars, st_osc, st_sys, inited, fixVars, histVars>>
    BY <1>16 DEF PllTimeout
  <2>6. ~loc'[c].ok
    BY <2>1, <2>3
  <2>7. PllKnown'
    BY <2>3, <2>5 DEF PllKnown, AllOff
  <2>8. PllReported'
    <3>1. CASE c = "task"
      BY <2>3, <2>4, <2>5, <2>6, <3>1 DEF PllReported, ReadyPll
    <3>2. CASE c = "nmi"
      BY <2>3, <2>4, <2>5, <2>6, <3>2 DEF PllReported, ReadyPll
    <3>. QED  BY <3>1, <3>2
  <2>9. SpeedOK'
    BY <2>3, <2>5 DEF SpeedOK, LatOK, SetEarly
  <2>. QED  BY <2>7, <2>8, <2>9
<1>17. ASSUME NEW c \in Callers, PllEnd(c) PROVE Shown'
  <2>1. /\ pc[c] = "pllend" /\ (c = "nmi" \/ pc["nmi"] = "idle") /\ loc' = SetOk(loc, c, TRUE)
    BY <1>17 DEF PllEnd, SetOk
  <2>2. PICK l \in {"sys", "end"} :
           /\ Goto(c, l) /\ (l = "end" => c = "task" /\ chip = "h7")
           /\ c = "task" /\ chip = "h7" /\ l = "sys" => loc[c].ok
    BY <1>17 DEF PllEnd, AfterPll, OtherTypes
  <2>3. IF chip = "h7" /\ ~loc[c].ok THEN pll' = Disabled(Plls) /\ st_pll' = {}
                                  ELSE UNCHANGED <<pll, st_pll>>
    BY <1>17 DEF PllEnd
  <2>4. UNCHANGED <<osc, css, pllsrc, div, sw, want, speedVars, st_osc, st_sys, inited,
                    fixVars, histVars>>
    BY <1>17 DEF PllEnd
  <2>5. \A d \in Callers : /\ loc'[d].src = loc[d].src /\ loc'[d].k = loc[d].k
                           /\ d # c => loc'[d].ok = loc[d].ok
    BY <2>1, OkSet
  <2>6. /\ sw = "pll" => pll'[1] = pll[1]
        /\ \A i \in Plls : pll[i] = "off" => pll'[i] = "off"
    BY <2>3 DEF Disabled
  <2>7. PllKnown'
    BY <2>1, <2>2, <2>4, <2>5, <2>6 DEF PllKnown, AllOff
  <2>8. PllReported'
    <3>1. CASE chip = "h7" /\ ~loc[c].ok
      BY <2>1, <2>2, <2>3, <2>4, <2>5, <3>1 DEF PllReported, ReadyPll, PllKnown
    <3>2. CASE ~(chip = "h7" /\ ~loc[c].ok)
      BY <2>1, <2>2, <2>3, <2>4, <2>5, <3>2 DEF PllReported, ReadyPll
    <3>. QED  BY <3>1, <3>2
  <2>9. SpeedOK'
    <3>1. CASE c = "task"
      BY <2>1, <2>2, <2>4, <2>5, <3>1 DEF SpeedOK, LatOK, SetEarly
    <3>2. CASE c = "nmi"
      BY <2>1, <2>2, <2>4, <2>5, <3>2 DEF SpeedOK, LatOK, SetEarly, PllKnown
    <3>. QED  BY <3>1, <3>2
  <2>. QED  BY <2>7, <2>8, <2>9
<1>18. ASSUME NEW c \in Callers, SysChoose(c) PROVE Shown'
  <2>1. /\ pc[c] = "sys" /\ (c = "nmi" \/ pc["nmi"] = "idle")
        /\ UNCHANGED <<hwVars, speedVars, st_osc, st_pll, inited, fixVars, histVars>>
    BY <1>18 DEF SysChoose
  <2>2. CASE SysFails(c)
    <3>1. Goto(c, "end") /\ loc' = SetOk(loc, c, FALSE)
      BY <2>2 DEF SysFails, SetOk
    <3>2. \A d \in Callers : /\ loc'[d].src = loc[d].src /\ loc'[d].k = loc[d].k
                             /\ d # c => loc'[d].ok = loc[d].ok
      BY <3>1, OkSet
    <3>3. PllKnown'
      BY <2>1, <3>1, <3>2 DEF PllKnown, AllOff
    <3>4. PllReported'
      BY <2>1, <3>1, <3>2 DEF PllReported, ReadyPll
    <3>5. SpeedOK'
      BY <2>1, <3>1, <3>2, SpeedKept
    <3>. QED  BY <3>3, <3>4, <3>5
  <2>3. CASE ~SysFails(c)
    <3>1. PICK s : /\ loc' = SetSrc(loc, c, s) /\ (s = "pll" => cfg.mhz # 0)
                   /\ s = "pll" <=> 1 \in st_pll
      <4>. DEFINE best == IF 1 \in st_pll THEN "pll" ELSE BestSource
                  t == IF best = "none" /\ chip = "l4" THEN "msi" ELSE best
      <4>1. t = "pll" <=> 1 \in st_pll
        BY BestIs
      <4>2. loc' = SetSrc(loc, c, t) /\ (t = "pll" => cfg.mhz # 0)
        BY <2>3, <1>18 DEF SysChoose, SetSrc
      <4>. QED  BY <4>1, <4>2
    <3>2. Goto(c, IF chip = "h7" THEN "latency" ELSE "switch")
      BY <2>3, <1>18 DEF SysChoose
    <3>3. \A d \in Callers : /\ loc'[d].k = loc[d].k /\ loc'[d].ok = loc[d].ok
                             /\ loc'[d].src = IF d = c THEN s ELSE loc[d].src
      BY <3>1, SrcSet
    <3>4. chip = "h7" /\ s = "pll" => pll[1] # "off"
      BY <2>1, <3>1 DEF PllReported, ReadyPll, OtherTypes
    <3>5. PllKnown'
      BY <2>1, <3>2, <3>3 DEF PllKnown, AllOff
    <3>6. PllReported'
      BY <2>1, <3>1, <3>2, <3>3, <3>4 DEF PllReported, ReadyPll
    <3>7. SpeedOK'
      BY <2>1, <3>1, <3>2, <3>3 DEF SpeedOK, LatOK, SetEarly
    <3>. QED  BY <3>5, <3>6, <3>7
  <2>. QED  BY <2>2, <2>3
<1>19. ASSUME NEW c \in Callers, SysLatency(c) PROVE Shown'
  <2>1. /\ pc[c] = "latency" /\ (c = "nmi" \/ pc["nmi"] = "idle")
        /\ UNCHANGED <<hwVars, ahb, vos, level, st_osc, st_pll, inited, fixVars, histVars>>
    BY <1>19 DEF SysLatency
  <2>. DEFINE axi == SrcMhz(loc[c].src) \div 2
  <2>2. CASE Rows(axi) = {}
    <3>1. Goto(c, "end") /\ loc' = SetOk(loc, c, FALSE) /\ lat' = lat
      BY <2>2, <1>19 DEF SysLatency, SysFails, SetOk
    <3>2. \A d \in Callers : /\ loc'[d].src = loc[d].src /\ loc'[d].k = loc[d].k
                             /\ d # c => loc'[d].ok = loc[d].ok
      BY <3>1, OkSet
    <3>3. PllKnown'
      BY <2>1, <3>1, <3>2 DEF PllKnown, AllOff
    <3>4. PllReported'
      BY <2>1, <3>1, <3>2 DEF PllReported, ReadyPll
    <3>5. SpeedOK'
      BY <2>1, <3>1, <3>2, SpeedKept
    <3>. QED  BY <3>3, <3>4, <3>5
  <2>3. CASE Rows(axi) # {}
    <3>1. Goto(c, "switch") /\ lat' = SelectLatency(axi) /\ loc' = loc
      BY <2>3, <1>19 DEF SysLatency
    <3>2. PllKnown'
      BY <2>1, <3>1 DEF PllKnown, AllOff
    <3>3. PllReported'
      BY <2>1, <3>1 DEF PllReported, ReadyPll
    <3>4. chip = "h7"
      BY <2>1 DEF SpeedOK, OtherTypes
    <3>5. CASE loc[c].src = "pll"
      <4>1. PllMhz = cfg.mhz
        BY <2>1, <3>4, <3>5, NominalPll DEF PllReported, PllKnown, SpeedOK
      <4>2. axi = cfg.mhz \div 2 /\ axi \in Nat /\ (cfg.mhz <= 90 \/ axi > 45)
        BY <3>4, <3>5, <4>1, Frequencies DEF SrcMhz
      <4>3. Enough(LatencyTable', cfg.mhz \div 2, lat')
        BY <2>1, <2>3, <3>1, <3>4, <4>2, SelectedCovers DEF OtherTypes
      <4>4. vos # 3 \/ cfg.mhz > 90 => Enough(LatencyTable', 64, lat')
        BY <2>1, <2>3, <3>1, <3>4, <4>2, EnoughFor64 DEF OtherTypes
      <4>5. ahb = 1 => c = "task"
        BY <2>1 DEF SpeedOK
      <4>6. SpeedOK'
        BY <2>1, <3>1, <3>4, <4>3, <4>4, <4>5 DEF SpeedOK, LatOK, SetEarly, OtherTypes
      <4>. QED  BY <3>2, <3>3, <4>6
    <3>6. CASE loc[c].src # "pll"
      <4>1. c = "nmi" /\ sw = "hsi" /\ want = "hsi" /\ ahb = 2
        BY <2>1, <3>4, <3>6 DEF PllReported, SpeedOK
      <4>2. SpeedOK'
        BY <2>1, <3>1, <3>4, <3>6, <4>1 DEF SpeedOK, LatOK, SetEarly, PllKnown
      <4>. QED  BY <3>2, <3>3, <4>2
    <3>. QED  BY <3>5, <3>6
  <2>. QED  BY <2>2, <2>3
<1>20. ASSUME NEW c \in Callers, SysSwitch(c) PROVE Shown'
  <2>1. /\ pc[c] = "switch" /\ (c = "nmi" \/ pc["nmi"] = "idle") /\ chip = "h7"
        /\ ahb' = 2 /\ want' = loc[c].src /\ Goto(c, "wait")
        /\ UNCHANGED <<osc, css, pllsrc, pll, div, sw, vos, level, lat, statVars, loc,
                       fixVars, histVars>>
    BY <1>20 DEF SysSwitch, SwitchTo
  <2>2. PllKnown'
    BY <2>1 DEF PllKnown, AllOff
  <2>3. PllReported'
    BY <2>1 DEF PllReported, ReadyPll
  <2>4. sw = "pll" \/ want' = "pll" => LatOK(cfg.mhz \div 2)
    BY <2>1 DEF SpeedOK, OtherTypes
  <2>5. calls # 0
    BY <2>1 DEF SpeedOK
  <2>6. SpeedOK'
    BY <2>1, <2>4, <2>5 DEF SpeedOK, LatOK, SetEarly, PllKnown
  <2>. QED  BY <2>2, <2>3, <2>6
<1>21. ASSUME NEW c \in Callers, SysSwitchL4(c) PROVE Shown'
  <2>1. /\ pc[c] = "switch" /\ (c = "nmi" \/ pc["nmi"] = "idle") /\ chip = "l4"
        /\ want' = loc[c].src /\ Goto(c, "wait")
        /\ UNCHANGED <<osc, css, pllsrc, pll, div, sw, speedVars, statVars, loc, fixVars, histVars>>
    BY <1>21 DEF SysSwitchL4, SwitchTo
  <2>2. PllKnown'
    BY <2>1 DEF PllKnown, AllOff
  <2>3. PllReported'
    BY <2>1 DEF PllReported, ReadyPll
  <2>4. Enough(LatencyTable, cfg.mhz, 4)
    BY <2>1, EnoughAlways, Frequencies DEF OtherTypes
  <2>5. LatOK(cfg.mhz) /\ ahb = 1
    BY <2>1, <2>4 DEF SpeedOK, LatOK, SetEarly
  <2>6. SpeedOK'
    BY <2>1, <2>5 DEF SpeedOK, LatOK, SetEarly, PllKnown
  <2>. QED  BY <2>2, <2>3, <2>6
<1>22. ASSUME NEW c \in Callers, SysSwitched(c) PROVE Shown'
  <2>7. PllKnown'
    BY <1>22 DEF PllKnown, AllOff, OtherTypes, SysSwitched, OtherTypes
  <2>8. PllReported'
    BY <1>22 DEF PllKnown, AllOff, OtherTypes, PllReported, ReadyPll, SysSwitched, OtherTypes
  <2>9. SpeedOK'
    BY <1>22 DEF SpeedOK, LatOK, SetEarly, SysSwitched, OtherTypes
  <2>. QED  BY <2>7, <2>8, <2>9
<1>23. ASSUME NEW c \in Callers, SysTimeout(c) PROVE Shown'
  <2>1. /\ pc[c] = "wait" /\ (c = "nmi" \/ pc["nmi"] = "idle")
        /\ UNCHANGED <<hwVars, speedVars, st_osc, st_pll, inited, fixVars, histVars>>
    BY <1>23 DEF SysTimeout
  <2>2. Goto(c, "end") /\ loc' = SetOk(loc, c, FALSE)
    BY <1>23 DEF SysTimeout, SysFails, SetOk
  <2>3. \A d \in Callers : /\ loc'[d].src = loc[d].src /\ loc'[d].k = loc[d].k
                           /\ d # c => loc'[d].ok = loc[d].ok
    BY <2>2, OkSet
  <2>4. PllKnown'
    BY <2>1, <2>2, <2>3 DEF PllKnown, AllOff
  <2>5. PllReported'
    BY <2>1, <2>2, <2>3 DEF PllReported, ReadyPll
  <2>6. SpeedOK'
    BY <2>1, <2>2, <2>3, SpeedKept
  <2>. QED  BY <2>4, <2>5, <2>6
<1>24. ASSUME NEW c \in Callers, SysAdjust(c) PROVE Shown'
  <2>1. /\ pc[c] = "adjust" /\ (c = "nmi" \/ pc["nmi"] = "idle") /\ Goto(c, "end")
        /\ lat' = (IF Rows(SrcMhz(sw)) = {} THEN 4 ELSE SelectLatency(SrcMhz(sw)))
        /\ UNCHANGED <<hwVars, ahb, vos, level, statVars, loc, fixVars, histVars>>
    BY <1>24 DEF SysAdjust
  <2>2. PllKnown'
    BY <2>1 DEF PllKnown, AllOff
  <2>3. PllReported'
    BY <2>1 DEF PllReported, ReadyPll
  <2>4. chip = "l4" /\ sw = want /\ ahb = 1
    BY <2>1 DEF SpeedOK
  <2>5. sw = "pll" => Enough(LatencyTable, cfg.mhz, lat')
    <3>1. Enough(LatencyTable, cfg.mhz, 4)
      BY <2>4, EnoughAlways, Frequencies DEF OtherTypes
    <3>2. sw = "pll" => SrcMhz(sw) = cfg.mhz
      BY NominalPll DEF SrcMhz, PllKnown
    <3>. QED  BY <2>1, <3>1, <3>2, SelectedCovers DEF OtherTypes
  <2>6. SpeedOK'
    BY <2>1, <2>4, <2>5 DEF SpeedOK, LatOK, SetEarly, PllKnown
  <2>. QED  BY <2>2, <2>3, <2>6
<1>25. ASSUME NEW c \in Callers, End(c) PROVE Shown'
  <2>7. PllKnown'
    BY <1>25 DEF PllKnown, AllOff, OtherTypes, End
  <2>8. PllReported'
    BY <1>25 DEF PllKnown, AllOff, OtherTypes, PllReported, ReadyPll, End
  <2>9. SpeedOK'
    BY <1>25 DEF SpeedOK, LatOK, SetEarly, End
  <2>. QED  BY <2>7, <2>8, <2>9
<1>26. CASE NmiH7 \/ NmiL4
  <2>1. HseFailure /\ Goto("nmi", "pll") /\ pc["nmi"] = "idle" /\ css
    BY <1>26 DEF NmiH7, NmiL4, HseFailure
  <2>2. pc["task"] = "idle" /\ sw = "pll" /\ pllsrc = "hse" /\ NeedsHse
    BY <2>1 DEF HseFailure, Fine, NeedsHse
  <2>3. /\ sw' = Fallback /\ want' = Fallback /\ st_pll' = {}
        /\ UNCHANGED <<pllsrc, div, speedVars, inited, loc, fixVars, calls>>
        /\ pll' = [Unfed(FALSE) EXCEPT ![1] = "off"]
    BY <2>1, <2>2 DEF HseFailure
  <2>4. pll'[1] = "off" /\ \A i \in Plls : pll[i] = "off" => pll'[i] = "off"
    BY <2>3 DEF Unfed
  <2>5. sw' # "pll" /\ (chip = "h7" => sw' = "hsi") /\ want' = sw'
    BY <2>3 DEF Fallback
  <2>6. LatOK(cfg.mhz \div ahb)
    BY <2>2 DEF SpeedOK
  <2>7. PllKnown'
    BY <2>1, <2>2, <2>3, <2>4, <2>5 DEF PllKnown, AllOff
  <2>8. PllReported'
    BY <2>1, <2>2, <2>3, <2>4 DEF PllReported, ReadyPll
  <2>9. SpeedOK'
    <3>1. chip = "h7" => ahb = 2 /\ calls # 0
      BY <2>2 DEF SpeedOK, OtherTypes
    <3>2. chip = "l4" => LatOK(cfg.mhz)
      BY <2>6 DEF SpeedOK
    <3>. QED  BY <2>1, <2>2, <2>3, <2>5, <3>1, <3>2 DEF SpeedOK, LatOK, SetEarly, OtherTypes
  <2>. QED  BY <2>7, <2>8, <2>9
<1>27. ASSUME NEW i \in Plls, Lock(i) PROVE Shown'
  <2>7. PllKnown'
    BY <1>27 DEF PllKnown, AllOff, OtherTypes, Lock
  <2>8. PllReported'
    BY <1>27 DEF PllKnown, AllOff, OtherTypes, PllReported, ReadyPll, Lock
  <2>9. SpeedOK'
    BY <1>27 DEF SpeedOK, LatOK, SetEarly, Lock
  <2>. QED  BY <2>7, <2>8, <2>9
<1>28. CASE SystemSwitches
  <2>7. PllKnown'
    BY <1>28 DEF PllKnown, AllOff, OtherTypes, SystemSwitches, Running
  <2>8. PllReported'
    BY <1>28 DEF PllKnown, AllOff, OtherTypes, PllReported, ReadyPll, SystemSwitches, Running
  <2>9. SpeedOK'
    BY <1>28 DEF SpeedOK, LatOK, SetEarly, SystemSwitches, Running
  <2>. QED  BY <2>7, <2>8, <2>9
<1>29. CASE UNCHANGED vars
  <2>7. PllKnown'
    BY <1>29 DEF PllKnown, AllOff, OtherTypes, vars
  <2>8. PllReported'
    BY <1>29 DEF PllKnown, AllOff, OtherTypes, PllReported, ReadyPll, vars
  <2>9. SpeedOK'
    BY <1>29 DEF SpeedOK, LatOK, SetEarly, vars
  <2>. QED  BY <2>7, <2>8, <2>9
<1>30. CASE VoltageComes
  <2>7. PllKnown'
    BY <1>30 DEF PllKnown, AllOff, OtherTypes, VoltageComes
  <2>8. PllReported'
    BY <1>30 DEF PllReported, ReadyPll, VoltageComes
  <2>9. SpeedOK'
    BY <1>30 DEF SpeedOK, LatOK, SetEarly, VoltageComes
  <2>. QED  BY <2>7, <2>8, <2>9
<1>. QED  BY <1>1, <1>2, <1>3, <1>4, <1>5, <1>6, <1>7, <1>8, <1>9, <1>10, <1>11, <1>12, <1>13,
             <1>14, <1>15, <1>16, <1>17, <1>18, <1>19, <1>20, <1>21, <1>22, <1>23, <1>24, <1>25,
             <1>26, <1>27, <1>28, <1>29, <1>30 DEF Next, CodeStep, PllStep, SysStep, Hardware

(* The invariant holds after a reset. *)
LEMMA ClkInitially == Init => ClkInv
<1>. SUFFICES ASSUME Init PROVE ClkInv
  OBVIOUS
<1>1. 1 \in Plls /\ \A m \in Plls : m \in Nat
  BY ClocksAssumption DEF Plls
<1>2. /\ cfg \in Config
      /\ \/ chip = "h7" /\ vos = 3 /\ lat = 7 /\ sw = "hsi" /\ cfg.mhz \in H7Freqs
         \/ chip = "l4" /\ vos = 1 /\ lat = 0 /\ sw = "msi" /\ cfg.mhz \in L4Freqs
      /\ level = vos
  BY DEF Init, H7Config, L4Config
<1>3. OtherTypes
  <2>1. /\ chip \in {"h7", "l4"} /\ cfg \in Config /\ sw \in Src /\ want = sw /\ osc = {sw}
        /\ vos \in 0..3 /\ lat \in 0..7 /\ ahb = 1 /\ (chip = "h7" => vos \in {0, 1, 3})
        /\ level = vos
    BY <1>2 DEF Init, Src
  <2>2. /\ pll \in [Plls -> {"off", "on", "locked"}] /\ div \in [Plls -> Src \cup {"one"}]
        /\ css \in BOOLEAN /\ pllsrc \in Src /\ st_osc \subseteq Src /\ st_pll \subseteq Plls
    BY DEF Init, Src
  <2>3. st_sys \in BOOLEAN /\ inited \in BOOLEAN /\ hse_enable \in BOOLEAN
    BY DEF Init
  <2>4. calls \in 0..MaxInit /\ hit \in {"no", "system", "other"}
    BY ClocksAssumption DEF Init
  <2>. QED  BY <2>1, <2>2, <2>3, <2>4 DEF OtherTypes
<1>4. PcOK /\ LocalsOK
  BY <1>1 DEF Init, PcOK, LocalsOK, Locals, Callers, Steps, Src
<1>5. FailsOnce /\ ConfigKnown
  BY <1>2 DEF Init, FailsOnce, ConfigKnown, Callers
<1>6. PllKnown /\ PllReported
  BY <1>1, <1>2 DEF Init, PllKnown, PllReported, Callers
<1>7. LatOK(64) \/ chip = "l4"
  BY <1>2, EnoughAlways DEF LatOK
<1>8. SpeedOK
  BY <1>2, <1>7 DEF Init, SpeedOK, Callers
<1>. QED  BY <1>3, <1>4, <1>5, <1>6, <1>8, TypesAre DEF ClkInv

(* Every step keeps it. *)
LEMMA ClkKept == ClkInv /\ [Next]_vars => ClkInv'
<1>. SUFFICES ASSUME ClkInv, [Next]_vars PROVE ClkInv'
  OBVIOUS
<1>1. PcOK /\ OtherTypes
  BY TypesAre DEF ClkInv
<1>2. ClockTypes' /\ FailsOnce'
  BY <1>1, TypesStep, FailsOnceStep DEF ClkInv
<1>3. ConfigKnown'
  BY FixedStep DEF ClkInv, ConfigKnown
<1>4. Fine' => Shown'
  BY ShownStep
<1>. QED  BY <1>2, <1>3, <1>4 DEF ClkInv, Shown

(* With it, the wait states cover the present clock, by the table the driver reads. *)
LEMMA ClkIsRead ==
    ClkInv /\ Fine /\ (chip = "h7" => ~SetEarly) =>
        /\ SrcMhz(sw) \div ahb \in Nat
        /\ Enough(LatencyTable, SrcMhz(sw) \div ahb, lat)
        /\ chip = "h7" => SrcMhz(sw) \div ahb <= 64 \/ SrcMhz(sw) \div ahb = cfg.mhz \div 2
<1>. SUFFICES ASSUME ClkInv, Fine, chip = "h7" => ~SetEarly
              PROVE  /\ SrcMhz(sw) \div ahb \in Nat
                     /\ Enough(LatencyTable, SrcMhz(sw) \div ahb, lat)
                     /\ chip = "h7" => \/ SrcMhz(sw) \div ahb <= 64
                                       \/ SrcMhz(sw) \div ahb = cfg.mhz \div 2
  OBVIOUS
<1>1. OtherTypes /\ ConfigKnown /\ PllKnown /\ SpeedOK
  BY TypesAre DEF ClkInv
<1>3. ahb \in {1, 2} /\ lat \in Nat /\ cfg.mhz \in Nat
  BY <1>1, Frequencies DEF OtherTypes
<1>4. CASE sw = "pll"
  <2>1. SrcMhz(sw) = cfg.mhz
    BY <1>1, <1>4, NominalPll, ClocksAssumption DEF PllKnown, SrcMhz, Plls
  <2>2. chip = "h7" => ahb = 2
    BY <1>1, <1>3, <1>4 DEF SpeedOK
  <2>. QED  BY <1>1, <1>3, <1>4, <2>1, <2>2 DEF SpeedOK, LatOK
<1>5. CASE sw # "pll" /\ chip = "h7"
  <2>1. SrcMhz(sw) \in {25, 4, 64}
    BY <1>5 DEF SrcMhz, Mhz, H7Mhz
  <2>2. CASE ahb = 1
    <3>1. SrcMhz(sw) \div ahb = 64
      BY <1>1, <1>5, <2>2 DEF SpeedOK, SrcMhz, Mhz, H7Mhz
    <3>. QED  BY <1>1, <1>5, <2>2, <3>1 DEF SpeedOK, LatOK
  <2>3. CASE ahb = 2
    <3>1. SrcMhz(sw) \div ahb \in Nat /\ SrcMhz(sw) \div ahb <= 45
      BY <2>1, <2>3
    <3>2. Enough(LatencyTable, SrcMhz(sw) \div ahb, lat)
      BY <1>1, <1>3, <1>5, <3>1, EnoughAlways DEF OtherTypes
    <3>. QED  BY <1>5, <3>1, <3>2
  <2>. QED  BY <1>3, <2>2, <2>3
<1>6. CASE sw # "pll" /\ chip = "l4"
  <2>1. SrcMhz(sw) \in {8, 16, 4} /\ ahb = 1
    BY <1>1, <1>6 DEF SrcMhz, Mhz, L4Mhz, SpeedOK
  <2>2. SrcMhz(sw) \div ahb \in Nat /\ SrcMhz(sw) \div ahb <= 16
    BY <2>1
  <2>3. Enough(LatencyTable, SrcMhz(sw) \div ahb, lat)
    BY <1>1, <1>3, <1>6, <2>2, EnoughAlways DEF OtherTypes
  <2>. QED  BY <1>6, <2>2, <2>3
<1>. QED  BY <1>1, <1>4, <1>5, <1>6 DEF OtherTypes

(* Where the regulator has the scale that is read, or is near enough, they cover it by *)
(* the table of the voltage there is.                                                  *)
LEMMA ClkIsCovered == ClkInv => FlashCovers
<1>. SUFFICES ASSUME ClkInv, Fine, chip = "h7" => VoltageTrue /\ ~SetEarly PROVE Covered
  BY DEF FlashCovers, Fine
<1>. DEFINE now == SrcMhz(sw) \div ahb
<1>1. /\ now \in Nat /\ Enough(LatencyTable, now, lat)
      /\ chip = "h7" => now <= 64 \/ now = cfg.mhz \div 2
  BY ClkIsRead
<1>2. /\ chip \in {"h7", "l4"} /\ cfg.mhz \in Nat /\ lat \in Nat
      /\ vos \in 0..3 /\ (chip = "l4" => level = vos)
  BY TypesAre, Frequencies DEF ClkInv, OtherTypes
<1>. HIDE DEF now
<1>3. Enough(TableOf(level), now, lat)
  <2>1. CASE chip = "l4"
    BY <1>1, <2>1 DEF LatencyTable, TableOf
  <2>2. CASE chip = "h7" /\ level = VosIndex
    BY <1>1, <2>2 DEF LatencyTable
  <2>3. CASE chip = "h7" /\ vos <= 1 /\ level = 1 /\ cfg.mhz <= 450
    <3>1. now <= 225
      BY <1>1, <1>2, <2>3
    <3>2. VosIndex = 0
      BY <1>2, <2>3 DEF VosIndex
    <3>. QED  BY <1>1, <1>2, <2>3, <3>1, <3>2, EnoughAtVos1 DEF LatencyTable
  <2>. QED  BY <1>2, <2>1, <2>2, <2>3 DEF VoltageTrue
<1>. QED  BY <1>3 DEF Covered, Enough, now

(* Any number of PLLs and calls, and every frequency: whatever starts, fails or comes  *)
(* late, and also when uni_hal_rcc_init and the handler of the clock security system   *)
(* have changed PLLs and system clock, the flash has the wait states the present clock *)
(* needs, in the cases FlashCovers names.                                              *)
THEOREM FlashIsCovered == Spec => []FlashCovers
BY ClkInitially, ClkKept, ClkIsCovered, PTL DEF Spec

(* What a failure of _uni_hal_stm_rcc_sysclk leaves in the local variables. *)
LEMMA SysFailsLocals ==
    ASSUME LocalsOK, NEW c \in Callers, SysFails(c)
    PROVE  /\ Goto(c, "end")
           /\ \A d \in Callers : /\ loc'[d].src = loc[d].src /\ loc'[d].k = loc[d].k
                                 /\ loc'[d].ok = IF d = c THEN FALSE ELSE loc[d].ok
<1>1. Goto(c, "end") /\ loc' = SetOk(loc, c, FALSE)
  BY DEF SysFails, SetOk
<1>. QED  BY <1>1, OkSet

(* What the status promises in those cases. *)
StatTold == PllsTold /\ SysTold

(* Every step keeps it. *)
LEMMA StatStep == StatInv /\ [Next]_vars /\ Steady' => StatTold'
<1>. SUFFICES ASSUME StatInv, [Next]_vars, Steady' PROVE StatTold'
  OBVIOUS
<1>same. /\ PcOK /\ LocalsOK /\ OtherTypes /\ FailsOnce
         /\ (UNCHANGED <<st_pll, st_osc>> => Target' = Target)
         /\ (chip' = chip => Plls' = Plls)
  BY TypesAre DEF StatInv, ClkInv, Target, BestSource, Plls
<1>before. Steady /\ Fine /\ Shown /\ StatTold
  <2>1. (hit = "no" \/ (hit = "system" /\ calls = 1)) => Steady
    BY FixedStep DEF Steady, Portable, Plls
  <2>2. NmiH7 \/ NmiL4 => hit = "no"
    BY <1>same DEF NmiH7, NmiL4, HseFailure, FailsOnce
  <2>3. hit = "system" /\ calls' = 1 => calls = 1
    BY <1>same, FixedStep DEF RccInit, FailsOnce, OtherTypes
  <2>4. Steady
    BY <2>1, <2>2, <2>3, FixedStep DEF Steady
  <2>. QED  BY <2>4 DEF StatInv, ClkInv, Shown, StatTold, Steady, Fine
<1>values. /\ 1 \in Plls
           /\ \A i \in Plls : i \in Nat \ {0}
           /\ \A i \in st_pll : i \in Plls
           /\ \A d \in Callers : loc[d].src \in Src /\ loc[d].k \in Plls /\ loc[d].ok \in BOOLEAN
  BY <1>same, ClocksAssumption DEF Plls, OtherTypes, LocalsOK, Locals
<1>quiet. /\ pc["task"] # "idle" => hit = "no" /\ (chip = "h7" => ~inited)
          /\ pc["nmi"] # "idle" => pc["task"] = "idle" /\ hit # "no"
          /\ chip = "h7" /\ pc["task"] \notin {"idle", "end"} => ~st_sys
          /\ chip \in {"h7", "l4"}
  BY <1>same, <1>before DEF Steady, StatTold, SysTold, Unready, FailsOnce, OtherTypes
<1>. USE <1>same, <1>before, <1>values, <1>quiet DEF StatTold, PcOK, At, Goto, Callers, hwVars,
         speedVars, statVars, ctlVars, fixVars, histVars
<1>1. CASE PwrInit
  <2>8. PllsTold'
    BY <1>1 DEF PllsTold, Told, PwrInit
  <2>9. SysTold'
    BY <1>1 DEF SysTold, Unready, PwrInit
  <2>. QED  BY <2>8, <2>9
<1>2. CASE RccInit
  <2>1. /\ Goto("task", "hse") /\ calls' = calls + 1
        /\ pc["task"] = "idle" /\ pc["nmi"] = "idle" /\ (chip = "h7" => ~inited)
        /\ UNCHANGED <<hwVars, ahb, vos, level, statVars, fixVars, hse_enable, hit>>
    BY <1>2 DEF RccInit
  <2>2. "task" \in Callers /\ loc' = SetOk(loc, "task", TRUE)
    BY <1>2 DEF RccInit, SetOk
  <2>3. \A d \in Callers : loc'[d].src = loc[d].src /\ loc'[d].k = loc[d].k
    BY <2>2, OkSet
  <2>4. hit = "no"
    <3>1. calls \in Nat /\ (calls + 1 # 1 \/ calls = 0)
      BY DEF OtherTypes
    <3>. QED  BY <2>1, <3>1 DEF Steady, FailsOnce
  <2>5. PllsTold'
    BY <2>1, <2>3, <2>4 DEF PllsTold, Told
  <2>6. SysTold'
    BY <2>1, <2>3, <2>4 DEF SysTold, Unready
  <2>. QED  BY <2>5, <2>6
<1>3. CASE HseH7
  <2>1. /\ pc["task"] = "hse" /\ pc["nmi"] = "idle" /\ chip = "h7" /\ Goto("task", "csi")
        /\ UNCHANGED <<pllsrc, div, sw, want, speedVars, st_pll, st_sys, inited, loc, fixVars,
                       histVars>>
    BY <1>3 DEF HseH7, HseOutcome
  <2>2. PllsTold'
    BY <2>1 DEF PllsTold, Told
  <2>3. SysTold'
    BY <2>1 DEF SysTold, Unready
  <2>. QED  BY <2>2, <2>3
<1>4. CASE HseL4
  <2>8. PllsTold'
    BY <1>4 DEF PllsTold, Told, HseL4, HseOutcome
  <2>9. SysTold'
    BY <1>4 DEF SysTold, Unready, HseL4, HseOutcome
  <2>. QED  BY <2>8, <2>9
<1>5. CASE HseUnused
  <2>8. PllsTold'
    BY <1>5 DEF PllsTold, Told, HseUnused
  <2>9. SysTold'
    BY <1>5 DEF SysTold, Unready, HseUnused
  <2>. QED  BY <2>8, <2>9
<1>6. CASE Csi
  <2>8. PllsTold'
    BY <1>6 DEF PllsTold, Told, Csi, StartOsc
  <2>9. SysTold'
    BY <1>6 DEF SysTold, Unready, Csi, StartOsc
  <2>. QED  BY <2>8, <2>9
<1>7. CASE Hsi
  <2>8. PllsTold'
    BY <1>7 DEF PllsTold, Told, Hsi, StartOsc
  <2>9. SysTold'
    BY <1>7 DEF SysTold, Unready, Hsi, StartOsc
  <2>. QED  BY <2>8, <2>9
<1>8. ASSUME NEW c \in Callers, PllChoose(c) PROVE StatTold'
  <2>a. PICK l \in {"sys", "end", "disable", "plls"} :
           /\ Goto(c, l) /\ (l = "plls" => chip # "h7") /\ (l = "end" => c # "nmi" /\ chip # "l4")
           /\ (c = "task" /\ chip = "h7" => l # "sys") /\ (chip = "l4" => l # "disable")
    BY <1>8 DEF PllChoose, AfterPll, OtherTypes
  <2>1. /\ pc[c] = "pll" /\ (c = "nmi" \/ pc["nmi"] = "idle")
        /\ \A d \in Callers : d # c => loc'[d] = loc[d]
        /\ loc'[c].ok = TRUE
        /\ UNCHANGED <<hwVars, speedVars, statVars, fixVars, histVars>>
    BY <1>8 DEF PllChoose, LocalsOK
  <2>2. CASE c = "task"
    <3>1. PllsTold'
      BY <2>1, <2>a, <2>2 DEF PllsTold, Told
    <3>2. SysTold'
      BY <2>1, <2>a, <2>2 DEF SysTold, Unready
    <3>. QED  BY <3>1, <3>2
  <2>3. CASE c = "nmi"
    <3>1. PllsTold'
      BY <2>1, <2>a, <2>3 DEF PllsTold, Told
    <3>2. SysTold'
      BY <2>1, <2>a, <2>3 DEF SysTold, Unready
    <3>. QED  BY <3>1, <3>2
  <2>. QED  BY <2>2, <2>3
<1>9. ASSUME NEW c \in Callers, PllDisable(c) PROVE StatTold'
  <2>1. /\ pc[c] = "disable" /\ (c = "nmi" \/ pc["nmi"] = "idle") /\ Goto(c, "off")
        /\ UNCHANGED <<osc, css, pllsrc, div, sw, want, speedVars, statVars, loc, fixVars,
                       histVars>>
    BY <1>9 DEF PllDisable
  <2>2. CASE c = "task"
    <3>1. PllsTold'
      BY <2>1, <2>2 DEF PllsTold, Told
    <3>2. SysTold'
      BY <2>1, <2>2 DEF SysTold, Unready
    <3>. QED  BY <3>1, <3>2
  <2>3. CASE c = "nmi"
    <3>1. PllsTold'
      BY <2>1, <2>3 DEF PllsTold, Told
    <3>2. SysTold'
      BY <2>1, <2>3 DEF SysTold, Unready
    <3>. QED  BY <3>1, <3>2
  <2>. QED  BY <2>2, <2>3
<1>10. ASSUME NEW c \in Callers, PllWaitOff(c) PROVE StatTold'
  <2>a. PICK l \in {"source", "sys", "end"} :
           /\ Goto(c, l) /\ (l = "sys" => c = "nmi" \/ chip = "l4")
           /\ (l = "end" => c # "nmi" /\ chip # "l4")
    BY <1>10 DEF PllWaitOff, AfterPll
  <2>1. /\ pc[c] = "off" /\ (c = "nmi" \/ pc["nmi"] = "idle")
        /\ UNCHANGED <<hwVars, speedVars, statVars, loc, fixVars, histVars>>
    BY <1>10 DEF PllWaitOff
  <2>2. CASE c = "task"
    <3>1. PllsTold'
      BY <2>1, <2>a, <2>2 DEF PllsTold, Told
    <3>2. SysTold'
      BY <2>1, <2>a, <2>2 DEF SysTold, Unready
    <3>. QED  BY <3>1, <3>2
  <2>3. CASE c = "nmi"
    <3>1. PllsTold'
      BY <2>1, <2>a, <2>3 DEF PllsTold, Told
    <3>2. SysTold'
      BY <2>1, <2>a, <2>3 DEF SysTold, Unready
    <3>. QED  BY <3>1, <3>2
  <2>. QED  BY <2>2, <2>3
<1>11. ASSUME NEW c \in Callers, PllSource(c) PROVE StatTold'
  <2>1. /\ pc[c] = "source" /\ (c = "nmi" \/ pc["nmi"] = "idle") /\ Goto(c, "plls")
        /\ UNCHANGED <<osc, css, pll, div, sw, want, speedVars, statVars, loc, fixVars, histVars>>
        /\ loc[c].k = 1
    BY <1>11 DEF PllSource, Shown, PllReported
  <2>2. CASE c = "task"
    <3>1. PllsTold'
      BY <2>1, <2>2 DEF PllsTold, Told
    <3>2. SysTold'
      BY <2>1, <2>2 DEF SysTold, Unready
    <3>. QED  BY <3>1, <3>2
  <2>3. CASE c = "nmi"
    <3>1. PllsTold'
      BY <2>1, <2>3 DEF PllsTold, Told
    <3>2. SysTold'
      BY <2>1, <2>3 DEF SysTold, Unready
    <3>. QED  BY <3>1, <3>2
  <2>. QED  BY <2>2, <2>3
<1>12. ASSUME NEW c \in Callers, PllSkip(c) PROVE StatTold'
  <2>1. PICK ok \in BOOLEAN : NextPll(c, ok)
    BY <1>12 DEF PllSkip
  <2>3. PICK k \in Plls, l \in {"plls", "pllend"} :
           /\ Goto(c, l) /\ (l = "plls" => k = loc[c].k + 1)
           /\ (l = "pllend" => k = loc[c].k /\ k + 1 \notin Plls)
           /\ \A d \in Callers : /\ loc'[d].src = loc[d].src
                                 /\ loc'[d].k = IF d = c THEN k ELSE loc[d].k
    BY <2>1, NextPllLocals
  <2>4. \A i \in Plls : l = "pllend" \/ i < k => i < loc[c].k \/ i = loc[c].k
    BY <2>3, ClocksAssumption DEF Plls
  <2>5. /\ pc[c] = "plls" /\ (c = "nmi" \/ pc["nmi"] = "idle")
        /\ st_pll' = st_pll \ {loc[c].k}
        /\ UNCHANGED <<hwVars, speedVars, st_osc, st_sys, inited, fixVars, histVars>>
    BY <1>12 DEF PllSkip
  <2>6. CASE c = "task"
    <3>1. PllsTold'
      BY <2>3, <2>4, <2>5, <2>6 DEF PllsTold, Told
    <3>2. SysTold'
      BY <2>3, <2>5, <2>6 DEF SysTold, Unready
    <3>. QED  BY <3>1, <3>2
  <2>7. CASE c = "nmi"
    <3>1. PllsTold'
      BY <2>3, <2>5, <2>7 DEF PllsTold, Told
    <3>2. SysTold'
      BY <2>3, <2>5, <2>7 DEF SysTold, Unready
    <3>. QED  BY <3>1, <3>2
  <2>. QED  BY <2>6, <2>7
<1>13. ASSUME NEW c \in Callers, PllEnable(c) PROVE StatTold'
  <2>1. /\ pc[c] = "plls" /\ (c = "nmi" \/ pc["nmi"] = "idle") /\ Goto(c, "lock") /\ chip = "h7"
        /\ UNCHANGED <<osc, css, pllsrc, sw, want, speedVars, statVars, loc, fixVars, histVars>>
    BY <1>13 DEF PllEnable
  <2>2. \A i \in Plls : pll[i] = "locked" => pll'[i] = "locked"
    BY <1>13 DEF PllEnable, Program, OtherTypes
  <2>3. PllsTold'
    BY <2>1, <2>2 DEF PllsTold, Told
  <2>4. SysTold'
    BY <2>1 DEF SysTold, Unready
  <2>. QED  BY <2>3, <2>4
<1>14. ASSUME NEW c \in Callers, PllEnableL4(c) PROVE StatTold'
  <2>1. /\ pc[c] = "plls" /\ (c = "nmi" \/ pc["nmi"] = "idle") /\ Goto(c, "lock") /\ chip = "l4"
        /\ UNCHANGED <<osc, css, sw, want, speedVars, statVars, loc, fixVars, histVars>>
    BY <1>14 DEF PllEnableL4
  <2>2. \A i \in Plls : pll[i] = "locked" => pll'[i] = "locked"
    BY <1>14 DEF PllEnableL4, Program, OtherTypes
  <2>3. PllsTold'
    BY <2>1, <2>2 DEF PllsTold, Told
  <2>4. SysTold'
    BY <2>1 DEF SysTold, Unready
  <2>. QED  BY <2>3, <2>4
<1>15. ASSUME NEW c \in Callers, PllLocked(c) PROVE StatTold'
  <2>1. PICK ok \in BOOLEAN : NextPll(c, ok)
    BY <1>15 DEF PllLocked
  <2>3. PICK k \in Plls, l \in {"plls", "pllend"} :
           /\ Goto(c, l) /\ (l = "plls" => k = loc[c].k + 1)
           /\ (l = "pllend" => k = loc[c].k /\ k + 1 \notin Plls)
           /\ \A d \in Callers : /\ loc'[d].src = loc[d].src
                                 /\ loc'[d].k = IF d = c THEN k ELSE loc[d].k
    BY <2>1, NextPllLocals
  <2>4. \A i \in Plls : l = "pllend" \/ i < k => i < loc[c].k \/ i = loc[c].k
    BY <2>3, ClocksAssumption DEF Plls
  <2>5. /\ pc[c] = "lock" /\ (c = "nmi" \/ pc["nmi"] = "idle")
        /\ st_pll' = st_pll \cup {loc[c].k} /\ pll[loc[c].k] = "locked"
        /\ UNCHANGED <<hwVars, speedVars, st_osc, st_sys, inited, fixVars, histVars>>
    BY <1>15 DEF PllLocked
  <2>6. CASE c = "task"
    <3>1. PllsTold'
      BY <2>3, <2>4, <2>5, <2>6 DEF PllsTold, Told
    <3>2. SysTold'
      BY <2>3, <2>5, <2>6 DEF SysTold, Unready
    <3>. QED  BY <3>1, <3>2
  <2>7. CASE c = "nmi"
    <3>1. PllsTold'
      BY <2>3, <2>5, <2>7 DEF PllsTold, Told
    <3>2. SysTold'
      BY <2>3, <2>5, <2>7 DEF SysTold, Unready
    <3>. QED  BY <3>1, <3>2
  <2>. QED  BY <2>6, <2>7
<1>16. ASSUME NEW c \in Callers, PllTimeout(c) PROVE StatTold'
  <2>1. PICK ok \in BOOLEAN : NextPll(c, ok)
    BY <1>16 DEF PllTimeout
  <2>3. PICK k \in Plls, l \in {"plls", "pllend"} :
           /\ Goto(c, l) /\ (l = "plls" => k = loc[c].k + 1)
           /\ (l = "pllend" => k = loc[c].k /\ k + 1 \notin Plls)
           /\ \A d \in Callers : /\ loc'[d].src = loc[d].src
                                 /\ loc'[d].k = IF d = c THEN k ELSE loc[d].k
    BY <2>1, NextPllLocals
  <2>4. \A i \in Plls : l = "pllend" \/ i < k => i < loc[c].k \/ i = loc[c].k
    BY <2>3, ClocksAssumption DEF Plls
  <2>5. /\ pc[c] = "lock" /\ (c = "nmi" \/ pc["nmi"] = "idle")
        /\ st_pll' = st_pll \ {loc[c].k}
        /\ UNCHANGED <<hwVars, speedVars, st_osc, st_sys, inited, fixVars, histVars>>
    BY <1>16 DEF PllTimeout
  <2>6. CASE c = "task"
    <3>1. PllsTold'
      BY <2>3, <2>4, <2>5, <2>6 DEF PllsTold, Told
    <3>2. SysTold'
      BY <2>3, <2>5, <2>6 DEF SysTold, Unready
    <3>. QED  BY <3>1, <3>2
  <2>7. CASE c = "nmi"
    <3>1. PllsTold'
      BY <2>3, <2>5, <2>7 DEF PllsTold, Told
    <3>2. SysTold'
      BY <2>3, <2>5, <2>7 DEF SysTold, Unready
    <3>. QED  BY <3>1, <3>2
  <2>. QED  BY <2>6, <2>7
<1>17. ASSUME NEW c \in Callers, PllEnd(c) PROVE StatTold'
  <2>1. /\ pc[c] = "pllend" /\ (c = "nmi" \/ pc["nmi"] = "idle") /\ loc' = SetOk(loc, c, TRUE)
    BY <1>17 DEF PllEnd, SetOk
  <2>2. PICK l \in {"sys", "end"} : Goto(c, l) /\ (l = "end" => c = "task" /\ chip = "h7")
    BY <1>17 DEF PllEnd, AfterPll, OtherTypes
  <2>3. Told => Told'
    <3>1. (pll' = Disabled(Plls) /\ st_pll' = {}) \/ UNCHANGED <<pll, st_pll>>
      BY <1>17 DEF PllEnd
    <3>. QED  BY <3>1 DEF Told
  <2>4. /\ UNCHANGED <<osc, css, pllsrc, div, sw, want, speedVars, st_osc, st_sys, inited, fixVars,
                       histVars>>
    BY <1>17 DEF PllEnd
  <2>5. \A d \in Callers : /\ loc'[d].src = loc[d].src /\ loc'[d].k = loc[d].k
                           /\ loc'[d].ok = IF d = c THEN TRUE ELSE loc[d].ok
    BY <2>1, OkSet
  <2>6. CASE c = "task"
    <3>1. PllsTold'
      BY <2>1, <2>2, <2>3, <2>4, <2>5, <2>6 DEF PllsTold
    <3>2. SysTold'
      BY <2>1, <2>2, <2>4, <2>5, <2>6 DEF SysTold, Unready
    <3>. QED  BY <3>1, <3>2
  <2>7. CASE c = "nmi"
    <3>1. PllsTold'
      BY <2>1, <2>2, <2>3, <2>4, <2>5, <2>7 DEF PllsTold
    <3>2. SysTold'
      BY <2>1, <2>2, <2>4, <2>5, <2>7 DEF SysTold, Unready
    <3>. QED  BY <3>1, <3>2
  <2>. QED  BY <2>6, <2>7
<1>18. ASSUME NEW c \in Callers, SysChoose(c) PROVE StatTold'
  <2>1. /\ pc[c] = "sys" /\ (c = "nmi" \/ pc["nmi"] = "idle")
        /\ st_sys' = st_sys \/ st_sys' = FALSE
        /\ UNCHANGED <<hwVars, speedVars, st_osc, st_pll, inited, fixVars, histVars>>
    BY <1>18 DEF SysChoose
  <2>2. CASE SysFails(c)
    <3>1. /\ Goto(c, "end")
          /\ \A d \in Callers : /\ loc'[d].src = loc[d].src /\ loc'[d].k = loc[d].k
                                /\ loc'[d].ok = IF d = c THEN FALSE ELSE loc[d].ok
      BY <2>2, SysFailsLocals
    <3>2. chip = "h7" \/ st_sys' = FALSE
      <4>. DEFINE best == IF 1 \in st_pll THEN "pll" ELSE BestSource
                  t == IF best = "none" /\ chip = "l4" THEN "msi" ELSE best
      <4>1. chip = "l4" => t # "none"
        OBVIOUS
      <4>2. pc'[c] = "end"
        BY <3>1
      <4>3. ~Goto(c, IF chip = "h7" THEN "latency" ELSE "switch")
        BY <4>2
      <4>4. t = "none" \/ st_sys' = FALSE
        BY <1>18, <4>3 DEF SysChoose
      <4>. QED  BY <4>1, <4>4
    <3>3. PllsTold'
      BY <2>1, <3>1 DEF PllsTold, Told
    <3>4. SysTold'
      BY <2>1, <3>1, <3>2 DEF SysTold, Unready
    <3>. QED  BY <3>3, <3>4
  <2>3. CASE ~SysFails(c)
    <3>1. loc' = SetSrc(loc, c, Target) /\ UNCHANGED st_sys
      <4>. DEFINE best == IF 1 \in st_pll THEN "pll" ELSE BestSource
                  t == IF best = "none" /\ chip = "l4" THEN "msi" ELSE best
      <4>1. loc' = SetSrc(loc, c, t) /\ t # "none" /\ UNCHANGED st_sys
        BY <2>3, <1>18 DEF SysChoose, SetSrc
      <4>2. t = Target
        BY <4>1 DEF Target
      <4>. QED  BY <4>1, <4>2
    <3>2. Goto(c, IF chip = "h7" THEN "latency" ELSE "switch")
      BY <2>3, <1>18 DEF SysChoose
    <3>3. \A d \in Callers : /\ loc'[d].k = loc[d].k /\ loc'[d].ok = loc[d].ok
                             /\ loc'[d].src = IF d = c THEN Target ELSE loc[d].src
      BY <3>1, SrcSet
    <3>4. PllsTold'
      BY <2>1, <3>2, <3>3 DEF PllsTold, Told
    <3>5. SysTold'
      BY <2>1, <3>1, <3>2, <3>3 DEF SysTold, Unready
    <3>. QED  BY <3>4, <3>5
  <2>. QED  BY <2>2, <2>3
<1>19. ASSUME NEW c \in Callers, SysLatency(c) PROVE StatTold'
  <2>1. /\ pc[c] = "latency" /\ (c = "nmi" \/ pc["nmi"] = "idle")
        /\ UNCHANGED <<hwVars, ahb, vos, level, st_osc, st_pll, inited, fixVars, histVars>>
    BY <1>19 DEF SysLatency
  <2>2. CASE SysFails(c) /\ st_sys' = FALSE
    <3>1. /\ Goto(c, "end")
          /\ \A d \in Callers : /\ loc'[d].src = loc[d].src /\ loc'[d].k = loc[d].k
                                /\ loc'[d].ok = IF d = c THEN FALSE ELSE loc[d].ok
      BY <2>2, SysFailsLocals
    <3>2. PllsTold'
      BY <2>1, <2>2, <3>1 DEF PllsTold, Told
    <3>3. SysTold'
      BY <2>1, <2>2, <3>1 DEF SysTold, Unready
    <3>. QED  BY <3>2, <3>3
  <2>3. CASE Goto(c, "switch") /\ UNCHANGED <<loc, st_sys>>
    <3>1. PllsTold'
      BY <2>1, <2>3 DEF PllsTold, Told
    <3>2. SysTold'
      BY <2>1, <2>3 DEF SysTold, Unready
    <3>. QED  BY <3>1, <3>2
  <2>. QED  BY <1>19, <2>2, <2>3 DEF SysLatency
<1>20. ASSUME NEW c \in Callers, SysSwitch(c) PROVE StatTold'
  <2>8. PllsTold'
    BY <1>20 DEF PllsTold, Told, SysSwitch, SwitchTo
  <2>9. SysTold'
    BY <1>20 DEF SysTold, Unready, SysSwitch, SwitchTo
  <2>. QED  BY <2>8, <2>9
<1>21. ASSUME NEW c \in Callers, SysSwitchL4(c) PROVE StatTold'
  <2>8. PllsTold'
    BY <1>21 DEF PllsTold, Told, SysSwitchL4, SwitchTo
  <2>9. SysTold'
    BY <1>21 DEF SysTold, Unready, SysSwitchL4, SwitchTo
  <2>. QED  BY <2>8, <2>9
<1>22. ASSUME NEW c \in Callers, SysSwitched(c) PROVE StatTold'
  <2>1. /\ pc[c] = "wait" /\ (c = "nmi" \/ pc["nmi"] = "idle") /\ st_sys' = TRUE
        /\ Goto(c, IF chip = "h7" THEN "end" ELSE "adjust")
        /\ UNCHANGED <<hwVars, speedVars, st_osc, st_pll, inited, loc, fixVars, histVars>>
    BY <1>22 DEF SysSwitched
  <2>2. want = Target
    BY <2>1 DEF SysTold, SpeedOK, Shown
  <2>3. PllsTold'
    BY <2>1 DEF PllsTold, Told, OtherTypes
  <2>4. SysTold'
    BY <2>1, <2>2 DEF SysTold, Unready, OtherTypes
  <2>. QED  BY <2>3, <2>4
<1>23. ASSUME NEW c \in Callers, SysTimeout(c) PROVE StatTold'
  <2>1. /\ pc[c] = "wait" /\ (c = "nmi" \/ pc["nmi"] = "idle") /\ st_sys' = FALSE /\ SysFails(c)
        /\ UNCHANGED <<hwVars, speedVars, st_osc, st_pll, inited, fixVars, histVars>>
    BY <1>23 DEF SysTimeout
  <2>2. /\ Goto(c, "end")
        /\ \A d \in Callers : /\ loc'[d].src = loc[d].src /\ loc'[d].k = loc[d].k
                              /\ loc'[d].ok = IF d = c THEN FALSE ELSE loc[d].ok
    BY <2>1, SysFailsLocals
  <2>3. PllsTold'
    BY <2>1, <2>2 DEF PllsTold, Told
  <2>4. SysTold'
    BY <2>1, <2>2 DEF SysTold, Unready
  <2>. QED  BY <2>3, <2>4
<1>24. ASSUME NEW c \in Callers, SysAdjust(c) PROVE StatTold'
  <2>1. /\ pc[c] = "adjust" /\ (c = "nmi" \/ pc["nmi"] = "idle") /\ Goto(c, "end") /\ chip = "l4"
        /\ UNCHANGED <<hwVars, ahb, vos, level, statVars, loc, fixVars, histVars>>
    BY <1>24 DEF SysAdjust, Shown, SpeedOK
  <2>2. PllsTold'
    BY <2>1 DEF PllsTold, Told
  <2>3. SysTold'
    BY <2>1 DEF SysTold, Unready
  <2>. QED  BY <2>2, <2>3
<1>25. ASSUME NEW c \in Callers, End(c) PROVE StatTold'
  <2>8. PllsTold'
    BY <1>25 DEF PllsTold, Told, End
  <2>9. SysTold'
    BY <1>25 DEF SysTold, Unready, End
  <2>. QED  BY <2>8, <2>9
<1>26. CASE NmiH7 \/ NmiL4
  <2>1. HseFailure /\ Goto("nmi", "pll") /\ pc["nmi"] = "idle" /\ st_pll' = {} /\ st_sys' = FALSE
    BY <1>26 DEF NmiH7, NmiL4, HseFailure
  <2>2. pc["task"] = "idle"
    BY <2>1 DEF HseFailure, Steady
  <2>3. UNCHANGED <<pllsrc, div, speedVars, inited, loc, fixVars, calls>>
    BY <2>1 DEF HseFailure
  <2>4. hit' # "no"
    BY <2>1 DEF HseFailure
  <2>5. PllsTold'
    BY <2>1, <2>2, <2>3 DEF PllsTold, Told
  <2>6. SysTold'
    BY <2>1, <2>2, <2>3, <2>4 DEF SysTold, Unready
  <2>. QED  BY <2>5, <2>6
<1>27. ASSUME NEW i \in Plls, Lock(i) PROVE StatTold'
  <2>8. PllsTold'
    BY <1>27 DEF PllsTold, Told, Lock
  <2>9. SysTold'
    BY <1>27 DEF SysTold, Unready, Lock
  <2>. QED  BY <2>8, <2>9
<1>28. CASE SystemSwitches
  <2>8. PllsTold'
    BY <1>28 DEF PllsTold, Told, SystemSwitches
  <2>9. SysTold'
    BY <1>28 DEF SysTold, Unready, SystemSwitches
  <2>. QED  BY <2>8, <2>9
<1>29. CASE UNCHANGED vars
  <2>8. PllsTold'
    BY <1>29 DEF PllsTold, Told, vars
  <2>9. SysTold'
    BY <1>29 DEF SysTold, Unready, vars
  <2>. QED  BY <2>8, <2>9
<1>30. CASE VoltageComes
  <2>8. PllsTold'
    BY <1>30 DEF PllsTold, Told, VoltageComes
  <2>9. SysTold'
    BY <1>30 DEF SysTold, Unready, VoltageComes
  <2>. QED  BY <2>8, <2>9
<1>. QED  BY <1>1, <1>2, <1>3, <1>4, <1>5, <1>6, <1>7, <1>8, <1>9, <1>10, <1>11, <1>12, <1>13,
             <1>14, <1>15, <1>16, <1>17, <1>18, <1>19, <1>20, <1>21, <1>22, <1>23, <1>24, <1>25,
             <1>26, <1>27, <1>28, <1>29, <1>30 DEF Next, CodeStep, PllStep, SysStep, Hardware

(* The invariant holds after a reset. *)
LEMMA StatInitially == Init => StatInv
<1>. SUFFICES ASSUME Init PROVE StatInv
  OBVIOUS
<1>1. ClkInv
  BY ClkInitially
<1>2. PllsTold /\ SysTold
  <2>1. /\ st_pll = {} /\ st_sys = FALSE /\ inited = FALSE /\ hit = "no"
        /\ \A c \in Callers : pc[c] = "idle"
    BY DEF Init
  <2>. QED  BY <2>1 DEF PllsTold, Told, SysTold, Unready, Callers
<1>. QED  BY <1>1, <1>2 DEF StatInv

(* Every step keeps it. *)
LEMMA StatKept == StatInv /\ [Next]_vars => StatInv'
<1>. SUFFICES ASSUME StatInv, [Next]_vars PROVE StatInv'
  OBVIOUS
<1>1. ClkInv'
  BY ClkKept DEF StatInv
<1>2. Steady' => PllsTold' /\ SysTold'
  BY StatStep DEF StatTold
<1>. QED  BY <1>1, <1>2 DEF StatInv

(* With it, the status is true. *)
LEMMA StatIsTrue == StatInv => StatusTrue
<1>. SUFFICES ASSUME StatInv, Steady, Settled, inited, sw = want
              PROVE  /\ \A i \in st_pll : pll[i] = "locked" /\ div[i] = pllsrc
                     /\ st_sys => sw = Target
  BY DEF StatusTrue, Steady, Target
<1>1. OtherTypes /\ PllKnown /\ PllsTold /\ SysTold
  BY TypesAre DEF StatInv, ClkInv, Steady, Fine
<1>2. Told
  BY <1>1 DEF PllsTold, OtherTypes
<1>3. \A i \in st_pll : pll[i] = "locked" /\ div[i] = pllsrc
  BY <1>1, <1>2 DEF Told, PllKnown, OtherTypes
<1>4. st_sys => want = Target
  BY <1>1 DEF SysTold, Settled, Callers
<1>. QED  BY <1>3, <1>4

(* Any number of PLLs and calls: what uni_hal_rcc_init and the handler of the clock    *)
(* security system leave in the status is so: PLLs reported run, from the source their *)
(* dividers were written for, and the system clock is the best one reported.           *)
THEOREM StatusIsTrue == Spec => []StatusTrue
BY StatInitially, StatKept, StatIsTrue, PTL DEF Spec

------------------------------------------------------------------------------
(***************************************************************************)
(* PeriphClock: the clocks of the peripherals.                             *)
(***************************************************************************)
(* The specification of the clocks of the peripherals. *)
ClocksSpec == ClockInit /\ [][ClockNext]_clockVars

(* The source a driver has selected, on a multiplexer that takes it. *)
Chosen(u) == IF Mux(u.periph) = "LPUART" THEN LpuartSource(Wanted(u)) ELSE Wanted(u)

(* The clock of a driver is on, but for a timer's after a misdirected switch. *)
GateOpen(u) ==
    u.periph \notin P("TIM", 12..14) =>
        Gate(u.periph) \in on \/ (misdirected /\ u.periph[1] = "TIM")

(* Drivers that agree on a source have it, and know its rate. *)
SourceKept(u) ==
    Agreed(u) =>
        /\ SourceTaken(u.periph, Wanted(u)) => mux[Mux(u.periph)] = Chosen(u)
        /\ rate[u] = Freq(mux, u.periph)

(* The inductive invariant of the clocks. *)
ClockInv ==
    /\ rcc_chip \in {"h7", "l4"} /\ misdirected \in BOOLEAN
    /\ mux = [m \in Muxes |-> mux[m]] /\ rate = [u \in Users |-> rate[u]]
    /\ started \subseteq {u \in Users : u.chip = rcc_chip}
    /\ \A u \in started : GateOpen(u) /\ SourceKept(u)

(* Enabling a clock keeps the bits that are set, and sets the one it answers for. *)
LEMMA EnableKeeps ==
    ASSUME NEW o, NEW p
    PROVE  o \subseteq ClkSet(o, p, TRUE).on
BY DEF ClkSet, ClkSetH7, ClkSetL4, Switched

(* It sets the bit of the clock it reports to have switched on. *)
LEMMA EnableSets ==
    ASSUME NEW o, NEW p, p # <<"PWR", 1>>, ClkSet(o, p, TRUE).answer
    PROVE  Gate(p) \in ClkSet(o, p, TRUE).on
<1>1. CASE rcc_chip = "h7"
  BY <1>1 DEF ClkSet, ClkSetH7, ClkGetH7, Switched, Gate
<1>2. CASE rcc_chip # "h7"
  <2>1. GateL4(p) \in EnabledL4(p)
    <3>1. CASE p = <<"CAN", 2>>
      BY <3>1 DEF GateL4, EnabledL4, P
    <3>2. CASE p # <<"CAN", 2>>
      BY <3>2 DEF EnabledL4
    <3>. QED  BY <3>1, <3>2
  <2>. QED  BY <1>2, <2>1 DEF ClkSet, ClkSetL4, Switched, Gate
<1>. QED  BY <1>1, <1>2

(* The initialisation of a driver that works has its clock on. *)
StartOf(u) == IF rcc_chip = "h7" THEN StartH7(u) ELSE StartL4(u)

(* A driver that starts does not close a clock, and has its own open. *)
LEMMA StartOpens ==
    ASSUME NEW u, u.periph # <<"PWR", 1>>
    PROVE  /\ on \subseteq StartOf(u).on
           /\ StartOf(u).answer /\ u.periph \notin P("TIM", 12..14) =>
                  Gate(u.periph) \in StartOf(u).on
<1>. DEFINE done == ClkSet(on, u.periph, TRUE)
<1>0. on \subseteq done.on /\ (done.answer => Gate(u.periph) \in done.on)
  BY EnableKeeps, EnableSets
<1>9. \A b : [done EXCEPT !.answer = b].on = done.on /\ [done EXCEPT !.answer = b].answer = b
  BY DEF ClkSet, ClkSetH7, ClkSetL4
<1>1. CASE StartOf(u) = StartBoth(u)
  <2>. DEFINE taken == Mux(u.periph) = "none" \/ SourceTaken(u.periph, Wanted(u))
  <2>1. StartOf(u) = [done EXCEPT !.answer = done.answer /\ taken]
    BY <1>1 DEF StartBoth
  <2>2. StartOf(u).on = done.on /\ (StartOf(u).answer <=> done.answer /\ taken)
    BY <2>1, <1>9
  <2>. QED  BY <1>0, <2>2
<1>2. CASE StartOf(u) = StartChained(u)
  <2>. DEFINE ok == Wanted(u) \in {"UNKNOWN"} \cup Sources(Mux(u.periph)) \/ rcc_chip = "l4"
  <2>1. StartOf(u) = Then(Begin(ok), u.periph)
    BY <1>2 DEF StartChained
  <2>2. Begin(ok).on = on /\ (Begin(ok).answer <=> ok)
    BY DEF Begin
  <2>3. CASE ok
    BY <1>0, <2>1, <2>2, <2>3 DEF Then
  <2>4. CASE ~ok
    <3>1. StartOf(u) = Begin(ok)
      BY <2>1, <2>2, <2>4 DEF Then
    <3>. QED  BY <2>2, <2>4, <3>1
  <2>. HIDE DEF ok
  <2>. QED  BY <2>3, <2>4
<1>3. CASE StartOf(u) = StartTimH7(u) /\ rcc_chip = "h7"
  <2>1. ASSUME u.periph \in P("TIM", 1..8 \cup 12..17) \ P("TIM", 12..14)
        PROVE  Gate(u.periph) \in done.on
    <3>1. u.periph \in P("TIM", 1..8 \cup 15..17)
      BY <2>1 DEF P
    <3>. QED  BY <1>3, <3>1 DEF SerialH7, ClkSet, ClkSetH7, ClkGetH7, Switched, Gate
  <2>2. StartOf(u) = [done EXCEPT !.answer =
                          done.answer \/ u.periph \in P("TIM", 1..8 \cup 12..17)]
    BY <1>3 DEF StartTimH7
  <2>3. /\ StartOf(u).on = done.on
        /\ StartOf(u).answer <=> (done.answer \/ u.periph \in P("TIM", 1..8 \cup 12..17))
    BY <2>2, <1>9
  <2>. QED  BY <1>0, <2>1, <2>3
<1>4. CASE StartOf(u) = StartClock(u)
  BY <1>0, <1>4 DEF StartClock
<1>5. CASE StartOf(u) = StartBxCan(u)
  BY <1>0, <1>5, EnableKeeps DEF StartBxCan, Then
<1>. QED  BY <1>1, <1>2, <1>3, <1>4, <1>5 DEF StartOf, StartH7, StartL4

(* Every peripheral has an entry of the multiplexers, its driver's clock is *)
(* the one that entry carries, and a choice changes that entry alone.       *)
LEMMA MuxIsOne ==
    ASSUME NEW p PROVE Mux(p) \in Muxes
BY DEF Mux, MuxH7, MuxL4, Muxes

(* The frequency of a clock depends on its own multiplexer alone. *)
LEMMA FreqReads ==
    ASSUME NEW x, NEW y, NEW p, x[Mux(p)] = y[Mux(p)]
    PROVE  Freq(x, p) = Freq(y, p)
<1>1. CASE rcc_chip = "h7"
  BY <1>1 DEF Freq, FreqH7, Mux
<1>2. CASE rcc_chip # "h7"
  <2>1. CASE p[1] = "LPUART"
    <3>1. p \notin P("TIM", {1, 8} \cup 15..17) /\ p \notin P("TIM", 2..7)
      BY <2>1 DEF P
    <3>2. FreqL4(x, p) = x["LPUART"] /\ FreqL4(y, p) = y["LPUART"]
      BY <2>1, <3>1 DEF FreqL4
    <3>. QED  BY <1>2, <2>1, <3>2 DEF Freq, Mux, MuxL4
  <2>2. CASE p[1] # "LPUART"
    BY <1>2, <2>2 DEF Freq, FreqL4
  <2>. QED  BY <2>1, <2>2
<1>. QED  BY <1>1, <1>2

(* A driver that selects its source moves its own multiplexer, if that has the source. *)
LEMMA SelectedTakes ==
    ASSUME NEW x, x = [m \in Muxes |-> x[m]], NEW u
    PROVE  LET p == u.periph  y == Selected(x, p, Wanted(u)) IN
           /\ y = [m \in Muxes |-> y[m]]
           /\ \A m \in Muxes : m # Mux(p) => y[m] = x[m]
           /\ SourceTaken(p, Wanted(u)) => y[Mux(p)] = Chosen(u)
           /\ ~SourceTaken(p, Wanted(u)) => y = x
<1>1. Mux(u.periph) \in Muxes
  BY MuxIsOne
<1>2. "LPUART" \in Muxes
  BY DEF Muxes
<1>3. \A m \in Muxes : \A v : LET y == [x EXCEPT ![m] = v] IN
          y = [k \in Muxes |-> y[k]] /\ y[m] = v /\ \A k \in Muxes : k # m => y[k] = x[k]
  OBVIOUS
<1>4. CASE Mux(u.periph) = "LPUART"
  BY <1>2, <1>3, <1>4 DEF Selected, SourceTaken, Chosen
<1>5. CASE Mux(u.periph) # "LPUART"
  BY <1>1, <1>3, <1>5 DEF Selected, SourceTaken, Chosen
<1>. QED  BY <1>4, <1>5

(* A driver keeps its clock source when another driver makes its choice.    *)
LEMMA StartStep ==
    ASSUME ClockInv, NEW u \in Users, Start(u)
    PROVE  ClockInv'
<1>0. /\ u.chip = rcc_chip /\ u \notin started
      /\ on' = StartOf(u).on /\ mux' = Selected(mux, u.periph, Wanted(u))
      /\ started' = started \/ (started' = started \cup {u} /\ StartOf(u).answer)
      /\ rate' = IF u \in started' THEN [rate EXCEPT ![u] = Freq(mux', u.periph)] ELSE rate
      /\ UNCHANGED <<rcc_chip, misdirected>>
  BY DEF Start, StartOf
<1>1. /\ on \subseteq on'
      /\ StartOf(u).answer /\ u.periph \notin P("TIM", 12..14) => Gate(u.periph) \in on'
  BY <1>0, StartOpens, ClockAssumption
<1>2. /\ mux' = [m \in Muxes |-> mux'[m]]
      /\ \A m \in Muxes : m # Mux(u.periph) => mux'[m] = mux[m]
      /\ SourceTaken(u.periph, Wanted(u)) => mux'[Mux(u.periph)] = Chosen(u)
      /\ ~SourceTaken(u.periph, Wanted(u)) => mux' = mux
  BY <1>0, SelectedTakes DEF ClockInv
<1>3. /\ started' \subseteq {v \in Users : v.chip = rcc_chip}
      /\ rate' = [v \in Users |-> rate'[v]]
      /\ \A v \in started : rate'[v] = rate[v]
      /\ u \in started' => rate'[u] = Freq(mux', u.periph)
  BY <1>0 DEF ClockInv
<1>4. ASSUME NEW v \in started'
      PROVE  GateOpen(v)' /\ SourceKept(v)'
  <2>1. GateOpen(v)'
    <3>1. CASE v = u
      BY <1>0, <1>1, <3>1 DEF GateOpen, Gate
    <3>2. CASE v # u
      BY <1>0, <1>1, <3>2 DEF GateOpen, Gate, ClockInv
    <3>. QED  BY <3>1, <3>2
  <2>2. Mux(v.periph)' = Mux(v.periph) /\ Wanted(v)' = Wanted(v) /\ Chosen(v)' = Chosen(v)
    BY <1>0 DEF Mux, Wanted, Chosen
  <2>3. (Agreed(v)' <=> Agreed(v))
    BY <1>0 DEF Agreed, Mux, Wanted
  <2>4. SourceTaken(v.periph, Wanted(v))' <=> SourceTaken(v.periph, Wanted(v))
    BY <1>0 DEF SourceTaken, Mux, Wanted, Sources
  <2>5. Freq(mux, v.periph)' = Freq(mux', v.periph)
    BY <1>0 DEF Freq
  <2>6. Mux(v.periph) \in Muxes
    BY MuxIsOne
  <2>7. SUFFICES ASSUME Agreed(v)
                 PROVE  /\ SourceTaken(v.periph, Wanted(v)) => mux'[Mux(v.periph)] = Chosen(v)
                        /\ rate'[v] = Freq(mux', v.periph)
    BY <2>1, <2>2, <2>3, <2>4, <2>5 DEF SourceKept
  <2>8. CASE v = u
    BY <1>2, <1>3, <2>8
  <2>9. CASE v # u
    <3>1. /\ v \in started /\ v \in Users /\ v.chip = rcc_chip /\ rate'[v] = rate[v]
          /\ SourceTaken(v.periph, Wanted(v)) => mux[Mux(v.periph)] = Chosen(v)
          /\ rate[v] = Freq(mux, v.periph)
      BY <1>0, <1>3, <2>7, <2>9 DEF ClockInv, SourceKept
    <3>2. mux'[Mux(v.periph)] = mux[Mux(v.periph)]
      <4>1. CASE Mux(v.periph) # Mux(u.periph)
        BY <1>2, <2>6, <4>1
      <4>2. CASE Mux(v.periph) = Mux(u.periph)
        <5>1. Wanted(u) = Wanted(v)
          BY <1>0, <2>7, <3>1, <4>2 DEF Agreed
        <5>2. Chosen(u) = Chosen(v)
          BY <4>2, <5>1 DEF Chosen
        <5>3. SourceTaken(u.periph, Wanted(u)) <=> SourceTaken(v.periph, Wanted(v))
          BY <4>2, <5>1 DEF SourceTaken
        <5>. QED  BY <1>2, <3>1, <4>2, <5>2, <5>3
      <4>. QED  BY <4>1, <4>2
    <3>3. Freq(mux', v.periph) = Freq(mux, v.periph)
      BY <3>2, FreqReads
    <3>. QED  BY <3>1, <3>2, <3>3
  <2>. QED  BY <2>8, <2>9
<1>. QED  BY <1>0, <1>2, <1>3, <1>4 DEF ClockInv

(* The application switches a clock off that no driver relies on: the bit   *)
(* it clears is that clock's, or a timer's when the register is the wrong   *)
(* one.                                                                     *)
LEMMA OffClearsOwn ==
    ASSUME rcc_chip \in {"h7", "l4"}, NEW o, NEW p, NEW g, g \in o, g # Gate(p)
    PROVE  g \in ClkSet(o, p, FALSE).on
             \/ (rcc_chip = "l4" /\ p \in P("UART", 2..5) /\ p \in o /\ g[1] = "TIM")
<1>1. CASE rcc_chip = "h7"
  BY <1>1 DEF ClkSet, ClkSetH7, Switched, Gate
<1>2. CASE rcc_chip = "l4" /\ p \notin P("UART", 2..5)
  BY <1>2 DEF ClkSet, ClkSetL4, Switched, Gate, DisabledL4
<1>3. CASE rcc_chip = "l4" /\ p \in P("UART", 2..5)
  <2>1. \A b \in Misread(p) : b[1] = "TIM"
    BY DEF Misread
  <2>2. GateL4(p) = p
    BY <1>3 DEF GateL4, P
  <2>3. CASE p \in o
    BY <1>3, <2>1, <2>3 DEF ClkSet, ClkSetL4, Switched, DisabledL4
  <2>4. CASE p \notin o
    BY <1>3, <2>2, <2>4 DEF ClkSet, ClkSetL4, ClkGetL4
  <2>. QED  BY <2>3, <2>4
<1>. QED  BY <1>1, <1>2, <1>3

(* The bit of a timer is a timer's own.                                     *)
LEMMA TimerGate ==
    ASSUME NEW p, Gate(p)[1] = "TIM" PROVE p[1] = "TIM"
BY DEF Gate, GateH7, GateL4

(* A driver that relies on a clock keeps it when the application switches another. *)
LEMMA SwitchStep ==
    ASSUME ClockInv, NEW p, NEW state \in BOOLEAN, Switch(p, state)
    PROVE  ClockInv'
<1>1. /\ ~state => \A u \in started : Gate(u.periph) # Gate(p)
      /\ on' = ClkSet(on, p, state).on
      /\ misdirected' = (misdirected
             \/ (rcc_chip = "l4" /\ ~state /\ p \in P("UART", 2..5) /\ p \in on))
      /\ UNCHANGED <<rcc_chip, mux, started, rate>>
  BY DEF Switch
<1>2. ASSUME NEW v \in started
      PROVE  GateOpen(v)' /\ SourceKept(v)'
  <2>1. GateOpen(v) /\ SourceKept(v) /\ misdirected \in BOOLEAN
    BY DEF ClockInv
  <2>2. Gate(v.periph)' = Gate(v.periph)
    BY <1>1 DEF Gate
  <2>3. SourceKept(v)'
    BY <1>1, <2>1 DEF SourceKept, Agreed, SourceTaken, Sources, Mux, Wanted, Chosen, Freq
  <2>4. CASE state
    <3>1. on \subseteq on'
      BY <1>1, <2>4, EnableKeeps
    <3>. QED  BY <1>1, <2>1, <2>2, <2>3, <3>1 DEF GateOpen
  <2>5. CASE ~state
    <3>1. Gate(v.periph) \in on =>
              Gate(v.periph) \in on' \/ (misdirected' /\ Gate(v.periph)[1] = "TIM")
      <4>1. SUFFICES ASSUME Gate(v.periph) \in on
                     PROVE  Gate(v.periph) \in on'
                              \/ (misdirected' /\ Gate(v.periph)[1] = "TIM")
        OBVIOUS
      <4>2. /\ rcc_chip \in {"h7", "l4"} /\ Gate(v.periph) # Gate(p)
            /\ on' = ClkSet(on, p, FALSE).on
        <5>1. state = FALSE
          BY <2>5
        <5>. QED  BY <1>1, <2>5, <5>1 DEF ClockInv
      <4>3. Gate(v.periph) \in ClkSet(on, p, FALSE).on
              \/ (rcc_chip = "l4" /\ p \in P("UART", 2..5) /\ p \in on
                    /\ Gate(v.periph)[1] = "TIM")
        BY <4>1, <4>2, OffClearsOwn
      <4>. QED  BY <1>1, <2>5, <4>2, <4>3
    <3>2. Gate(v.periph) \in on =>
              Gate(v.periph) \in on' \/ (misdirected' /\ v.periph[1] = "TIM")
      BY <3>1, TimerGate
    <3>. QED  BY <1>1, <2>1, <2>2, <2>3, <3>2 DEF GateOpen
  <2>. QED  BY <2>4, <2>5
<1>. QED  BY <1>1, <1>2 DEF ClockInv

(* What the clock invariant reads is left alone.                            *)
LEMMA ClockKept ==
    ASSUME ClockInv, UNCHANGED <<rcc_chip, on, mux, started, rate, misdirected>>
    PROVE  ClockInv'
BY DEF ClockInv, GateOpen, Gate, SourceKept, Agreed, SourceTaken, Sources, Mux, Wanted,
       Chosen, Freq

(* A driver that reports to be initialised has its clock, and runs from the kernel   *)
(* clock it computed its divider for, but for what StartedClocked leaves out.        *)
THEOREM StartedIsClocked == ClocksSpec => []StartedClocked
<1>1. ClockInit => ClockInv
  BY DEF ClockInit, ClockInv
<1>2. ClockInv /\ [ClockNext]_clockVars => ClockInv'
  <2>. SUFFICES ASSUME ClockInv, [ClockNext]_clockVars
                PROVE  ClockInv'
    OBVIOUS
  <2>1. ASSUME NEW u \in Users, Start(u) PROVE ClockInv'
    BY <2>1, StartStep
  <2>2. ASSUME NEW p \in Switchable, NEW state \in BOOLEAN, Switch(p, state) PROVE ClockInv'
    BY <2>2, SwitchStep
  <2>3. ASSUME NEW index, NEW source, NEW divider, NEW pin,
               McoEnable(index, source, divider, pin)
        PROVE  ClockInv'
    BY <2>3, ClockKept DEF McoEnable
  <2>4. CASE UNCHANGED clockVars
    BY <2>4, ClockKept DEF clockVars
  <2>. QED  BY <2>1, <2>2, <2>3, <2>4 DEF ClockNext
<1>3. ClockInv => StartedClocked
  BY DEF ClockInv, GateOpen, SourceKept, StartedClocked
<1>. QED  BY <1>1, <1>2, <1>3, PTL DEF ClocksSpec

------------------------------------------------------------------------------
(***************************************************************************)
(* Backup: the backup domain, which a reset leaves as it was.              *)
(***************************************************************************)
(* A calendar that is called initialised was, and its clock has what it takes. *)
CalendarMade ==
    \/ domain.calendar = "set" \/ half_set
    \/ domain.calendar = "half" /\ job \in {"date", "time"}
ClockMade == domain.sel # "none" /\ (domain.sel = "hse" \/ domain.prescaler = domain.sel)
RtcMade == ClockMade /\ (rtc.valid => CalendarMade)

DomainTypes == [lse : BOOLEAN, sel : {"none", "lse", "lsi", "hse"}, rtcen : BOOLEAN,
                prescaler : {"lse", "lsi"}, inits : BOOLEAN,
                calendar : {"reset", "half", "set"}, register : {0, 1}]
RtcTypes == [inited : BOOLEAN, valid : BOOLEAN]
JobSteps == {"enter", "wait", "write", "leave", "sync"}
RtcSteps == {"off", "idle", "force", "release", "restore", "select", "enable", "prescale",
             "register"} \cup JobSteps
Jobs == {"none", "lse", "lsi", "date", "time"}

BackupTypes ==
    /\ domain \in DomainTypes /\ rtc \in RtcTypes /\ rtc_step \in RtcSteps
    /\ bdcr \in BOOLEAN /\ wiped \in BOOLEAN /\ half_set \in BOOLEAN /\ disturbed \in BOOLEAN
    /\ access \in BOOLEAN /\ bdrst \in BOOLEAN
    /\ init_mode \in {"run", "asked", "init"} /\ job \in Jobs

(* The initialisation mode is asked for and left with access to a domain that works. *)
ModeInv ==
    /\ init_mode # "run" => ~bdrst /\ (access \/ disturbed)
    /\ init_mode = "init" => domain.sel # "none"

(* What a job that nothing disturbs knows of the domain at each of its steps. *)
JobInv ==
    /\ job = "none" <=> rtc_step \notin JobSteps
    /\ job \in {"lse", "lsi"} => rtc_step # "sync" /\ ~rtc.valid
    /\ ~disturbed =>
           /\ rtc_step \in {"write", "leave"} => init_mode = "init"
           /\ job \in {"lse", "lsi"} => job = Prescaler
           /\ rtc_step = "leave" /\ job \in {"lse", "lsi"} => domain.prescaler = job
           /\ job \in {"date", "time"} => ClockMade
           /\ job = "date" /\ rtc_step \in {"leave", "sync"} => domain.calendar # "reset"
           /\ job = "time" => domain.calendar # "reset"
           /\ job = "time" /\ rtc_step \in {"leave", "sync"} => domain.calendar = "set"

(* What INITS and the context say of the domain. *)
ToldInv ==
    /\ domain.inits /\ ~disturbed => ClockMade /\ CalendarMade
    /\ /\ rtc.inited /\ ~wiped /\ ~disturbed
       /\ rtc_step \in {"idle", "register"} \/ job \in {"date", "time"}
       => RtcMade

StoredInv ==
    /\ domain.register = stored
    /\ rtc_step = "force" => stored = 0 \/ LossAccepted

BackupInv == BackupTypes /\ ModeInv /\ JobInv /\ ToldInv /\ StoredInv

LEMMA ResetDomainIs ==
    /\ ResetDomain \in DomainTypes /\ ResetDomain.register = 0 /\ ~ResetDomain.inits
BY DEF ResetDomain, DomainTypes

(* The domain after a write of one of its fields: the others stay. *)
LEMMA LseField ==
    ASSUME NEW d \in DomainTypes, NEW e, NEW b \in BOOLEAN,
           e = [d EXCEPT !.lse = b]
    PROVE  /\ e \in DomainTypes /\ e.sel = d.sel /\ (e.rtcen <=> d.rtcen)
           /\ e.prescaler = d.prescaler /\ (e.inits <=> d.inits) /\ e.calendar = d.calendar
           /\ e.register = d.register
BY DEF DomainTypes

(* The same, of the enable bit of the RTC. *)
LEMMA RtcenField ==
    ASSUME NEW d \in DomainTypes, NEW e, NEW b \in BOOLEAN,
           e = [d EXCEPT !.rtcen = b]
    PROVE  /\ e \in DomainTypes /\ (e.lse <=> d.lse) /\ e.sel = d.sel
           /\ e.prescaler = d.prescaler /\ (e.inits <=> d.inits) /\ e.calendar = d.calendar
           /\ e.register = d.register
BY DEF DomainTypes

(* The same, of the prescalers. *)
LEMMA PrescalerField ==
    ASSUME NEW d \in DomainTypes, NEW e, NEW p \in {"lse", "lsi"},
           e = [d EXCEPT !.prescaler = p]
    PROVE  /\ e \in DomainTypes /\ (e.lse <=> d.lse) /\ e.sel = d.sel
           /\ (e.rtcen <=> d.rtcen) /\ (e.inits <=> d.inits) /\ e.calendar = d.calendar
           /\ e.register = d.register /\ e.prescaler = p
BY DEF DomainTypes

(* The same, of the backup register. *)
LEMMA RegisterField ==
    ASSUME NEW d \in DomainTypes, NEW e,
           e = [d EXCEPT !.register = 1]
    PROVE  /\ e \in DomainTypes /\ (e.lse <=> d.lse) /\ e.sel = d.sel
           /\ (e.rtcen <=> d.rtcen) /\ e.prescaler = d.prescaler /\ (e.inits <=> d.inits)
           /\ e.calendar = d.calendar /\ e.register = 1
BY DEF DomainTypes

(* The same, of the time. *)
LEMMA TimeField ==
    ASSUME NEW d \in DomainTypes, NEW e,
           e = [d EXCEPT !.calendar = IF @ = "reset" THEN "half" ELSE "set"]
    PROVE  /\ e \in DomainTypes /\ (e.lse <=> d.lse) /\ e.sel = d.sel
           /\ (e.rtcen <=> d.rtcen) /\ e.prescaler = d.prescaler /\ (e.inits <=> d.inits)
           /\ e.register = d.register
           /\ e.calendar = IF d.calendar = "reset" THEN "half" ELSE "set"
BY DEF DomainTypes

(* The same, of the date. *)
LEMMA DateField ==
    ASSUME NEW d \in DomainTypes, NEW e,
           NEW b \in BOOLEAN, e = [d EXCEPT !.inits = b, !.calendar = "half"]
    PROVE  /\ e \in DomainTypes /\ (e.lse <=> d.lse) /\ e.sel = d.sel
           /\ (e.rtcen <=> d.rtcen) /\ e.prescaler = d.prescaler /\ e.register = d.register
           /\ e.calendar = "half"
BY DEF DomainTypes

(* The same, of the clock selection, which only takes a first source. *)
LEMMA SelField ==
    ASSUME NEW d \in DomainTypes, NEW e, NEW x \in {"lse", "lsi", "hse"},
           e = Selecting(d, x)
    PROVE  /\ e \in DomainTypes /\ (e.lse <=> d.lse) /\ (e.rtcen <=> d.rtcen)
           /\ e.prescaler = d.prescaler /\ (e.inits <=> d.inits) /\ e.calendar = d.calendar
           /\ e.register = d.register /\ (d.sel # "none" => e.sel = d.sel)
BY DEF DomainTypes, Selecting


LEMMA BootStep == BackupInv /\ Boot => BackupInv'
<1> SUFFICES ASSUME BackupInv, Boot PROVE BackupInv'
  OBVIOUS
<1>1. PICK works \in BOOLEAN : BootDomain(works)
  BY DEF Boot
<1>. DEFINE again == board.lse_enable /\ (bdrst \/ ~works) /\ board.lse_backup_reset
            d == IF again THEN ResetDomain ELSE domain
<1>2. /\ domain' = d \/ domain' = [d EXCEPT !.lse = TRUE]
      /\ stored' = IF again THEN 0 ELSE stored
      /\ disturbed' = (disturbed /\ ~again) /\ bdrst' = (bdrst /\ ~again)
  BY <1>1 DEF BootDomain
<1>3. d \in DomainTypes
  BY ResetDomainIs DEF BackupInv, BackupTypes
<1>4. /\ rtc_step' = "idle" /\ job' = "none" /\ init_mode' = "run"
      /\ rtc' = [inited |-> FALSE, valid |-> FALSE] /\ wiped' = FALSE /\ access' = FALSE
      /\ bdcr' = FALSE /\ half_set' = (half_set \/ domain.calendar = "half")
  BY DEF Boot
<1>5. rtc' \in RtcTypes /\ ~rtc'.inited
  BY <1>4 DEF RtcTypes
<1>6. domain' \in DomainTypes /\ domain'.register = stored'
  <2>1. CASE again
    BY <1>2, <1>3, <2>1, ResetDomainIs, LseField DEF DomainTypes
  <2>2. CASE ~again
    BY <1>2, <1>3, <2>2, LseField DEF DomainTypes, BackupInv, StoredInv
  <2>. QED  BY <2>1, <2>2
<1>7. BackupTypes'
  BY <1>2, <1>4, <1>5, <1>6 DEF BackupInv, BackupTypes, RtcSteps, Jobs
<1>8. domain'.inits /\ ~disturbed' => ClockMade' /\ CalendarMade'
  <2>1. CASE again
    BY <1>2, <1>3, <2>1, ResetDomainIs, LseField DEF DomainTypes
  <2>2. CASE ~again
    <3>1. /\ (domain'.inits <=> domain.inits) /\ domain'.sel = domain.sel
          /\ domain'.prescaler = domain.prescaler /\ domain'.calendar = domain.calendar
      BY <1>2, <1>3, <2>2, LseField DEF DomainTypes
    <3>. QED  BY <1>2, <1>4, <2>2, <3>1 DEF BackupInv, ToldInv, ClockMade, CalendarMade
  <2>. QED  BY <2>1, <2>2
<1>9. JobInv'
  BY <1>4 DEF JobInv, JobSteps
<1>. QED  BY <1>4, <1>5, <1>6, <1>7, <1>8, <1>9 DEF BackupInv, ModeInv, ToldInv, StoredInv

(* The steps of uni_hal_rtc_init. *)
LEMMA RtcInitCallStep == BackupInv /\ RtcInitCall => BackupInv'
<1> SUFFICES ASSUME BackupInv, RtcInitCall PROVE BackupInv'
  OBVIOUS
<1>. USE DEF RtcInitCall, RtcCall, RtcAt, boardVars
<1>1. BackupTypes' /\ rtc_step' \in {"force", "select"} /\ rtc_step = "idle"
  BY DEF BackupInv, BackupTypes, RtcSteps
<1>2. rtc_step' = "force" => LossAccepted'
  BY DEF ClockSourceDiffers, LossAccepted, OscRuns
<1>3. job' = "none" /\ JobInv'
  BY <1>1 DEF BackupInv, JobInv, JobSteps
<1>4. ToldInv'
  BY <1>1, <1>3 DEF BackupInv, ToldInv, ClockMade, CalendarMade
<1>. QED  BY <1>1, <1>2, <1>3, <1>4 DEF BackupInv, ModeInv, StoredInv

LEMMA RtcForceStep == BackupInv /\ RtcForce => BackupInv'
<1> SUFFICES ASSUME BackupInv, RtcForce PROVE BackupInv'
  OBVIOUS
<1>. USE DEF RtcForce, RtcAt, boardVars
<1>1. rtc_step = "force" /\ rtc_step' = "release" /\ UNCHANGED <<access, rtc, job, wiped, half_set>>
  OBVIOUS
<1>2. BackupTypes'
  BY <1>1, ResetDomainIs DEF BackupInv, BackupTypes, RtcSteps, DomainTypes
<1>3. job' = "none" /\ JobInv'
  BY <1>1 DEF BackupInv, JobInv, JobSteps
<1>4. CASE access
  <2>1. domain' = ResetDomain /\ init_mode' = "run"
    BY <1>4
  <2>2. stored' = 0
    BY <1>4 DEF BackupInv, StoredInv
  <2>. QED  BY <1>1, <1>2, <1>3, <2>1, <2>2, ResetDomainIs
            DEF BackupInv, ModeInv, ToldInv, StoredInv
<1>5. CASE ~access
  BY <1>1, <1>2, <1>3, <1>5 DEF BackupInv, ModeInv, ToldInv, StoredInv, ClockMade, CalendarMade
<1>. QED  BY <1>4, <1>5

LEMMA RtcReleaseStep == BackupInv /\ RtcRelease => BackupInv'
<1> SUFFICES ASSUME BackupInv, RtcRelease PROVE BackupInv'
  OBVIOUS
<1>1. /\ rtc_step = "release" /\ rtc_step' = "restore" /\ bdrst' = (bdrst /\ ~access)
      /\ UNCHANGED <<access, domain, init_mode, rtc, bdcr, job, stored, wiped, half_set, disturbed>>
  BY DEF RtcRelease, RtcAt, histories
<1>2. BackupTypes'
  BY <1>1 DEF BackupInv, BackupTypes, RtcSteps
<1>3. job' = "none" /\ JobInv'
  BY <1>1 DEF BackupInv, JobInv, JobSteps
<1>. QED  BY <1>1, <1>2, <1>3 DEF BackupInv, ModeInv, ToldInv, StoredInv, ClockMade, CalendarMade

LEMMA RtcRestoreStep == BackupInv /\ RtcRestore => BackupInv'
<1> SUFFICES ASSUME BackupInv, RtcRestore PROVE BackupInv'
  OBVIOUS
<1>1. /\ rtc_step = "restore" /\ rtc_step' = "select" /\ bdrst' = (bdrst /\ ~access)
      /\ UNCHANGED <<access, init_mode, rtc, bdcr, job, stored, wiped, half_set, disturbed>>
      /\ domain' = domain \/ domain' = [domain EXCEPT !.lse = bdcr]
  BY DEF RtcRestore, RtcAt, histories
<1>2. /\ domain' \in DomainTypes /\ domain'.register = domain.register
      /\ (domain'.inits <=> domain.inits) /\ domain'.sel = domain.sel
      /\ domain'.prescaler = domain.prescaler /\ domain'.calendar = domain.calendar
  BY <1>1, LseField DEF BackupInv, BackupTypes, DomainTypes
<1>3. BackupTypes'
  BY <1>1, <1>2 DEF BackupInv, BackupTypes, RtcSteps
<1>4. job' = "none" /\ JobInv'
  BY <1>1 DEF BackupInv, JobInv, JobSteps
<1>. QED  BY <1>1, <1>2, <1>3, <1>4
          DEF BackupInv, ModeInv, ToldInv, StoredInv, ClockMade, CalendarMade

LEMMA RtcSelectStep == BackupInv /\ RtcSelect => BackupInv'
<1> SUFFICES ASSUME BackupInv, RtcSelect PROVE BackupInv'
  OBVIOUS
<1>1. /\ rtc_step = "select" /\ rtc_step' \in {"enable", "idle"}
      /\ UNCHANGED <<access, bdrst, init_mode, bdcr, job, stored, wiped, half_set, disturbed>>
      /\ \/ rtc_step' = "enable" /\ rtc' = rtc
         \/ rtc' = [rtc EXCEPT !.inited = FALSE]
  BY DEF RtcSelect, RtcAt, histories
<1>2. rtc' \in RtcTypes /\ (rtc_step' = "idle" => ~rtc'.inited)
  BY <1>1 DEF BackupInv, BackupTypes, RtcTypes
<1>3. \/ domain' = domain
      \/ domain' = Selecting(domain, board.source) /\ OscRuns(board.source)
  BY DEF RtcSelect, RtcAt, Selecting
<1>4. ASSUME NEW x \in {"lse", "lsi", "hse"}, domain' = Selecting(domain, x)
      PROVE  /\ domain' \in DomainTypes /\ domain'.register = domain.register
             /\ (domain'.inits <=> domain.inits) /\ domain'.prescaler = domain.prescaler
             /\ domain'.calendar = domain.calendar
             /\ domain.sel # "none" => domain'.sel = domain.sel
  BY <1>4, SelField DEF BackupInv, BackupTypes, DomainTypes, Selecting
<1>5. OscRuns(board.source) => board.source \in {"lse", "lsi", "hse"}
  BY DEF OscRuns
<1>6. /\ domain' \in DomainTypes /\ domain'.register = domain.register
      /\ (domain'.inits <=> domain.inits) /\ domain'.prescaler = domain.prescaler
      /\ domain'.calendar = domain.calendar
      /\ domain.sel # "none" => domain'.sel = domain.sel
  BY <1>3, <1>4, <1>5 DEF BackupInv, BackupTypes
<1>7. BackupTypes'
  BY <1>1, <1>2, <1>6 DEF BackupInv, BackupTypes, RtcSteps
<1>8. job' = "none" /\ JobInv'
  BY <1>1 DEF BackupInv, JobInv, JobSteps
<1>9. domain'.inits /\ ~disturbed' => ClockMade' /\ CalendarMade'
  BY <1>1, <1>6 DEF BackupInv, ToldInv, ClockMade, CalendarMade
<1>. QED  BY <1>1, <1>2, <1>6, <1>7, <1>8, <1>9 DEF BackupInv, ModeInv, ToldInv, StoredInv

LEMMA RtcEnableStep == BackupInv /\ RtcEnable => BackupInv'
<1> SUFFICES ASSUME BackupInv, RtcEnable PROVE BackupInv'
  OBVIOUS
<1>1. /\ rtc_step = "enable" /\ rtc_step' = "prescale"
      /\ UNCHANGED <<access, bdrst, init_mode, rtc, bdcr, job, stored, wiped, half_set, disturbed>>
      /\ domain' = [domain EXCEPT !.rtcen = domain.rtcen \/ Writable]
  BY DEF RtcEnable, RtcAt, histories
<1>2. (domain.rtcen \/ Writable) \in BOOLEAN
  OBVIOUS
<1>3. /\ domain' \in DomainTypes /\ domain'.register = domain.register
      /\ (domain'.inits <=> domain.inits) /\ domain'.sel = domain.sel
      /\ domain'.prescaler = domain.prescaler /\ domain'.calendar = domain.calendar
  BY <1>1, <1>2, RtcenField DEF BackupInv, BackupTypes, DomainTypes
<1>4. BackupTypes'
  BY <1>1, <1>3 DEF BackupInv, BackupTypes, RtcSteps
<1>5. job' = "none" /\ JobInv'
  BY <1>1 DEF BackupInv, JobInv, JobSteps
<1>. QED  BY <1>1, <1>3, <1>4, <1>5
          DEF BackupInv, ModeInv, ToldInv, StoredInv, ClockMade, CalendarMade

(* The prescalers are set for the clock that is selected, unless a calendar keeps its own. *)
LEMMA RtcPrescaleStep == BackupInv /\ RtcPrescale => BackupInv'
<1> SUFFICES ASSUME BackupInv, RtcPrescale PROVE BackupInv'
  OBVIOUS
<1>1. /\ rtc_step = "prescale" /\ rtc_step' = IF domain.inits THEN "idle" ELSE "enter"
      /\ UNCHANGED <<access, bdrst, domain, init_mode, bdcr, stored, wiped, half_set>>
      /\ rtc' = [valid |-> domain.inits, inited |-> domain.inits \/ rtc.inited]
      /\ job' = IF domain.inits THEN "none" ELSE Prescaler
      /\ disturbed' = (disturbed /\ (domain.inits \/ init_mode # "run"))
  BY DEF RtcPrescale, RtcAt
<1>2. domain.inits \in BOOLEAN /\ rtc.inited \in BOOLEAN /\ Prescaler \in {"lse", "lsi"}
  BY DEF BackupInv, BackupTypes, DomainTypes, RtcTypes, Prescaler
<1>3. rtc' \in RtcTypes /\ rtc'.valid = domain.inits
  BY <1>1, <1>2 DEF RtcTypes
<1>4. BackupTypes'
  BY <1>1, <1>2, <1>3 DEF BackupInv, BackupTypes, RtcSteps, JobSteps, Jobs
<1>5. job = "none"
  BY <1>1 DEF BackupInv, JobInv, JobSteps
<1>6. Prescaler' = Prescaler
  BY <1>1 DEF Prescaler
<1>7. CASE domain.inits
  BY <1>1, <1>3, <1>4, <1>5, <1>7 DEF BackupInv, JobInv, JobSteps, ModeInv, ToldInv, StoredInv,
     ClockMade, CalendarMade, RtcMade
<1>8. CASE ~domain.inits
  BY <1>1, <1>2, <1>3, <1>4, <1>6, <1>8 DEF BackupInv, JobInv, JobSteps, ModeInv, ToldInv,
     StoredInv
<1>. QED  BY <1>7, <1>8


LEMMA RtcSetDateStep == BackupInv /\ RtcSetDate => BackupInv'
<1> SUFFICES ASSUME BackupInv, RtcSetDate PROVE BackupInv'
  OBVIOUS
<1>1. /\ rtc.inited /\ ~wiped /\ rtc_step = "idle" /\ rtc_step' = "enter" /\ job' = "date"
      /\ UNCHANGED <<access, bdrst, domain, init_mode, rtc, bdcr, stored, wiped, half_set,
                     disturbed>>
  BY DEF RtcSetDate, RtcCall, RtcAt, histories
<1>2. BackupTypes'
  BY <1>1 DEF BackupInv, BackupTypes, RtcSteps, JobSteps, Jobs
<1>3. ~disturbed => RtcMade
  BY <1>1 DEF BackupInv, ToldInv
<1>4. JobInv'
  BY <1>1, <1>3 DEF JobInv, JobSteps, RtcMade, ClockMade
<1>5. ToldInv'
  BY <1>1, <1>3 DEF BackupInv, ToldInv, RtcMade, ClockMade, CalendarMade
<1>. QED  BY <1>1, <1>2, <1>4, <1>5 DEF BackupInv, ModeInv, StoredInv

(* The steps of a job that end the call with false. *)
LEMMA RtcFailsStep ==
    ASSUME BackupInv, NEW step \in {"wait", "sync"}, RtcFails(step)
    PROVE  BackupInv'
<1>1. /\ rtc_step = step /\ rtc_step' = "idle" /\ job' = "none"
      /\ UNCHANGED <<access, bdrst, domain, init_mode, bdcr, stored, wiped, disturbed>>
      /\ IF job \in {"date", "time"}
         THEN half_set' = (half_set \/ domain.calendar = "half") /\ rtc' = rtc
         ELSE rtc' = [rtc EXCEPT !.inited = FALSE] /\ half_set' = half_set
  BY DEF RtcFails, Job, RtcAt
<1>2. /\ rtc' \in RtcTypes
      /\ IF job \in {"date", "time"} THEN rtc' = rtc ELSE ~rtc'.inited
  BY <1>1 DEF BackupInv, BackupTypes, RtcTypes
<1>3. BackupTypes'
  BY <1>1, <1>2 DEF BackupInv, BackupTypes, RtcSteps, Jobs
<1>4. JobInv'
  BY <1>1 DEF JobInv, JobSteps
<1>5. ToldInv'
  BY <1>1, <1>2 DEF BackupInv, ToldInv, RtcMade, ClockMade, CalendarMade
<1>. QED  BY <1>1, <1>3, <1>4, <1>5 DEF BackupInv, ModeInv, StoredInv

LEMMA RtcEnterInitStep == BackupInv /\ RtcEnterInit => BackupInv'
<1> SUFFICES ASSUME BackupInv, RtcEnterInit PROVE BackupInv'
  OBVIOUS
<1>1. /\ rtc_step = "enter" /\ rtc_step' = "wait"
      /\ UNCHANGED <<access, bdrst, domain, rtc, bdcr, job, stored, wiped, half_set, disturbed>>
      /\ init_mode' = IF Writable /\ init_mode = "run" THEN "asked" ELSE init_mode
  BY DEF RtcEnterInit, Job, RtcAt
<1>2. BackupTypes'
  BY <1>1 DEF BackupInv, BackupTypes, RtcSteps, JobSteps
<1>3. ModeInv'
  BY <1>1 DEF BackupInv, BackupTypes, ModeInv, Writable
<1>4. JobInv'
  BY <1>1 DEF BackupInv, JobInv, JobSteps, Prescaler, ClockMade
<1>5. ToldInv'
  BY <1>1 DEF BackupInv, ToldInv, RtcMade, ClockMade, CalendarMade
<1>. QED  BY <1>1, <1>2, <1>3, <1>4, <1>5 DEF BackupInv, StoredInv

(* The hardware has stopped the calendar; it has a clock, or it could not. *)
LEMMA InitModeEnteredStep == BackupInv /\ InitModeEntered => BackupInv'
<1> SUFFICES ASSUME BackupInv, InitModeEntered PROVE BackupInv'
  OBVIOUS
<1>1. /\ init_mode = "asked" /\ init_mode' = "init" /\ Counting
      /\ UNCHANGED <<board, crystal, lsi, access, bdrst, domain, rtc, rtc_step, bdcr, job, stored,
                     wiped, half_set, disturbed>>
  BY DEF InitModeEntered, boardVars, histories
<1>2. domain.sel # "none"
  BY <1>1 DEF Counting, OscRuns
<1>3. BackupTypes' /\ ModeInv'
  BY <1>1, <1>2 DEF BackupInv, BackupTypes, ModeInv
<1>4. JobInv'
  BY <1>1 DEF BackupInv, JobInv, Prescaler, ClockMade
<1>5. ToldInv' /\ StoredInv'
  BY <1>1 DEF BackupInv, ToldInv, RtcMade, ClockMade, CalendarMade, StoredInv, LossAccepted,
     OscRuns
<1>. QED  BY <1>3, <1>4, <1>5 DEF BackupInv

LEMMA RtcWaitStep == BackupInv /\ RtcWait => BackupInv'
<1> SUFFICES ASSUME BackupInv, RtcWait PROVE BackupInv'
  OBVIOUS
<1>1. CASE init_mode = "init" /\ Job("wait", "write")
           /\ UNCHANGED <<domain, init_mode, rtc, job, half_set>>
  <2>1. /\ rtc_step = "wait" /\ rtc_step' = "write" /\ init_mode = "init"
        /\ UNCHANGED <<access, bdrst, domain, init_mode, rtc, bdcr, job, stored, wiped, half_set,
                       disturbed>>
    BY <1>1 DEF Job, RtcAt
  <2>2. BackupTypes'
    BY <2>1 DEF BackupInv, BackupTypes, RtcSteps, JobSteps
  <2>3. JobInv'
    BY <2>1 DEF BackupInv, JobInv, JobSteps, Prescaler, ClockMade
  <2>4. ToldInv'
    BY <2>1 DEF BackupInv, ToldInv, RtcMade, ClockMade, CalendarMade
  <2>. QED  BY <2>1, <2>2, <2>3, <2>4 DEF BackupInv, ModeInv, StoredInv
<1>. QED  BY <1>1, RtcFailsStep DEF RtcWait

(* What a job writes is there unless it is disturbed. *)
LEMMA RtcWriteStep == BackupInv /\ RtcWrite => BackupInv'
<1> SUFFICES ASSUME BackupInv, RtcWrite PROVE BackupInv'
  OBVIOUS
<1>1. /\ rtc_step = "write" /\ rtc_step' = "leave"
      /\ UNCHANGED <<access, bdrst, init_mode, rtc, bdcr, job, stored, wiped, half_set, disturbed>>
      /\ IF Writable /\ init_mode = "init" THEN domain' \in Written(job) ELSE domain' = domain
  BY DEF RtcWrite, Job, RtcAt
<1>2. job \in {"lse", "lsi", "date", "time"}
  BY <1>1 DEF BackupInv, BackupTypes, JobInv, JobSteps, Jobs
<1>3. ~disturbed => domain' \in Written(job)
  BY <1>1 DEF BackupInv, BackupTypes, JobInv, ModeInv, Writable
<1>4. /\ domain' \in DomainTypes /\ domain'.register = domain.register
      /\ domain'.sel = domain.sel
      /\ job \in {"date", "time"} => domain'.prescaler = domain.prescaler
      /\ job = "date" /\ ~disturbed => domain'.calendar = "half"
      /\ job = "time" /\ ~disturbed =>
             domain'.calendar = IF domain.calendar = "reset" THEN "half" ELSE "set"
      /\ job \in {"lse", "lsi"} =>
             /\ domain'.calendar = domain.calendar /\ (~disturbed => domain'.prescaler = job)
      /\ job # "date" => (domain'.inits <=> domain.inits)
  <2>1. CASE domain' = domain /\ disturbed
    BY <2>1 DEF BackupInv, BackupTypes
  <2>2. CASE domain' \in Written(job) /\ job = "date"
    <3>1. PICK b \in BOOLEAN : domain' = [domain EXCEPT !.inits = b, !.calendar = "half"]
      BY <2>2 DEF Written
    <3>. QED  BY <2>2, <3>1, DateField DEF BackupInv, BackupTypes
  <2>3. CASE domain' \in Written(job) /\ job = "time"
    <3>1. domain' = [domain EXCEPT !.calendar = IF @ = "reset" THEN "half" ELSE "set"]
      BY <2>3 DEF Written
    <3>. QED  BY <2>3, <3>1, TimeField DEF BackupInv, BackupTypes
  <2>4. CASE domain' \in Written(job) /\ job \in {"lse", "lsi"}
    <3>1. domain' = [domain EXCEPT !.prescaler = job]
      BY <2>4 DEF Written
    <3>. QED  BY <2>4, <3>1, PrescalerField DEF BackupInv, BackupTypes
  <2>. QED  BY <1>1, <1>2, <1>3, <2>1, <2>2, <2>3, <2>4
<1>5. BackupTypes'
  BY <1>1, <1>4 DEF BackupInv, BackupTypes, RtcSteps, JobSteps
<1>6. Prescaler' = Prescaler
  BY <1>4 DEF Prescaler
<1>7. ~disturbed /\ ClockMade => ClockMade'
  BY <1>2, <1>4, <1>1 DEF BackupInv, BackupTypes, DomainTypes, JobInv, Prescaler, ClockMade
<1>8. JobInv'
  BY <1>1, <1>2, <1>4, <1>6, <1>7 DEF BackupInv, BackupTypes, DomainTypes, JobInv, JobSteps
<1>9. ToldInv'
  <2>1. ~disturbed /\ job \in {"date", "time"} => ClockMade' /\ CalendarMade'
    BY <1>1, <1>4, <1>7 DEF BackupInv, JobInv, CalendarMade
  <2>2. job \in {"lse", "lsi"} /\ domain'.inits /\ ~disturbed => ClockMade' /\ CalendarMade'
    BY <1>1, <1>4, <1>7 DEF BackupInv, ToldInv, CalendarMade
  <2>. QED  BY <1>1, <1>2, <2>1, <2>2 DEF ToldInv, RtcMade
<1>. QED  BY <1>1, <1>4, <1>5, <1>8, <1>9 DEF BackupInv, ModeInv, StoredInv

(* The initialisation ends with a clock and its prescalers. *)
LEMMA RtcLeaveInitStep == BackupInv /\ RtcLeaveInit => BackupInv'
<1> SUFFICES ASSUME BackupInv, RtcLeaveInit PROVE BackupInv'
  OBVIOUS
<1>1. /\ rtc_step = "leave" /\ UNCHANGED <<access, bdrst, domain, bdcr, stored, wiped, half_set,
                                           disturbed>>
      /\ init_mode' = IF Writable THEN "run" ELSE init_mode
      /\ IF job \in {"date", "time"} THEN rtc_step' = "sync" /\ UNCHANGED <<rtc, job>>
         ELSE rtc_step' = "idle" /\ rtc' = [rtc EXCEPT !.inited = TRUE] /\ job' = "none"
  BY DEF RtcLeaveInit, Job, RtcAt
<1>2. /\ rtc' \in RtcTypes /\ rtc'.valid = rtc.valid
      /\ job \in {"date", "time"} => rtc' = rtc
  BY <1>1 DEF BackupInv, BackupTypes, RtcTypes
<1>3. BackupTypes'
  BY <1>1, <1>2 DEF BackupInv, BackupTypes, RtcSteps, JobSteps, Jobs
<1>4. ModeInv'
  BY <1>1 DEF BackupInv, ModeInv
<1>5. JobInv'
  BY <1>1, <1>2 DEF BackupInv, JobInv, JobSteps, ClockMade
<1>6. job \in {"lse", "lsi", "date", "time"}
  BY <1>1 DEF BackupInv, BackupTypes, JobInv, JobSteps, Jobs
<1>7. ~disturbed /\ job \in {"lse", "lsi"} => ClockMade
  <2>. SUFFICES ASSUME ~disturbed, job \in {"lse", "lsi"} PROVE ClockMade
    OBVIOUS
  <2>1. domain.prescaler = Prescaler /\ domain.sel # "none"
    BY <1>1 DEF BackupInv, JobInv, ModeInv
  <2>. QED  BY <2>1 DEF BackupInv, BackupTypes, DomainTypes, Prescaler, ClockMade
<1>8. ToldInv'
  BY <1>1, <1>2, <1>6, <1>7 DEF BackupInv, JobInv, ToldInv, RtcMade, ClockMade, CalendarMade
<1>. QED  BY <1>1, <1>3, <1>4, <1>5, <1>8 DEF BackupInv, StoredInv

LEMMA RtcSyncStep == BackupInv /\ RtcSync => BackupInv'
<1> SUFFICES ASSUME BackupInv, RtcSync PROVE BackupInv'
  OBVIOUS
<1>1. CASE ~RtcFails("sync")
  <2>1. /\ rtc_step = "sync" /\ UNCHANGED <<access, bdrst, domain, init_mode, bdcr, stored, wiped,
                                            disturbed>>
        /\ \/ /\ job = "date" /\ job' = "time" /\ rtc_step' = "enter"
              /\ UNCHANGED <<rtc, half_set>>
           \/ /\ job # "date" /\ job' = "none" /\ rtc_step' = "idle"
              /\ rtc' = [rtc EXCEPT !.valid = TRUE] /\ half_set' = FALSE
    BY <1>1 DEF RtcSync, Job, RtcAt
  <2>2. rtc' \in RtcTypes /\ rtc'.inited = rtc.inited /\ (job = "date" => rtc' = rtc)
    BY <2>1 DEF BackupInv, BackupTypes, RtcTypes
  <2>3. BackupTypes'
    BY <2>1, <2>2 DEF BackupInv, BackupTypes, RtcSteps, JobSteps, Jobs
  <2>4. job \in {"date", "time"}
    BY <2>1 DEF BackupInv, BackupTypes, JobInv, JobSteps, Jobs
  <2>5. JobInv'
    BY <2>1, <2>2, <2>4 DEF BackupInv, JobInv, JobSteps, ClockMade
  <2>6. ToldInv'
    BY <2>1, <2>2, <2>4 DEF BackupInv, JobInv, ToldInv, RtcMade, ClockMade, CalendarMade
  <2>. QED  BY <2>1, <2>3, <2>5, <2>6 DEF BackupInv, ModeInv, StoredInv
<1>. QED  BY <1>1, RtcFailsStep DEF RtcSync

LEMMA WriteStep == BackupInv /\ (BackupWrite \/ BackupWritten) => BackupInv'
<1> SUFFICES ASSUME BackupInv, BackupWrite \/ BackupWritten PROVE BackupInv'
  OBVIOUS
<1>1. /\ \/ rtc_step = "idle" /\ rtc_step' = "register" /\ access' = TRUE
         \/ rtc_step = "register" /\ rtc_step' = "idle" /\ access' = access
      /\ UNCHANGED <<bdrst, init_mode, rtc, bdcr, job, wiped, half_set, disturbed>>
      /\ \/ domain' = domain /\ stored' = stored
         \/ /\ domain' = domain \/ domain' = [domain EXCEPT !.register = 1]
            /\ stored' = IF domain'.register = 1 THEN 1 ELSE stored
  BY DEF BackupWrite, BackupWritten, RtcCall, RtcAt, histories
<1>2. /\ domain' \in DomainTypes /\ domain'.sel = domain.sel
      /\ domain'.prescaler = domain.prescaler /\ domain'.calendar = domain.calendar
      /\ (domain'.inits <=> domain.inits) /\ domain'.register = stored'
  BY <1>1, RegisterField DEF BackupInv, BackupTypes, DomainTypes, StoredInv
<1>3. BackupTypes'
  BY <1>1, <1>2 DEF BackupInv, BackupTypes, RtcSteps
<1>4. job' = "none" /\ JobInv'
  BY <1>1 DEF BackupInv, JobInv, JobSteps
<1>5. ToldInv'
  BY <1>1, <1>2, <1>4 DEF BackupInv, ToldInv, RtcMade, ClockMade, CalendarMade
<1>. QED  BY <1>1, <1>2, <1>3, <1>4, <1>5 DEF BackupInv, ModeInv, StoredInv

(* Another driver's call selects a clock, switches the RTC or resets the domain; what that takes *)
(* from a job is history.                                                                        *)
LEMMA OtherStep ==
    ASSUME BackupInv, OtherReturn \/ \E call : OtherCall(call)
    PROVE  BackupInv'
<1>1. UNCHANGED <<board, crystal, lsi, rtc, rtc_step, bdcr, job, half_set>>
  BY DEF OtherReturn, OtherCall, histories, boardVars
<1>2. CASE OtherReturn /\ other = "reset" /\ access
  <2>1. /\ domain' = ResetDomain /\ stored' = 0 /\ wiped' = TRUE /\ init_mode' = "run"
        /\ bdrst' = FALSE /\ disturbed' = (job # "none") /\ access' \in BOOLEAN
    BY <1>2 DEF OtherReturn
  <2>2. BackupTypes'
    BY <1>1, <2>1, ResetDomainIs DEF BackupInv, BackupTypes
  <2>3. JobInv'
    BY <1>1, <2>1 DEF BackupInv, JobInv, JobSteps
  <2>. QED  BY <1>1, <2>1, <2>2, <2>3, ResetDomainIs DEF BackupInv, ModeInv, ToldInv, StoredInv
<1>3. ASSUME UNCHANGED <<bdrst, init_mode, stored, wiped>>, access' \in BOOLEAN,
             disturbed' = (disturbed \/ Disturbs),
             \/ domain' = domain
             \/ \E x \in {"lse", "lsi", "hse"} : domain' = Selecting(domain, x)
             \/ \E b \in BOOLEAN : domain' = [domain EXCEPT !.rtcen = b]
      PROVE  BackupInv'
  <2>1. /\ domain' \in DomainTypes /\ domain'.register = domain.register
        /\ (domain'.inits <=> domain.inits) /\ domain'.prescaler = domain.prescaler
        /\ domain'.calendar = domain.calendar /\ (domain'.lse <=> domain.lse)
        /\ domain.sel # "none" => domain'.sel = domain.sel
    BY <1>3, SelField, RtcenField DEF BackupInv, BackupTypes, DomainTypes, Selecting
  <2>2. BackupTypes'
    BY <1>1, <1>3, <2>1 DEF BackupInv, BackupTypes
  <2>3. LossAccepted => LossAccepted'
    BY <1>1, <2>1 DEF LossAccepted, OscRuns
  <2>4. ~disturbed' => /\ ~disturbed /\ (job # "none" => domain'.sel = domain.sel)
                       /\ (init_mode # "run" /\ access => access')
    BY <1>3 DEF Disturbs
  <2>5. ModeInv'
    BY <1>3, <2>1, <2>4 DEF BackupInv, ModeInv
  <2>6. JobInv'
    BY <1>1, <1>3, <2>1, <2>4 DEF BackupInv, JobInv, JobSteps, Prescaler, ClockMade
  <2>7. ToldInv'
    BY <1>1, <1>3, <2>1, <2>4 DEF BackupInv, ToldInv, RtcMade, ClockMade, CalendarMade
  <2>. QED  BY <1>1, <1>3, <2>1, <2>2, <2>3, <2>5, <2>6, <2>7 DEF BackupInv, StoredInv
<1>4. ASSUME NEW call, OtherCall(call) PROVE BackupInv'
  <2>1. access' = TRUE /\ UNCHANGED <<bdrst, domain, init_mode, stored, wiped, disturbed>>
    BY <1>4 DEF OtherCall, histories
  <2>2. disturbed' = (disturbed \/ Disturbs)
    BY <2>1 DEF BackupInv, BackupTypes, Disturbs
  <2>. QED  BY <1>3, <2>1, <2>2
<1>5. CASE OtherReturn /\ ~(other = "reset" /\ access)
  <2>1. UNCHANGED <<bdrst, init_mode, stored, wiped>> /\ access' \in BOOLEAN
        /\ disturbed' = (disturbed \/ Disturbs)
        /\ domain' = IF Writable THEN Effect(other, domain) ELSE domain
    BY <1>5 DEF OtherReturn
  <2>2. \/ domain' = domain
        \/ \E x \in {"lse", "lsi", "hse"} : domain' = Selecting(domain, x)
        \/ \E b \in BOOLEAN : domain' = [domain EXCEPT !.rtcen = b]
    BY <2>1 DEF Effect
  <2>. QED  BY <1>3, <2>1, <2>2
<1>. QED  BY <1>2, <1>4, <1>5

(* What the application relies on stays, and an RTC that reports to be set up is, *)
(* whatever other driver's calls come in between the steps, unless they disturb   *)
(* its initialisation mode.                                                       *)
THEOREM BackupIsKept == BackupSpec => []BackupKept
<1>1. BackupInit => BackupInv
  <2> SUFFICES ASSUME BackupInit PROVE BackupInv
    OBVIOUS
  <2>1. rtc \in RtcTypes /\ ~rtc.inited /\ rtc_step = "off" /\ job = "none" /\ init_mode = "run"
    BY DEF BackupInit, RtcTypes
  <2>2. BackupTypes
    BY <2>1, ResetDomainIs DEF BackupInit, BackupTypes, RtcSteps, Jobs
  <2>3. JobInv /\ ModeInv
    BY <2>1 DEF JobInv, JobSteps, ModeInv
  <2>. QED  BY <2>1, <2>2, <2>3, ResetDomainIs DEF BackupInit, BackupInv, ToldInv, StoredInv
<1>2. BackupInv => BackupKept
  BY DEF BackupInv, BackupTypes, JobInv, JobSteps, ToldInv, StoredInv, RtcMade, ClockMade,
     CalendarMade, BackupKept
<1>3. BackupInv /\ [BackupNext]_domainVars => BackupInv'
  <2> SUFFICES ASSUME BackupInv, [BackupNext]_domainVars PROVE BackupInv'
    OBVIOUS
  <2>1. CASE UNCHANGED domainVars
    BY <2>1 DEF domainVars, BackupInv, BackupTypes, ModeInv, JobInv, ToldInv, StoredInv, Prescaler,
       RtcMade, ClockMade, CalendarMade, LossAccepted, OscRuns
  <2>. QED  BY <2>1, BootStep, RtcInitCallStep, RtcForceStep, RtcReleaseStep, RtcRestoreStep,
               RtcSelectStep, RtcEnableStep, RtcPrescaleStep, RtcSetDateStep, RtcEnterInitStep,
               InitModeEnteredStep, RtcWaitStep, RtcWriteStep, RtcLeaveInitStep, RtcSyncStep,
               WriteStep, OtherStep DEF BackupNext
<1>. QED  BY <1>1, <1>2, <1>3, PTL DEF BackupSpec
==============================================================================
