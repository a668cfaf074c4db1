------------------------------- MODULE Clocks -------------------------------
(***************************************************************************)
(* The clock tree as uni_hal_rcc_init sets it up on both chips, and as the *)
(* clock security system rebuilds it when the crystal (HSE) stops: the NMI *)
(* handler runs _uni_hal_stm_rcc_pll and _uni_hal_stm_rcc_sysclk, the same *)
(* functions uni_hal_rcc_init may be in the middle of.                     *)
(*                                                                         *)
(* `chip` tells the STM32H743 from the STM32L496. The steps of both        *)
(* functions take the context they run in: "task" or "nmi".                *)
(* Oscillators and PLLs are external, with the locks of the reference      *)
(* manuals: source and dividers of a PLL that is on ignore a write, PLL1   *)
(* stays on while it is the system clock, and a system clock that loses    *)
(* its crystal falls back to an internal oscillator.                       *)
(***************************************************************************)
EXTENDS Integers, FiniteSets, FiniteSetsExt

CONSTANTS
    NPll,       \* the STM32H743 has PLL1 .. PLL3; the system clock is PLL1
    H7Freqs,    \* MHz that PLL1 of an STM32H743 may deliver; 0: its P output is off
    L4Freqs,    \* MHz that the PLL of an STM32L496 may deliver
    MaxInit     \* bound: calls of uni_hal_rcc_init

ASSUME ClocksAssumption ==
    /\ NPll \in Nat \ {0} /\ MaxInit \in Nat
    /\ H7Freqs \subseteq Nat
    /\ \A f \in H7Freqs : f % 2 = 0     \* the AXI bus has half of it
    /\ L4Freqs \subseteq 1..80

VARIABLES
    chip, cfg,      \* the chip and its configuration
    hse_enable,     \* in the configuration too, but the NMI clears it
    osc,            \* oscillators that run
    css,            \* the clock security system watches the HSE
    pllsrc, pll,    \* source of the PLLs; each off, on or locked
    div,            \* the source the divider M of each PLL was written for
    sw, want,       \* the system clock, and what was asked for
    ahb,            \* AHB prescaler
    vos, level,     \* voltage scale that is asked for, and the one it has reached
    lat,            \* flash wait states
    st_osc, st_pll, st_sys, inited,     \* g_uni_hal_rcc_status
    pc, loc,        \* control and locals of the task and of the NMI
    calls,          \* calls of uni_hal_rcc_init so far
    hit             \* history: what the failure of the HSE found

hwVars   == <<osc, css, pllsrc, pll, div, sw, want>>
speedVars  == <<ahb, vos, level, lat>>
statVars == <<st_osc, st_pll, st_sys, inited>>
ctlVars  == <<pc, loc>>
fixVars  == <<chip, cfg>>
histVars == <<hse_enable, calls, hit>>
vars     == <<hwVars, speedVars, statVars, ctlVars, fixVars, histVars>>

-----------------------------------------------------------------------------
Plls == IF chip = "h7" THEN 1..NPll ELSE {1}
Callers  == {"task", "nmi"}
Src  == {"none", "msi", "hsi", "csi", "hse", "pll"}

\* One configuration: the oscillators to use, the PLLs with an output, the
\* PLLs whose M can be scaled to an internal source, and the frequency of the
\* system output of PLL1 (0: its P output is off).
Config == [css : BOOLEAN, csi : BOOLEAN, used : SUBSET (2..NPll),
           scale : SUBSET (1..NPll), mhz : H7Freqs \cup L4Freqs]

H7Config == {c \in Config : /\ c.mhz \in H7Freqs
                            /\ c.scale \in {{}, {1}, 1..NPll}}
L4Config == {c \in Config : /\ c.mhz \in L4Freqs /\ ~c.csi
                            /\ c.used = {} /\ c.scale \in {{}, {1}}}

\* HSE_VALUE, CSI_VALUE, HSI_VALUE and the MSI after a reset
H7Mhz(s) == CASE s = "hse" -> 25 [] s = "csi" -> 4 [] OTHER -> 64
L4Mhz(s) == CASE s = "hse" -> 8 [] s = "hsi" -> 16 [] OTHER -> 4
Mhz(s)   == IF chip = "h7" THEN H7Mhz(s) ELSE L4Mhz(s)

\* What PLL1 delivers: its nominal frequency when M belongs to its source. An
\* M of the STM32L4 that cannot be represented (10, say) becomes 1.
PllMhz == IF div[1] = "one" THEN cfg.mhz * 10
          ELSE (cfg.mhz * Mhz(pllsrc)) \div Mhz(div[1])

SrcMhz(s) == IF s = "pll" THEN PllMhz ELSE Mhz(s)

\* Rows <<highest frequency of the flash bus, wait states>>: the tables of
\* _uni_hal_flash_select_latency by voltage scale, and the limits of
\* _uni_hal_stm_rcc_flash_adjust.
H7Latency(scale) ==
    CASE scale = 0 -> << <<70, 0>>, <<140, 1>>, <<210, 2>>, <<225, 3>>, <<240, 4>> >>
      [] scale = 1 -> << <<70, 0>>, <<140, 1>>, <<210, 2>>, <<225, 3>> >>
      [] scale = 2 -> << <<55, 0>>, <<110, 1>>, <<165, 2>>, <<225, 3>> >>
      [] OTHER     -> << <<45, 0>>, <<90, 1>>, <<135, 2>>, <<180, 3>>, <<225, 4>> >>
L4Latency    == << <<16, 0>>, <<32, 1>>, <<48, 2>>, <<64, 3>>, <<80, 4>> >>
TableOf(scale) == IF chip = "h7" THEN H7Latency(scale) ELSE L4Latency

\* The driver reads what was asked for from the register, where VOS1 and VOS0
\* of the STM32H743 differ only by the over-drive bit, which it does not read.
VosIndex     == IF vos = 1 THEN 0 ELSE vos
LatencyTable == TableOf(VosIndex)

Rows(mhz) == {i \in DOMAIN LatencyTable : mhz <= LatencyTable[i][1]}

SelectLatency(mhz) == LatencyTable[Min(Rows(mhz))][2]

Running(s) == IF s = "pll" THEN pll[1] = "locked" ELSE s \in osc
AllOff == \A i \in Plls : pll[i] = "off"

\* The best source that came up, as both functions choose it.
BestSource == IF "hse" \in st_osc THEN "hse"
              ELSE IF "csi" \in st_osc THEN "csi"
              ELSE IF "hsi" \in st_osc THEN "hsi" ELSE "none"

Disabled(S) == [i \in Plls |-> IF i \in S /\ ~(i = 1 /\ sw = "pll")
                               THEN "off" ELSE pll[i]]

At(c, l)   == pc[c] = l /\ (c = "nmi" \/ pc["nmi"] = "idle")
Goto(c, l) == pc' = [pc EXCEPT ![c] = l]
CanTimeOutNever(c) == FALSE     \* mutant: waits for as long as it takes

\* Timeouts of the STM32L4 count SysTick interrupts, which an NMI keeps out.
CanTimeOut(c) == ~(c = "nmi" /\ chip = "l4")

-----------------------------------------------------------------------------
Init ==
    /\ \/ chip = "h7" /\ cfg \in H7Config /\ vos = 3 /\ lat = 7 /\ sw = "hsi"
       \/ chip = "l4" /\ cfg \in L4Config /\ vos = 1 /\ lat = 0 /\ sw = "msi"
    /\ level = vos
    /\ osc = {sw} /\ want = sw /\ css = FALSE /\ pllsrc = "none"
    /\ pll = [i \in Plls |-> "off"] /\ div = [i \in Plls |-> "none"]
    /\ ahb = 1
    /\ st_osc = {} /\ st_pll = {} /\ st_sys = FALSE /\ inited = FALSE
    /\ pc = [c \in Callers |-> "idle"]
    /\ loc = [c \in Callers |-> [src |-> "none", k |-> 1, ok |-> TRUE]]
    /\ calls = 0 /\ hse_enable \in BOOLEAN /\ hit = "no"

(* The application's uni_hal_pwr_init, before the clocks, and perhaps again: *)
(* supply, VOS1, over-drive (VOS0). A wait that times out ends it, with the  *)
(* register as it is by then; the regulator may follow later.                *)
PwrInit ==
    /\ chip = "h7" /\ calls = 0
    /\ \E reached \in {<<3, 3>>, <<1, 3>>, <<0, 1>>, <<0, 0>>} :
         /\ reached[1] <= vos /\ reached[2] <= level
         /\ vos' = reached[1] /\ level' = reached[2]
    /\ UNCHANGED <<hwVars, ahb, lat, statVars, ctlVars, fixVars, histVars>>

VoltageComes ==
    /\ level # vos /\ level' = vos
    /\ UNCHANGED <<hwVars, ahb, vos, lat, statVars, ctlVars, fixVars, histVars>>

FlashFirstNot == lat            \* mutant: the wait states come with the clock

\* _uni_hal_stm_rcc_flash: the wait states of 80 MHz
FlashFirst == 4

(* uni_hal_rcc_init up to the oscillators. The STM32H7 starts over only     *)
(* while it has not succeeded; the STM32L4 raises the wait states first.    *)

RccInit ==
    /\ pc["task"] = "idle" /\ pc["nmi"] = "idle" /\ calls < MaxInit
    /\ chip = "h7" => ~inited
    /\ lat' = IF chip = "l4" THEN FlashFirst ELSE lat
    /\ calls' = calls + 1
    /\ loc' = [loc EXCEPT !["task"].ok = TRUE]
    /\ Goto("task", "hse")
    /\ UNCHANGED <<hwVars, ahb, vos, level, statVars, fixVars, hse_enable, hit>>

(* _uni_hal_stm_rcc_hse: wait for the crystal, watch it once it runs. The   *)
(* STM32H7 switches it off first, which has no effect while the system      *)
(* clock depends on it, and again when it does not start. A PLL without its *)
(* source is no longer locked.                                              *)
NeedsHse == sw = "hse" \/ (sw = "pll" /\ pllsrc = "hse")
Unfed(alive) == [i \in Plls |-> IF pll[i] = "locked" /\ pllsrc = "hse" /\ ~alive
                                THEN "on" ELSE pll[i]]

HseOutcome(up) ==
    /\ st_osc' = IF up THEN st_osc \cup {"hse"} ELSE st_osc \ {"hse"}
    /\ css' = (css \/ (up /\ cfg.css))
    /\ Goto("task", "csi")
    /\ UNCHANGED <<pllsrc, div, sw, want, speedVars, st_pll, st_sys, inited, loc,
                   fixVars, histVars>>

HseH7 ==
    /\ At("task", "hse") /\ chip = "h7" /\ hse_enable
    /\ \E up \in (IF NeedsHse THEN {TRUE} ELSE BOOLEAN) :
         /\ osc' = IF up THEN osc \cup {"hse"} ELSE osc \ {"hse"}
         /\ pll' = Unfed(NeedsHse)
         /\ HseOutcome(up)

\* The STM32L4 leaves the crystal as it is.
HseL4 ==
    /\ At("task", "hse") /\ chip = "l4" /\ hse_enable
    /\ \E up \in (IF "hse" \in osc THEN {TRUE} ELSE BOOLEAN) :
         /\ osc' = IF up THEN osc \cup {"hse"} ELSE osc
         /\ pll' = pll
         /\ HseOutcome(up)

HseUnused ==
    /\ At("task", "hse") /\ ~hse_enable
    /\ Goto("task", "csi")
    /\ UNCHANGED <<hwVars, speedVars, statVars, loc, fixVars, histVars>>

(* _uni_hal_stm_rcc_csi and _uni_hal_stm_rcc_hsi: enable and wait.          *)
StartOsc(s, used, next) ==
    /\ At("task", s)
    /\ \/ /\ ~used
          /\ UNCHANGED <<osc, st_osc>>
       \/ /\ used
          /\ osc' = osc \cup {s} /\ st_osc' = st_osc \cup {s}
       \/ /\ used /\ s \notin osc
          /\ osc' = osc /\ st_osc' = st_osc \ {s}
    /\ Goto("task", next)
    /\ UNCHANGED <<css, pllsrc, pll, div, sw, want, speedVars, st_pll, st_sys,
                   inited, loc, fixVars, histVars>>
Csi == StartOsc("csi", cfg.csi, "hsi")
Hsi == StartOsc("hsi", TRUE, "pll")

-----------------------------------------------------------------------------
(* _uni_hal_stm_rcc_pll. First the source, kept in a local variable.        *)
AfterPll(c, ok) == IF c = "nmi" \/ chip = "l4" \/ ok THEN "sys" ELSE "end"

PllChoose(c) ==
    /\ At(c, "pll")
    /\ loc' = [loc EXCEPT ![c] = [src |-> BestSource, k |-> 1, ok |-> TRUE]]
    /\ Goto(c, IF BestSource = "none" THEN AfterPll(c, FALSE)
               ELSE IF chip = "h7" THEN "disable" ELSE "plls")
    /\ UNCHANGED <<hwVars, speedVars, statVars, fixVars, histVars>>

(* _uni_hal_stm_rcc_pll_reset: all off, wait until they are.                *)
PllDisable(c) ==
    /\ At(c, "disable")
    /\ pll' = Disabled(Plls)
    /\ Goto(c, "off")
    /\ UNCHANGED <<osc, css, pllsrc, div, sw, want, speedVars, statVars, loc,
                   fixVars, histVars>>

PllWaitOff(c) ==
    /\ At(c, "off")
    /\ Goto(c, IF AllOff THEN "source" ELSE AfterPll(c, FALSE))
    /\ UNCHANGED <<hwVars, speedVars, statVars, loc, fixVars, histVars>>

PllSource(c) ==
    /\ At(c, "source")
    /\ pllsrc' = IF AllOff THEN loc[c].src ELSE pllsrc
    /\ Goto(c, "plls")
    /\ UNCHANGED <<osc, css, pll, div, sw, want, speedVars, statVars, loc, fixVars,
                   histVars>>

(* One PLL of the STM32H7: left alone without outputs, refused when M       *)
(* cannot be scaled to the source, programmed and enabled otherwise.        *)
NextPll(c, ok) ==
    LET k == loc[c].k IN
    IF k + 1 \in Plls
    THEN Goto(c, "plls") /\ loc' = [loc EXCEPT ![c].k = k + 1, ![c].ok = ok]
    ELSE Goto(c, "pllend") /\ loc' = [loc EXCEPT ![c].ok = ok]

PllUsed(k) == k = 1 \/ k \in cfg.used
Scales(c) == loc[c].src = "hse" \/ loc[c].k \in cfg.scale

PllSkip(c) ==
    LET k == loc[c].k IN
    /\ At(c, "plls") /\ chip = "h7"
    /\ ~PllUsed(k) \/ ~Scales(c)
    /\ st_pll' = st_pll \ {k}
    /\ NextPll(c, loc[c].ok /\ ~PllUsed(k))
    /\ UNCHANGED <<hwVars, speedVars, st_osc, st_sys, inited, fixVars, histVars>>

MScaledOnce(c, m) == IF div[loc[c].k] = "none" THEN m ELSE div[loc[c].k]
                                \* mutant: M stays as first written

\* A PLL that is on keeps its dividers.
MScaled(c, m) == m

Program(c, m) ==
    LET k == loc[c].k IN
    IF pll[k] = "off"
    THEN pll' = [pll EXCEPT ![k] = "on"] /\ div' = [div EXCEPT ![k] = MScaled(c, m)]
    ELSE UNCHANGED <<pll, div>>

PllEnable(c) ==
    /\ At(c, "plls") /\ chip = "h7"
    /\ PllUsed(loc[c].k) /\ Scales(c)
    /\ Program(c, loc[c].src)
    /\ Goto(c, "lock")
    /\ UNCHANGED <<osc, css, pllsrc, sw, want, speedVars, statVars, loc, fixVars,
                   histVars>>

(* The PLL of the STM32L4: M is multiplied by HSI_VALUE / HSE_VALUE, and    *)
(* becomes 1 when _uni_hal_rcc_pll_get_m does not know the result.          *)
PllEnableL4(c) ==
    /\ At(c, "plls") /\ chip = "l4"
    /\ pllsrc' = IF pll[1] = "off" THEN loc[c].src ELSE pllsrc
    /\ Program(c, IF Scales(c) THEN loc[c].src ELSE "one")
    /\ Goto(c, "lock")
    /\ UNCHANGED <<osc, css, sw, want, speedVars, statVars, loc, fixVars, histVars>>

PllLocked(c) ==
    /\ At(c, "lock") /\ pll[loc[c].k] = "locked"
    /\ st_pll' = st_pll \cup {loc[c].k}
    /\ NextPll(c, loc[c].ok)
    /\ UNCHANGED <<hwVars, speedVars, st_osc, st_sys, inited, fixVars, histVars>>

PllTimeout(c) ==
    /\ At(c, "lock") /\ pll[loc[c].k] # "locked" /\ CanTimeOut(c)
    /\ st_pll' = st_pll \ {loc[c].k}
    /\ NextPll(c, FALSE)
    /\ UNCHANGED <<hwVars, speedVars, st_osc, st_sys, inited, fixVars, histVars>>

(* The STM32H7 switches all of them off when one failed.                    *)
PllEnd(c) ==
    /\ At(c, "pllend")
    /\ IF chip = "h7" /\ ~loc[c].ok
       THEN pll' = Disabled(Plls) /\ st_pll' = {}
       ELSE UNCHANGED <<pll, st_pll>>
    /\ Goto(c, AfterPll(c, loc[c].ok))
    /\ loc' = [loc EXCEPT ![c].ok = TRUE]
    /\ UNCHANGED <<osc, css, pllsrc, div, sw, want, speedVars, st_osc, st_sys,
                   inited, fixVars, histVars>>

-----------------------------------------------------------------------------
(* _uni_hal_stm_rcc_sysclk: the target, from the status.                    *)
SysFails(c) == Goto(c, "end") /\ loc' = [loc EXCEPT ![c].ok = FALSE]

SysChoose(c) ==
    LET best == IF 1 \in st_pll THEN "pll" ELSE BestSource
        s == IF best = "none" /\ chip = "l4" THEN "msi" ELSE best IN
    /\ At(c, "sys")
    /\ IF s = "none" THEN SysFails(c) /\ UNCHANGED st_sys
       ELSE IF s = "pll" /\ cfg.mhz = 0 THEN SysFails(c) /\ st_sys' = FALSE
       ELSE /\ Goto(c, IF chip = "h7" THEN "latency" ELSE "switch")
            /\ loc' = [loc EXCEPT ![c].src = s]
            /\ UNCHANGED st_sys
    /\ UNCHANGED <<hwVars, speedVars, st_osc, st_pll, inited, fixVars, histVars>>

(* uni_hal_flash_configure_latency_auto for the frequency to come.          *)
SysLatency(c) ==
    LET axi == SrcMhz(loc[c].src) \div 2 IN
    /\ At(c, "latency")
    /\ IF Rows(axi) = {}
       THEN SysFails(c) /\ st_sys' = FALSE /\ UNCHANGED lat
       ELSE Goto(c, "switch") /\ lat' = SelectLatency(axi) /\ UNCHANGED <<loc, st_sys>>
    /\ UNCHANGED <<hwVars, ahb, vos, level, st_osc, st_pll, inited, fixVars, histVars>>

(* The switch: the STM32H7 sets its prescalers before it, the STM32L4       *)
(* after it, to the 1 they have had since the reset.                        *)
SwitchTo(c) == want' = loc[c].src /\ Goto(c, "wait")

SysSwitch(c) ==
    /\ At(c, "switch") /\ chip = "h7"
    /\ ahb' = 2
    /\ SwitchTo(c)
    /\ UNCHANGED <<osc, css, pllsrc, pll, div, sw, vos, level, lat, statVars, loc,
                   fixVars, histVars>>

SysSwitchL4(c) ==
    /\ At(c, "switch") /\ chip = "l4"
    /\ SwitchTo(c)
    /\ UNCHANGED <<osc, css, pllsrc, pll, div, sw, speedVars, statVars, loc, fixVars,
                   histVars>>

SysSwitched(c) ==
    /\ At(c, "wait") /\ sw = loc[c].src
    /\ st_sys' = TRUE
    /\ Goto(c, IF chip = "h7" THEN "end" ELSE "adjust")
    /\ UNCHANGED <<hwVars, speedVars, st_osc, st_pll, inited, loc, fixVars, histVars>>

SysTimeout(c) ==
    /\ At(c, "wait") /\ sw # loc[c].src /\ CanTimeOut(c)
    /\ st_sys' = FALSE
    /\ SysFails(c)
    /\ UNCHANGED <<hwVars, speedVars, st_osc, st_pll, inited, fixVars, histVars>>

(* _uni_hal_stm_rcc_flash_adjust, with the clock the chip now runs from.    *)
SysAdjust(c) ==
    /\ At(c, "adjust")
    /\ lat' = IF Rows(SrcMhz(sw)) = {} THEN 4 ELSE SelectLatency(SrcMhz(sw))
    /\ Goto(c, "end")
    /\ UNCHANGED <<hwVars, ahb, vos, level, statVars, loc, fixVars, histVars>>

(* The end of uni_hal_rcc_init, and of the NMI handler.                     *)
End(c) ==
    /\ At(c, "end")
    /\ inited' = IF c = "nmi" THEN inited
                 ELSE chip = "l4" \/ (loc[c].ok /\ st_sys)
    /\ Goto(c, "idle")
    /\ UNCHANGED <<hwVars, speedVars, st_osc, st_pll, st_sys, loc, fixVars, histVars>>

-----------------------------------------------------------------------------
(* The crystal stops. The hardware saves the system clock and raises the    *)
(* NMI, whose handler marks what is gone and starts over.                   *)
Fallback == IF chip = "h7" THEN "hsi" ELSE "msi"

HseFailure ==
    /\ css /\ "hse" \in osc /\ pc["nmi"] = "idle"
    /\ osc' = (osc \ {"hse"}) \cup (IF NeedsHse THEN {Fallback} ELSE {})
    /\ sw' = IF NeedsHse THEN Fallback ELSE sw
    /\ want' = IF NeedsHse THEN Fallback ELSE want
    /\ pll' = IF NeedsHse /\ sw = "pll" THEN [Unfed(FALSE) EXCEPT ![1] = "off"]
              ELSE Unfed(FALSE)
    /\ css' = FALSE
    /\ hse_enable' = FALSE
    /\ st_osc' = st_osc \ {"hse"} /\ st_pll' = {} /\ st_sys' = FALSE
    /\ hit' = IF pc["task"] = "idle" /\ sw = "pll" /\ pllsrc = "hse"
              THEN "system" ELSE "other"
    /\ Goto("nmi", "pll")
    /\ UNCHANGED <<pllsrc, div, speedVars, inited, loc, fixVars, calls>>

NmiL4 == chip = "l4" /\ HseFailure
NmiH7 == chip = "h7" /\ HseFailure

(* A PLL with a source locks; the multiplexer switches when the clock that  *)
(* was asked for runs.                                                      *)
Lock(i) ==
    /\ pll[i] = "on" /\ pllsrc \in osc
    /\ pll' = [pll EXCEPT ![i] = "locked"]
    /\ UNCHANGED <<osc, css, pllsrc, div, sw, want, speedVars, statVars, ctlVars,
                   fixVars, histVars>>

SystemSwitches ==
    /\ sw # want /\ Running(want)
    /\ sw' = want
    /\ UNCHANGED <<osc, css, pllsrc, pll, div, want, speedVars, statVars, ctlVars,
                   fixVars, histVars>>

-----------------------------------------------------------------------------
PllStep(c) ==
    \/ PllChoose(c) \/ PllDisable(c) \/ PllWaitOff(c) \/ PllSource(c)
    \/ PllSkip(c) \/ PllEnable(c) \/ PllEnableL4(c)
    \/ PllLocked(c) \/ PllTimeout(c) \/ PllEnd(c)

SysStep(c) ==
    \/ SysChoose(c) \/ SysLatency(c) \/ SysSwitch(c) \/ SysSwitchL4(c) \/ SysSwitched(c)
    \/ SysTimeout(c) \/ SysAdjust(c)

CodeStep ==
    \/ HseH7 \/ HseL4 \/ HseUnused \/ Csi \/ Hsi
    \/ \E c \in Callers : PllStep(c) \/ SysStep(c) \/ End(c)

Hardware == SystemSwitches \/ \E i \in Plls : Lock(i)

Next == PwrInit \/ VoltageComes \/ RccInit \/ CodeStep \/ NmiH7 \/ NmiL4 \/ Hardware

Spec == Init /\ [][Next]_vars

FairSpec == Spec /\ WF_vars(CodeStep) /\ WF_vars(Hardware)

-----------------------------------------------------------------------------
TypeOK ==
    /\ chip \in {"h7", "l4"} /\ cfg \in Config
    /\ osc \subseteq Src /\ css \in BOOLEAN /\ pllsrc \in Src
    /\ pll \in [Plls -> {"off", "on", "locked"}]
    /\ div \in [Plls -> Src \cup {"one"}]
    /\ sw \in Src /\ want \in Src /\ ahb \in {1, 2}
    /\ vos \in 0..3 /\ level \in 0..3 /\ lat \in 0..7
    /\ st_osc \subseteq Src /\ st_pll \subseteq Plls /\ st_sys \in BOOLEAN
    /\ inited \in BOOLEAN /\ hse_enable \in BOOLEAN /\ calls \in 0..MaxInit
    /\ loc \in [Callers -> [src : Src, k : Plls, ok : BOOLEAN]]
    /\ hit \in {"no", "system", "other"}

\* The flash has the wait states of the table, at the voltage there is.
Covered == \E i \in DOMAIN TableOf(level) :
               SrcMhz(sw) \div ahb <= TableOf(level)[i][1] /\ TableOf(level)[i][2] <= lat

\* The configuration can be reproduced from an internal oscillator too.
Portable == Plls \subseteq cfg.scale

\* The regulator has reached the scale the driver reads, or VOS1 for a PLL1
\* that does not need VOS0.
VoltageTrue == level = VosIndex \/ (vos <= 1 /\ level = 1 /\ cfg.mhz <= 450)

\* The wait states of a slow PLL1 at VOS3 are set, and HSI is still undivided.
SetEarly == pc["task"] = "switch" /\ ahb = 1 /\ vos = 3 /\ cfg.mhz <= 90

(* Whatever frequency PLL1 has, whatever order oscillators and PLLs come    *)
(* in, and whatever fails, the flash has the wait states the present clock  *)
(* needs at the present voltage, in the calls and between them. It does not *)
(* hold when the crystal fails within a call, or while PLL1 is not the      *)
(* system clock, at a voltage that does not come, and in one step to a slow *)
(* PLL1: see README.md.                                                     *)
FlashCovers ==
    (/\ hit # "other"
     /\ chip = "l4" => Portable
     /\ chip = "h7" => VoltageTrue /\ ~SetEarly) => Covered

(* The flash of the STM32H7 has the wait states its table recommends while  *)
(* uni_hal_rcc_init changes the clock, at a voltage that has come and with  *)
(* a crystal that does not fail. The wait states of a slow PLL1 come before *)
(* the prescaler that makes HSI as slow.                                    *)
FlashTableKept == chip = "h7" /\ hit = "no" /\ level = vos => Covered

(* What the status reports is so: once initialised, a PLL that is reported  *)
(* runs, from the source it was programmed for, and the system clock is the *)
(* best one reported; also after the crystal failed under a system that has *)
(* been initialised by its first call.                                      *)
Settled == \A c \in Callers : pc[c] = "idle"
StatusTrue ==
    (/\ Settled /\ inited /\ sw = want
     /\ hit = "no" \/ (hit = "system" /\ calls = 1)
     /\ chip = "l4" => Portable) =>
        /\ \A i \in st_pll : pll[i] = "locked" /\ div[i] = pllsrc
        /\ st_sys => sw = IF 1 \in st_pll THEN "pll"
                          ELSE IF BestSource = "none" THEN "msi" ELSE BestSource

(* A call of uni_hal_rcc_init returns, whatever starts and whatever fails,  *)
(* unless the NMI of the STM32L4 waits for a PLL whose crystal is gone.     *)
NmiStuck == chip = "l4" /\ pc["nmi"] = "lock" /\ pllsrc \notin osc
InitReturns == pc["task"] # "idle" ~> (pc["task"] = "idle" \/ NmiStuck)
=============================================================================
