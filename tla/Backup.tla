-------------------------------- MODULE Backup --------------------------------
(***************************************************************************)
(* The backup domain, which outlives a reset: the clock selection of the   *)
(* RTC, its calendar and the backup registers. One task works with the RTC *)
(* driver while another one calls the RCC and power drivers, which open    *)
(* and close the access to the domain for each of their own writes.        *)
(***************************************************************************)
EXTENDS Integers

CONSTANTS
    Contexts,       \* [chip, source, change, lse_enable, lse_backup_reset] of a board
    MaxBoots,       \* bound: resets
    MaxDomainCalls  \* bound: calls between two resets

ASSUME BackupAssumption == MaxBoots \in Nat /\ MaxDomainCalls \in Nat

VARIABLES
    board,          \* its configuration
    access,         \* DBP: the domain can be written
    bdrst,          \* the domain is held in reset
    domain,         \* what it keeps: LSE on, RTC clock selected and enabled,
                    \* prescalers, INITS, calendar, a backup register
    init_mode,      \* INIT and INITF: "run", "asked" for, or in "init" mode
    crystal, lsi,   \* LSE is able to start in this run; LSI is on
    rtc,            \* uni_hal_rtc_context_t
    rtc_step, bdcr, \* the RTC driver's call, and what it has saved
    job,            \* what the call writes in the initialisation mode, or "none"
    other, found_access,    \* the other call, and the access it has found
    stored,         \* history: value of the register the application relies on
    wiped,          \* history: domain reset by another call since uni_hal_rtc_init began
    half_set,       \* history: a call that sets the calendar got half way
    disturbed,      \* history: another call came between the steps of a job
    boots, domain_calls

domainVars == <<board, access, bdrst, domain, init_mode, crystal, lsi, rtc, rtc_step,
                bdcr, job, other, found_access, stored, wiped, half_set, disturbed,
                boots, domain_calls>>
histories == <<stored, wiped, half_set, disturbed>>
boardVars == <<board, crystal, lsi, boots>>

ResetDomain == [lse |-> FALSE, sel |-> "none", rtcen |-> FALSE, prescaler |-> "lse",
                inits |-> FALSE, calendar |-> "reset", register |-> 0]

Writable == access /\ ~bdrst
OscRuns(source) == (source = "lse" /\ domain.lse /\ crystal) \/ (source = "lsi" /\ lsi)
Counting == domain.rtcen /\ OscRuns(domain.sel)
Selecting(d, source) == IF d.sel = "none" THEN [d EXCEPT !.sel = source] ELSE d

-----------------------------------------------------------------------------
(* uni_hal_rcc_init starts LSE; a board may ask for one reset of the domain *)
(* if it does not start. The STM32L4 starts LSI too, the STM32H7 only if    *)
(* LSE has not started.                                                     *)
BootDomain(works) ==
    LET enabled == board.lse_enable
        again == enabled /\ (bdrst \/ ~works) /\ board.lse_backup_reset
        d == IF again THEN ResetDomain ELSE domain
    IN  /\ domain' = IF enabled /\ (again \/ ~bdrst) THEN [d EXCEPT !.lse = TRUE] ELSE d
        /\ bdrst' = (bdrst /\ ~again)
        /\ lsi' = (board.chip = "l4" \/ ~(enabled /\ ~bdrst' /\ works))
        /\ stored' = IF again THEN 0 ELSE stored
        /\ disturbed' = (disturbed /\ ~again)
        /\ crystal' = works

\* A system reset, at any time, and the initialisation of the clocks after it.
Boot ==
    /\ boots < MaxBoots /\ boots' = boots + 1
    /\ \E works \in BOOLEAN : BootDomain(works)
    /\ access' = FALSE
    /\ rtc' = [inited |-> FALSE, valid |-> FALSE] /\ rtc_step' = "idle" /\ bdcr' = FALSE
    /\ job' = "none" /\ init_mode' = "run"
    /\ other' = "idle" /\ found_access' = FALSE
    /\ wiped' = FALSE /\ half_set' = (half_set \/ domain.calendar = "half")
    /\ domain_calls' = 0
    /\ UNCHANGED board

BackupInit ==
    /\ board \in Contexts
    /\ access = FALSE /\ bdrst = FALSE /\ domain = ResetDomain
    /\ crystal = FALSE /\ lsi = FALSE
    /\ rtc = [inited |-> FALSE, valid |-> FALSE] /\ rtc_step = "off" /\ bdcr = FALSE
    /\ job = "none" /\ init_mode = "run"
    /\ other = "off" /\ found_access = FALSE
    /\ stored = 0 /\ wiped = FALSE /\ half_set = FALSE /\ disturbed = FALSE
    /\ boots = 0 /\ domain_calls = 0

-----------------------------------------------------------------------------
(* uni_hal_rtc_init.                                                        *)
RtcAt(step, next) ==
    /\ rtc_step = step /\ rtc_step' = next
    /\ UNCHANGED <<boardVars, other, found_access>>

RtcCall(next) ==
    /\ domain_calls < MaxDomainCalls /\ domain_calls' = domain_calls + 1
    /\ RtcAt("idle", next)

DiffersUnready ==           \* mutant: to a source that is not running
    domain.sel # "none" /\ domain.sel # board.source

ClockSourceDiffers ==
    domain.sel # "none" /\ domain.sel # board.source /\ OscRuns(board.source)

RtcInitCall ==
    /\ RtcCall(IF board.change /\ ClockSourceDiffers THEN "force" ELSE "select")
    /\ access' = TRUE /\ wiped' = FALSE
    /\ UNCHANGED <<bdrst, domain, init_mode, rtc, bdcr, job, stored, half_set, disturbed>>

\* The reset is accepted by the context; what it loses is not relied on further.
LossAccepted ==
    board.change /\ domain.sel \notin {"none", board.source} /\ OscRuns(board.source)

RtcForce ==
    /\ RtcAt("force", "release")
    /\ bdcr' = domain.lse
    /\ IF access
       THEN bdrst' = TRUE /\ domain' = ResetDomain /\ init_mode' = "run" /\ disturbed' = FALSE
       ELSE UNCHANGED <<bdrst, domain, init_mode, disturbed>>
    /\ stored' = IF access /\ LossAccepted THEN 0 ELSE stored
    /\ UNCHANGED <<access, rtc, job, wiped, half_set, domain_calls>>

RtcRelease ==
    /\ RtcAt("release", "restore")
    /\ bdrst' = (bdrst /\ ~access)
    /\ UNCHANGED <<access, domain, init_mode, rtc, bdcr, job, histories, domain_calls>>

RtcRestore ==
    /\ RtcAt("restore", "select")
    /\ domain' = IF access THEN [domain EXCEPT !.lse = bdcr] ELSE domain
    /\ bdrst' = (bdrst /\ ~access)
    /\ UNCHANGED <<access, init_mode, rtc, bdcr, job, histories, domain_calls>>

RtcSelect ==
    /\ \/ /\ domain.sel # "none" \/ OscRuns(board.source)
          /\ RtcAt("select", "enable") /\ UNCHANGED rtc
       \/ /\ domain.sel = "none"    \* not ready, or not in time
          /\ RtcAt("select", "idle") /\ rtc' = [rtc EXCEPT !.inited = FALSE]
    /\ domain' = IF rtc_step' = "enable" /\ Writable THEN Selecting(domain, board.source)
                 ELSE domain
    /\ UNCHANGED <<access, bdrst, init_mode, bdcr, job, histories, domain_calls>>

RtcEnable ==
    /\ RtcAt("enable", "prescale")
    /\ domain' = [domain EXCEPT !.rtcen = @ \/ Writable]
    /\ UNCHANGED <<access, bdrst, init_mode, rtc, bdcr, job, histories, domain_calls>>

Prescaler == IF domain.sel = "lsi" THEN "lsi" ELSE "lse"

\* The prescalers are set when the calendar is not.
RtcPrescale ==
    /\ RtcAt("prescale", IF domain.inits THEN "idle" ELSE "enter")
    /\ rtc' = [valid |-> domain.inits, inited |-> domain.inits \/ rtc.inited]
    /\ job' = IF domain.inits THEN "none" ELSE Prescaler
    /\ disturbed' = (disturbed /\ (domain.inits \/ init_mode # "run"))
    /\ UNCHANGED <<access, bdrst, domain, init_mode, bdcr, stored, wiped, half_set, domain_calls>>

(* uni_hal_rtc_set: the date, then the time. The domain is not set up by    *)
(* hand between a reset of it and the next uni_hal_rtc_init.                *)
RtcSetDate ==
    /\ rtc.inited /\ ~wiped
    /\ RtcCall("enter") /\ job' = "date"
    /\ UNCHANGED <<access, bdrst, domain, init_mode, rtc, bdcr, histories>>

-----------------------------------------------------------------------------
(* LL_RTC_Init, LL_RTC_DATE_Init and LL_RTC_TIME_Init: each of them asks    *)
(* for the initialisation mode (the keys of the write protection are part   *)
(* of that step), waits for it, writes, leaves it, and for the date and the *)
(* time waits for the calendar again. Each write is lost without access.    *)
Job(step, next) ==
    /\ RtcAt(step, next)
    /\ UNCHANGED <<access, bdrst, bdcr, stored, wiped, disturbed, domain_calls>>

RtcFails(step) ==
    /\ Job(step, "idle") /\ job' = "none"
    /\ IF job \in {"date", "time"}
       THEN half_set' = (half_set \/ domain.calendar = "half") /\ UNCHANGED rtc
       ELSE rtc' = [rtc EXCEPT !.inited = FALSE] /\ UNCHANGED half_set
    /\ UNCHANGED <<domain, init_mode>>

RtcEnterInit ==
    /\ Job("enter", "wait")
    /\ init_mode' = IF Writable /\ init_mode = "run" THEN "asked" ELSE init_mode
    /\ UNCHANGED <<domain, rtc, job, half_set>>

InitModeEntered ==
    /\ init_mode = "asked" /\ Counting /\ init_mode' = "init"
    /\ UNCHANGED <<boardVars, access, bdrst, domain, rtc, rtc_step, bdcr, job, other,
                   found_access, histories, domain_calls>>

RtcWait ==
    \/ /\ init_mode = "init" /\ Job("wait", "write")
       /\ UNCHANGED <<domain, init_mode, rtc, job, half_set>>
    \/ /\ init_mode = "run" \/ (init_mode = "asked" /\ ~Counting)
       /\ RtcFails("wait")

\* INITS says whether the year is another one than 2000.
Written(what) ==
    CASE what = "date" -> {[domain EXCEPT !.inits = set, !.calendar = "half"] : set \in BOOLEAN}
      [] what = "time" -> {[domain EXCEPT !.calendar = IF @ = "reset" THEN "half" ELSE "set"]}
      [] OTHER -> {[domain EXCEPT !.prescaler = what]}

RtcWrite ==
    /\ Job("write", "leave")
    /\ IF Writable /\ init_mode = "init" THEN domain' \in Written(job) ELSE UNCHANGED domain
    /\ UNCHANGED <<init_mode, rtc, job, half_set>>

RtcLeaveInit ==
    /\ init_mode' = IF Writable THEN "run" ELSE init_mode
    /\ IF job \in {"date", "time"} THEN Job("leave", "sync") /\ UNCHANGED <<rtc, job>>
       ELSE Job("leave", "idle") /\ rtc' = [rtc EXCEPT !.inited = TRUE] /\ job' = "none"
    /\ UNCHANGED <<domain, half_set>>

RtcSync ==
    \/ /\ init_mode = "run" /\ Counting
       /\ IF job = "date" THEN Job("sync", "enter") /\ job' = "time" /\ UNCHANGED <<rtc, half_set>>
          ELSE /\ Job("sync", "idle") /\ job' = "none"
               /\ rtc' = [rtc EXCEPT !.valid = TRUE] /\ half_set' = FALSE
       /\ UNCHANGED <<domain, init_mode>>
    \/ ~(init_mode = "run" /\ Counting /\ Writable) /\ RtcFails("sync")

-----------------------------------------------------------------------------
(* uni_hal_rtc_backup_write; its answer is what it reads back.              *)
BackupWrite ==
    /\ RtcCall("register")
    /\ access' = TRUE
    /\ UNCHANGED <<bdrst, domain, init_mode, rtc, bdcr, job, histories>>

BackupWritten ==
    /\ RtcAt("register", "idle")
    /\ domain' = IF Writable THEN [domain EXCEPT !.register = 1] ELSE domain
    /\ stored' = IF domain'.register = 1 THEN 1 ELSE stored
    /\ UNCHANGED <<access, bdrst, init_mode, rtc, bdcr, job, wiped, half_set, disturbed,
                   domain_calls>>

-----------------------------------------------------------------------------
(* The other calls: uni_hal_rcc_clksrc_get, clksrc_set and clk_set for the  *)
(* RTC (which returns early if there is nothing to do), uni_hal_rcc_reset,  *)
(* uni_hal_pwr_set_battery_charging.                                        *)
OtherCall(call) ==
    /\ other = "idle" /\ domain_calls < MaxDomainCalls
    /\ call = "rtc on" => ~domain.rtcen
    /\ call = "rtc off" => domain.rtcen
    /\ domain_calls' = domain_calls + 1
    /\ other' = call /\ found_access' = access /\ access' = TRUE
    /\ UNCHANGED <<boardVars, bdrst, domain, init_mode, rtc, rtc_step, bdcr, job, histories>>

Effect(call, d) ==
    CASE call \in {"lse", "lsi", "hse"} -> Selecting(d, call)
      [] call = "rtc on" -> [d EXCEPT !.rtcen = TRUE]
      [] call = "rtc off" -> [d EXCEPT !.rtcen = FALSE]
      [] OTHER -> d

\* The job loses a write, or works on another clock than it was made for.
Disturbs ==
    \/ init_mode # "run" /\ access /\ ~access'
    \/ job # "none" /\ domain'.sel # domain.sel

OtherReturn ==
    /\ other \notin {"idle", "off"}
    /\ access' = (other = "battery" /\ found_access)
    /\ IF other = "reset" /\ access
       THEN /\ domain' = ResetDomain /\ bdrst' = FALSE /\ init_mode' = "run"
            /\ stored' = 0 /\ wiped' = TRUE /\ disturbed' = (job # "none")
       ELSE /\ domain' = IF Writable THEN Effect(other, domain) ELSE domain
            /\ disturbed' = (disturbed \/ Disturbs)
            /\ UNCHANGED <<bdrst, init_mode, stored, wiped>>
    /\ other' = "idle" /\ found_access' = FALSE
    /\ UNCHANGED <<boardVars, rtc, rtc_step, bdcr, job, half_set, domain_calls>>

BackupNext ==
    \/ Boot
    \/ RtcInitCall \/ RtcForce \/ RtcRelease \/ RtcRestore \/ RtcSelect \/ RtcEnable
    \/ RtcPrescale \/ RtcSetDate
    \/ RtcEnterInit \/ InitModeEntered \/ RtcWait \/ RtcWrite \/ RtcLeaveInit \/ RtcSync
    \/ BackupWrite \/ BackupWritten
    \/ \E call \in {"get", "lse", "lsi", "hse", "rtc on", "rtc off", "reset", "battery"} :
           OtherCall(call)
    \/ OtherReturn

BackupSpec == BackupInit /\ [][BackupNext]_domainVars

-----------------------------------------------------------------------------
(* Whenever a reset or another driver's call comes in between: a value that *)
(* uni_hal_rtc_backup_write has reported as written stays until the domain  *)
(* is reset on request, or for a change of the clock source that the        *)
(* context accepts and whose oscillator runs; and an RTC that reports to be *)
(* initialised has a clock selected, prescalers that belong to it, and a    *)
(* calendar that was set if it says so. Left out are a source only the RCC  *)
(* driver selects, a calendar of which the date was set but not the time,   *)
(* and a domain in which another call has disturbed the initialisation mode *)
(* (what that loses is RtcInitTold).                                        *)
BackupKept ==
    /\ domain.register = stored
    /\ rtc.inited /\ rtc_step = "idle" /\ ~wiped /\ ~disturbed =>
           /\ domain.sel # "none"
           /\ domain.sel = "hse" \/ domain.prescaler = domain.sel
           /\ rtc.valid => domain.calendar = "set" \/ half_set

(* uni_hal_rtc_init reports success only with the prescalers of its clock,  *)
(* whatever other calls come in between ("@return true on success"). A call *)
(* that closes the access while it waits for the initialisation mode loses  *)
(* the write of the prescalers, which nothing checks.                       *)
RtcInitTold ==
    rtc.inited /\ rtc_step = "idle" /\ ~wiped =>
        domain.sel = "hse" \/ domain.prescaler = domain.sel
=============================================================================
