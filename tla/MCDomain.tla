------------------------------ MODULE MCDomain ------------------------------
(* Converters, the backup domain and the pins, which share no state, in one *)
(* instance for TLC: a behaviour is one of the part it starts with.         *)
EXTENDS MCAdc, MCBackup, MCGpio

VARIABLE part

domainAll == <<part, adcVars, domainVars, gpioVars>>

DomainInit ==
    /\ part \in {"adc", "backup", "gpio"}
    /\ AdcInit /\ BackupInit /\ GpioInit
    /\ part # "adc" => chip = "h7" /\ config = CHOOSE c \in AdcConfigs : TRUE
    /\ part # "backup" => board = CHOOSE c \in Contexts : TRUE
    /\ part # "gpio" => syscfg

DomainNext ==
    /\ UNCHANGED part
    /\ \/ part = "adc" /\ AdcNext /\ UNCHANGED <<domainVars, gpioVars>>
       \/ part = "backup" /\ BackupNext /\ UNCHANGED <<adcVars, gpioVars>>
       \/ part = "gpio" /\ GpioNext /\ UNCHANGED <<adcVars, domainVars>>

DomainSpec == DomainInit /\ [][DomainNext]_domainAll

=============================================================================
