-------------------------------- MODULE Sleep --------------------------------
(***************************************************************************)
(* The sleep of the main core (platform/hal/hal_sleep.c) and the idle      *)
(* thread that enters it (rtos/rtx5/rtx_config/RTX_Config.c), composed     *)
(* with the frequency manager.                                             *)
(*                                                                         *)
(* The idle thread first asks whether a deep sleep is possible             *)
(* (hal_sleep_light_sleep), stops the kernel tick with the interrupts      *)
(* open, and then enters (hal_sleep_enter_sleep), which must decide again. *)
(* A deep sleep stops a list of units one by one and wakes them one by     *)
(* one, with the interrupts locked; an interrupt can become pending at any *)
(* step.                                                                   *)
(***************************************************************************)
EXTENDS SysFreq, SequencesExt

CONSTANTS
    SLEEP_SYS_FREQ_52M, \* build option: raise the floor around a deep sleep
    IDLE_SYS_FREQ_52M,  \* build option: raise the floor for good at boot
    Lockers,            \* users of each kind of wake lock
    Handlers,           \* power management handlers that can be registered
    PmUser,             \* the level (HAL_PM_USER_TYPE_T) a handler is of
    PM_NOTIF_HDLR_CNT

ASSUME OptionAssumption == {SLEEP_SYS_FREQ_52M, IDLE_SYS_FREQ_52M} \subseteq BOOLEAN
ASSUME PmAssumption == PmUser \in [Handlers -> Nat] /\ PM_NOTIF_HDLR_CNT \in Nat

AnalogUnits == {"analog", "gpadc", "pmu"}

(* A handler is a driver's, none of the units that the sleep itself stops. *)
ASSUME HandlerAssumption == Handlers \cap AnalogUnits = {}

VARIABLES
    cpu_wake_lock_map, sys_wake_lock_map, chip_wake_lock_map,
    pm_notif,       \* the registered handlers, in the order of the table
    power_down_en,
    pc,             \* where the idle thread is
    mode,           \* the deep sleep that was chosen, a local of the sleep
    down,           \* the units that are stopped, the last one stopped last
    woken,          \* how many units of the wake-up list were restored
    old_min_freq,   \* the floor that a deep sleep puts back
    irq,            \* hal_sleep_irq_pending
    dma             \* hal_dma_busy

lockVars == <<cpu_wake_lock_map, sys_wake_lock_map, chip_wake_lock_map>>
sleepVars == <<pc, mode, down, woken, old_min_freq>>
hwVars == <<irq, dma>>
allVars == <<vars, lockVars, pm_notif, power_down_en, sleepVars, hwVars>>

(* The core runs; and the interrupts are open, no request being under way. *)
Awake == pc \in {"run", "suspended"}
Open == Awake /\ phase = "none"

-----------------------------------------------------------------------------
(* What threads and interrupt handlers do while the core runs.             *)

AwakeFrame == UNCHANGED <<sleepVars, irq>>

(* Each of the three pairs sets or clears one bit, interrupts locked.      *)
WakeLock(u) ==
    /\ Open
    /\ \/ /\ \/ cpu_wake_lock_map' = cpu_wake_lock_map \cup {u}
             \/ cpu_wake_lock_map' = cpu_wake_lock_map \ {u}
          /\ UNCHANGED <<sys_wake_lock_map, chip_wake_lock_map>>
       \/ /\ \/ sys_wake_lock_map' = sys_wake_lock_map \cup {u}
             \/ sys_wake_lock_map' = sys_wake_lock_map \ {u}
          /\ UNCHANGED <<cpu_wake_lock_map, chip_wake_lock_map>>
       \/ /\ \/ chip_wake_lock_map' = chip_wake_lock_map \cup {u}
             \/ chip_wake_lock_map' = chip_wake_lock_map \ {u}
          /\ UNCHANGED <<cpu_wake_lock_map, sys_wake_lock_map>>
    /\ UNCHANGED <<vars, pm_notif, power_down_en, dma>> /\ AwakeFrame

(* Handlers of a higher level come first in the table; the walk from its   *)
(* end stops below the first handler of a higher level, so that a new one  *)
(* goes before those of its own level.  A full table or a second           *)
(* registration is an assertion failure in the code.                       *)
hal_pm_notif_register(h) ==
    /\ Open
    /\ Len(pm_notif) < PM_NOTIF_HDLR_CNT
    /\ h \notin Range(pm_notif)
    /\ \E k \in 1 .. Len(pm_notif) + 1 :
          /\ k > 1 => PmUser[pm_notif[k - 1]] > PmUser[h]
          /\ \A i \in k .. Len(pm_notif) : PmUser[pm_notif[i]] <= PmUser[h]
          /\ pm_notif' = [i \in 1 .. Len(pm_notif) + 1 |->
                             IF i < k THEN pm_notif[i] ELSE IF i = k THEN h ELSE pm_notif[i - 1]]
    /\ UNCHANGED <<vars, lockVars, power_down_en, dma>> /\ AwakeFrame

(* The handlers behind the one that goes move up by one.                   *)
hal_pm_notif_deregister(h) ==
    /\ Open
    /\ \E k \in 1 .. Len(pm_notif) :
          /\ pm_notif[k] = h
          /\ pm_notif' = [i \in 1 .. Len(pm_notif) - 1 |->
                             IF i < k THEN pm_notif[i] ELSE pm_notif[i + 1]]
    /\ UNCHANGED <<vars, lockVars, power_down_en, dma>> /\ AwakeFrame

hal_sleep_power_down_enable ==
    /\ Open
    /\ power_down_en' = ~power_down_en
    /\ UNCHANGED <<vars, lockVars, pm_notif, dma>> /\ AwakeFrame

(* The main core asks for nothing, 32K, or for 26M and more; the other     *)
(* frequencies belong to the sensor core, whose build has no power unit.   *)
Request ==
    /\ Awake
    /\ \/ \E user \in Users, freq \in {FREQ_32K} \cup (FREQ_26M .. FREQ_QTY - 1) :
             hal_sysfreq_req(user, freq)
       \/ ClockWrite
    /\ UNCHANGED <<lockVars, pm_notif, power_down_en, dma>> /\ AwakeFrame

(* A driver starts a transfer while awake; hardware ends it at any time.   *)
DmaStart ==
    /\ Open
    /\ dma' = TRUE
    /\ UNCHANGED <<vars, lockVars, pm_notif, power_down_en>> /\ AwakeFrame

DmaEnd ==
    /\ dma
    /\ dma' = FALSE
    /\ irq' = TRUE
    /\ UNCHANGED <<vars, lockVars, pm_notif, power_down_en, sleepVars>>

IrqArrives ==
    /\ ~irq
    /\ irq' = TRUE
    /\ UNCHANGED <<vars, lockVars, pm_notif, power_down_en, sleepVars, dma>>

(* With the interrupts open the handler runs.                              *)
IrqServe ==
    /\ Open /\ irq
    /\ irq' = FALSE
    /\ UNCHANGED <<vars, lockVars, pm_notif, power_down_en, sleepVars, dma>>

-----------------------------------------------------------------------------
(* The idle thread.                                                        *)

SleepFrame == UNCHANGED <<lockVars, pm_notif, power_down_en, hwVars>>

(* The decision of hal_sleep_proc, made by both entries.                   *)
LightOnly == sys_wake_lock_map # {} \/ hal_sysfreq_busy \/ dma
MayLight == cpu_wake_lock_map = {} /\ LightOnly
MayDeep == cpu_wake_lock_map = {} /\ ~LightOnly

(* "No deep sleep" keeps the thread where it is and is no step.            *)
hal_sleep_light_sleep ==
    /\ pc = "run" /\ phase = "none"
    /\ \/ MayDeep /\ pc' = "suspended"
       \/ MayLight /\ pc' = "light"
    /\ UNCHANGED <<vars, mode, down, woken, old_min_freq>> /\ SleepFrame

(* WFI ends when an interrupt is pending.                                  *)
LightWake ==
    /\ pc = "light" /\ irq
    /\ pc' = "run"
    /\ UNCHANGED <<vars, mode, down, woken, old_min_freq>> /\ SleepFrame

(* hal_sleep_enter_sleep finds a lock, or a sleep hook or the trace driver *)
(* has work to do.                                                         *)
EnterRefused ==
    /\ pc = "suspended" /\ phase = "none"
    /\ pc' = "run"
    /\ UNCHANGED <<vars, mode, down, woken, old_min_freq>> /\ SleepFrame

EnterLight ==
    /\ pc = "suspended" /\ phase = "none"
    /\ MayLight
    /\ pc' = "light"
    /\ UNCHANGED <<vars, mode, down, woken, old_min_freq>> /\ SleepFrame

SleepMode ==
    CASE power_down_en /\ chip_wake_lock_map # {}  -> "SYS_32K_CORE_PD"
      [] power_down_en /\ chip_wake_lock_map = {}  -> "POWER_DOWN"
      [] ~power_down_en /\ chip_wake_lock_map # {} -> "SYS"
      [] OTHER                                     -> "CHIP"

EnterDeep ==
    /\ pc' = "stop"
    /\ mode' = SleepMode
    /\ down' = <<>>
    /\ old_min_freq' = min_sysfreq
    /\ IF SLEEP_SYS_FREQ_52M THEN hal_sysfreq_inc_min_freq(FREQ_52M)
                             ELSE UNCHANGED vars
    /\ UNCHANGED woken /\ SleepFrame

(* Mutant: the answer hal_sleep_light_sleep gave is taken for granted.     *)
EnterUnchecked ==
    /\ pc = "suspended" /\ phase = "none"
    /\ EnterDeep

hal_sleep_enter_sleep ==
    /\ pc = "suspended" /\ phase = "none"
    /\ MayDeep
    /\ EnterDeep

(* The order in which hal_sleep_lowpower_mode stops the units: the         *)
(* handlers from the end of the table, the analog side unless a chip lock  *)
(* keeps it up, and the units whose registers a power-down loses.          *)
StopList ==
    Reverse(pm_notif)
    \o (IF chip_wake_lock_map = {} THEN <<"analog", "gpadc", "pmu">> ELSE <<>>)
    \o <<"dma", "uart", "cache", "norflash", "spi", "fast_timer">>

(* Mutants: the flash is woken before the bus it sits on; the analog side  *)
(* is woken only when the whole chip was off.                              *)
WakeFlashFirst ==
    <<"norflash", "fast_timer", "spi", "cache", "uart", "dma">>
    \o (IF chip_wake_lock_map = {} THEN <<"pmu", "gpadc", "analog">> ELSE <<>>)
    \o pm_notif

WakeAnalogByMode ==
    <<"fast_timer", "spi", "norflash", "cache", "uart", "dma">>
    \o (IF mode = "POWER_DOWN" THEN <<"pmu", "gpadc", "analog">> ELSE <<>>)
    \o pm_notif

WakeList ==
    <<"fast_timer", "spi", "norflash", "cache", "uart", "dma">>
    \o (IF chip_wake_lock_map = {} THEN <<"pmu", "gpadc", "analog">> ELSE <<>>)
    \o pm_notif

StopUnit ==
    /\ pc = "stop" /\ Len(down) < Len(StopList)
    /\ down' = Append(down, StopList[Len(down) + 1])
    /\ UNCHANGED <<vars, pc, mode, woken, old_min_freq>> /\ SleepFrame

(* Mutant: the pending interrupt is not noticed and lost.                  *)
SleepThroughIrq ==
    /\ pc = "stop" /\ Len(down) = Len(StopList)
    /\ pc' = "asleep"
    /\ woken' = 0
    /\ irq' = FALSE
    /\ UNCHANGED <<vars, mode, down, old_min_freq, lockVars, pm_notif, power_down_en, dma>>

(* All is stopped: sleep, unless an interrupt came in meanwhile.           *)
hal_cmu_lpu_sleep ==
    /\ pc = "stop" /\ Len(down) = Len(StopList)
    /\ pc' = IF irq THEN "wake" ELSE "asleep"
    /\ woken' = 0
    /\ UNCHANGED <<vars, mode, down, old_min_freq>> /\ SleepFrame

DeepWake ==
    /\ pc = "asleep" /\ irq
    /\ pc' = "wake"
    /\ UNCHANGED <<vars, mode, down, woken, old_min_freq>> /\ SleepFrame

(* What is still stopped when x, the last time it was stopped, is undone.  *)
DownWithout(x) ==
    LET at == {i \in 1 .. Len(down) : down[i] = x}
    IN  IF at = {} THEN down ELSE RemoveAt(down, Max(at))

WakeUnit ==
    /\ pc = "wake" /\ woken < Len(WakeList)
    /\ down' = DownWithout(WakeList[woken + 1])
    /\ woken' = woken + 1
    /\ UNCHANGED <<vars, pc, mode, old_min_freq>> /\ SleepFrame

EndOfLocals == mode' = "none" /\ woken' = 0 /\ old_min_freq' = FREQ_32K

(* Mutant: the floor is not put back.                                      *)
ReturnKeepsFloor ==
    /\ pc = "wake" /\ woken = Len(WakeList)
    /\ pc' = "run"
    /\ UNCHANGED vars
    /\ EndOfLocals
    /\ UNCHANGED down /\ SleepFrame

ReturnFromSleep ==
    /\ pc = "wake" /\ woken = Len(WakeList)
    /\ pc' = "run"
    /\ IF SLEEP_SYS_FREQ_52M THEN hal_sysfreq_set_min_freq(old_min_freq)
                             ELSE UNCHANGED vars
    /\ EndOfLocals
    /\ UNCHANGED down /\ SleepFrame

-----------------------------------------------------------------------------
(* hal_cmu_setup: the first request, then the floor of an idle core.       *)
BootRequest ==
    /\ pc = "boot"
    /\ hal_sysfreq_req(0, FREQ_52M)
    /\ pc' = "boot_min"
    /\ UNCHANGED <<mode, down, woken, old_min_freq>> /\ SleepFrame

BootWrite ==
    /\ pc = "boot_min"
    /\ ClockWrite
    /\ UNCHANGED sleepVars /\ SleepFrame

BootMin ==
    /\ pc = "boot_min" /\ phase = "none"
    /\ pc' = "run"
    /\ IF IDLE_SYS_FREQ_52M THEN hal_sysfreq_inc_min_freq(FREQ_52M) ELSE UNCHANGED vars
    /\ UNCHANGED <<mode, down, woken, old_min_freq>> /\ SleepFrame

SleepInit ==
    /\ Init
    /\ cpu_wake_lock_map = {} /\ sys_wake_lock_map = {} /\ chip_wake_lock_map = {}
    /\ pm_notif = <<>> /\ power_down_en = TRUE
    /\ pc = "boot" /\ mode = "none" /\ down = <<>> /\ woken = 0
    /\ old_min_freq = FREQ_32K
    /\ irq = FALSE /\ dma = FALSE

Boot == BootRequest \/ BootWrite \/ BootMin

Running ==
    \/ \E u \in Lockers : WakeLock(u)
    \/ \E h \in Handlers : hal_pm_notif_register(h)
    \/ \E h \in Handlers : hal_pm_notif_deregister(h)
    \/ hal_sleep_power_down_enable
    \/ Request
    \/ DmaStart

Hardware == DmaEnd \/ IrqArrives

Idle ==
    \/ hal_sleep_light_sleep \/ LightWake
    \/ EnterRefused \/ EnterLight \/ hal_sleep_enter_sleep
    \/ StopUnit \/ hal_cmu_lpu_sleep \/ DeepWake \/ WakeUnit \/ ReturnFromSleep

SleepNext == Boot \/ Running \/ Hardware \/ IrqServe \/ Idle

SleepSpec == SleepInit /\ [][SleepNext]_allVars

(* The boot and the code between locking and unlocking the interrupts run  *)
(* to their end; nothing makes the idle thread start a sleep or makes an   *)
(* interrupt come.                                                         *)
SleepFairness ==
    /\ WF_allVars(Boot)
    /\ WF_allVars(LightWake)
    /\ WF_allVars(StopUnit \/ hal_cmu_lpu_sleep \/ DeepWake \/ WakeUnit \/ ReturnFromSleep)

FairSleepSpec == SleepSpec /\ SleepFairness

-----------------------------------------------------------------------------
SleepTypeOK ==
    /\ TypeOK
    /\ \A map \in {cpu_wake_lock_map, sys_wake_lock_map, chip_wake_lock_map} :
          map \subseteq Lockers
    /\ pm_notif \in Seq(Handlers) /\ Len(pm_notif) <= PM_NOTIF_HDLR_CNT
    /\ \A i, j \in DOMAIN pm_notif : i < j => /\ PmUser[pm_notif[i]] >= PmUser[pm_notif[j]]
                                             /\ pm_notif[i] # pm_notif[j]
    /\ pc \in {"boot", "boot_min", "run", "suspended", "light", "stop", "asleep", "wake"}
    /\ mode \in {"SYS_32K_CORE_PD", "POWER_DOWN", "SYS", "CHIP", "none"}
    /\ old_min_freq \in Freqs
    /\ {irq, dma, power_down_en} \subseteq BOOLEAN

(* The core is in deep sleep only while nobody needs it: no processor or   *)
(* system lock, no frequency request and no transfer, although all of them *)
(* can come between the idle thread's question and its entry; and a chip   *)
(* lock keeps the analog side and the oscillator mode it needs.            *)
AsleepSafe ==
    /\ SleepTypeOK
    /\ pc = "asleep" =>
           /\ cpu_wake_lock_map = {} /\ sys_wake_lock_map = {}
           /\ ~hal_sysfreq_busy /\ ~dma
           /\ chip_wake_lock_map # {} =>
                 mode \in {"SYS", "SYS_32K_CORE_PD"} /\ AnalogUnits \cap Range(down) = {}

(* Whenever the core runs its clock has the power it needs, also between   *)
(* the two writes of a request and after a sleep that moved the floor      *)
(* without telling the power unit.                                         *)
PmuCovers == (Awake \/ pc = "boot_min") => pmu >= clk

(* A sleep leaves the floor as it found it, also one that was given up     *)
(* half way.                                                               *)
FloorRestored ==
    Awake => min_sysfreq = IF IDLE_SYS_FREQ_52M THEN FREQ_52M ELSE FREQ_32K

(* Every unit that was stopped is running again when the sleep is over,    *)
(* also when the sleep was given up for a pending interrupt.               *)
NothingLeftDown == Awake => down = <<>>

(* Units are woken in the reverse of the order they were stopped in, so    *)
(* that none is touched while one that it depends on is stopped.           *)
MirrorOrder == [][down' # down => \/ down' = Front(down)
                                  \/ pc # "wake"]_allVars

(* A pending interrupt gets the core back, at whatever step of the sleep   *)
(* it comes.                                                               *)
IrqWakes == irq ~> Awake
=============================================================================
