-------------------------------- MODULE Battery --------------------------------
(***************************************************************************)
(* Measuring the battery (apps/battery/app_battery.cpp): a periodic timer  *)
(* starts a conversion, whose interrupt keeps the last STABLE_COUNT        *)
(* samples and posts what their mean stands for; the application thread    *)
(* makes a level of it, reports it, and turns the bud off when the battery *)
(* is empty, or finds out whether it is charged.                           *)
(*                                                                         *)
(* How the charger's messages come about is module Charger's; here one may *)
(* come at any time.  Voltages are in mV, as in the code.  A slope is kept *)
(* as whether the voltage rose.  Time is the time the charger is plugged   *)
(* in, in units of the charge timeout.                                     *)
(***************************************************************************)
EXTENDS Integers, Sequences, SequencesExt, FiniteSetsExt

CONSTANTS
    Volts,              \* what a conversion may give
    ERR, PD, LOW, HIGH, \* APP_BATTERY_ERR_MV, _PD_MV, _MIN_MV, _MAX_MV
    OFFSET,             \* APP_BATTERY_CHARGE_OFFSET_MV
    LEVEL_MAX,          \* APP_BATTERY_LEVEL_MAX
    STABLE_COUNT,       \* APP_BATTERY_STABLE_COUNT
    INDEX_WRAP,         \* 2^16: index is a uint16_t
    CNT_WRAP,           \* 2^8: overvolt_full_charge_cnt is a uint8_t
    OVERVOLT_CNT,       \* APP_BATTERY_CHARGING_OVERVOLT_DEDOUNCE_CNT
    SLOPE_COUNT,        \* APP_BATTERY_CHARGING_SLOPE_TABLE_COUNT
    MAX_MAIL            \* bound: messages in the mailbox

UINT16_MAX == 2^16 - 1     \* APP_BATTERY_MV_T is a uint16_t
MV_BASE == (HIGH - PD) \div (LEVEL_MAX + 1)

ASSUME BatteryAssumption ==
    /\ Volts \subseteq 0 .. UINT16_MAX
    /\ {ERR, PD, LOW, HIGH, OFFSET, LEVEL_MAX} \subseteq Nat
    /\ ERR < PD /\ PD < LOW /\ LOW < HIGH /\ HIGH <= UINT16_MAX /\ MV_BASE > 0
    /\ {STABLE_COUNT, OVERVOLT_CNT, SLOPE_COUNT} \subseteq Nat \ {0} /\ MAX_MAIL \in Nat \ {0, 1}
    /\ INDEX_WRAP \in Nat /\ INDEX_WRAP > STABLE_COUNT
    /\ CNT_WRAP \in Nat \ {0}

VARIABLES
    timer,              \* period of the running timer, or "off"
    adc,                \* a conversion is under way
    voltage, index,     \* the samples and how many there were
    mailbox,
    status,             \* app_battery_measure.status: "NORMAL" or "CHARGING"
    currvolt, currlevel, periodic,
    charging,           \* charger_status and the static counters
    timeout,            \* the charge timeout has passed since start_time
    indication,         \* app_status_indication_get() = FULLCHARGE
    power,              \* "on" or "off"
    recent              \* history: the last samples, newest first

adcVars == <<adc, voltage, index, recent>>
appVars == <<status, currvolt, currlevel, periodic, charging, indication, power>>
vars == <<timer, adcVars, mailbox, appVars, timeout>>

NoCharging == [prevolt |-> 0, rising |-> [i \in 0 .. SLOPE_COUNT - 1 |-> TRUE],
               slot |-> 0, cnt |-> 0, overvolt |-> 0]

Init ==
    /\ timer = "off" /\ adc = FALSE
    /\ voltage = [i \in 0 .. STABLE_COUNT - 1 |-> 0] /\ index = 0 /\ recent = <<>>
    /\ mailbox = <<>>
    /\ status \in {"NORMAL", "CHARGING"}
    /\ currvolt = HIGH /\ currlevel = LEVEL_MAX /\ periodic = "QTY"
    /\ charging = NoCharging
    /\ timeout = FALSE /\ indication = FALSE
    /\ power = "on"

-----------------------------------------------------------------------------
Clamp(level) == IF level < 0 THEN 0 ELSE IF level > LEVEL_MAX THEN LEVEL_MAX ELSE level

(* (int8_t)((mv - PD) / MV_BASE) of a uint32_t: below PD the difference is *)
(* 2^32 - (PD - mv).  2^32 is WRAP_LEVEL * 110 + 26, and 110 is the        *)
(* MV_BASE of the build.                                                   *)
Int8(n) == ((n + 128) % 256) - 128
WRAP_LEVEL == 39045157
UnsignedLevel(mv) ==
    IF mv >= PD THEN Int8((mv - PD) \div MV_BASE)
    ELSE Int8(WRAP_LEVEL + (26 - (PD - mv)) \div MV_BASE)

Mean(v) == SumFunction(v) \div STABLE_COUNT

(* Mutant: the comparison with the lowest voltage is the wrong way round.  *)
KindNeverPd(mean) ==
    CASE mean > HIGH -> "OVERVOLT"
      [] mean < LOW -> "UNDERVOLT"
      [] OTHER -> "NORMAL"

Kind(mean) ==
    CASE mean > HIGH -> "OVERVOLT"
      [] mean > PD /\ mean < LOW -> "UNDERVOLT"
      [] mean < PD -> "PDVOLT"
      [] OTHER -> "NORMAL"

Measured(kind, mv) == [status |-> kind, volt |-> mv]
Charger(plugin) == [status |-> "CHARGING", volt |-> IF plugin THEN 1 ELSE 0]

(* Mutant: once there were enough samples the mean is made for good, also  *)
(* where the index starts again and a place is written twice in a row.     *)
StableForGood(n) == Len(recent) = STABLE_COUNT

(* So many samples are enough to make the mean.                            *)
Stable(n) == n > STABLE_COUNT

-----------------------------------------------------------------------------
(* The timers.                                                             *)
app_battery_timer_start(period) ==
    /\ periodic' = period
    /\ timer' = IF periodic = period THEN timer ELSE period

app_battery_start ==
    /\ power = "on"
    /\ app_battery_timer_start("FAST")
    /\ UNCHANGED <<adcVars, mailbox, status, currvolt, currlevel, charging,
                   indication, power, timeout>>

app_battery_stop ==
    /\ power = "on" /\ timer # "off" /\ timer' = "off"
    /\ UNCHANGED <<adcVars, mailbox, appVars, timeout>>

app_battery_timer_handler ==
    /\ timer # "off" /\ ~adc /\ power = "on"
    /\ adc' = TRUE
    /\ UNCHANGED <<timer, voltage, index, recent, mailbox, appVars, timeout>>

-----------------------------------------------------------------------------
(* The conversion is done: app_battery_irqhandler.                         *)
BadSample(vbat) ==
    /\ vbat <= ERR
    /\ mailbox' = Append(mailbox, Measured("INVALID", vbat))
    /\ UNCHANGED <<voltage, index, recent, currvolt, currlevel>>

GoodSample(vbat) ==
    /\ vbat > ERR
    /\ voltage' = [voltage EXCEPT ![index % STABLE_COUNT] = vbat]
    /\ index' = (index + 1) % INDEX_WRAP
    /\ recent' = SubSeq(<<vbat>> \o recent, 1,
                        IF Len(recent) < STABLE_COUNT THEN Len(recent) + 1 ELSE STABLE_COUNT)
    /\ IF Stable(index')
       THEN /\ mailbox' = Append(mailbox, Measured(Kind(Mean(voltage')), Mean(voltage')))
            /\ UNCHANGED <<currvolt, currlevel>>
       ELSE /\ currvolt' = vbat
            /\ currlevel' = Clamp(UnsignedLevel(vbat))
            /\ UNCHANGED mailbox

app_battery_irqhandler(vbat) ==
    /\ adc /\ adc' = FALSE
    /\ power = "on" /\ Len(mailbox) < MAX_MAIL
    /\ BadSample(vbat) \/ GoodSample(vbat)
    /\ UNCHANGED <<timer, status, periodic, charging, indication, power, timeout>>

-----------------------------------------------------------------------------
(* app_battery_charger_handle_process: whether the battery is charged.     *)
(* Mutant: a voltage that has come down leaves the count.                  *)
OvervoltKept(c, mv) == IF mv >= HIGH + OFFSET THEN (c.overvolt + 1) % CNT_WRAP ELSE c.overvolt

(* The voltage was over the limit so many times in a row (a uint8_t).      *)
Overvolt(c, mv) == IF mv >= HIGH + OFFSET THEN (c.overvolt + 1) % CNT_WRAP ELSE 0

Rising(r) ==
    Quantify(DOMAIN r, LAMBDA i : r[i]) - Quantify(DOMAIN r, LAMBDA i : ~r[i]) > 1

(* Every other time (APP_BATTERY_CHARGING_SLOPE_MEASURE_CNT is 2, and cnt  *)
(* is counted up three times a call, once when it ends early).             *)
SlopeDue(c) == (c.cnt + 2) % 2 = 0

SlopeAfter(c, mv) ==
    IF c.prevolt = 0
    THEN [c EXCEPT !.prevolt = mv, !.rising = [i \in DOMAIN @ |-> TRUE],
                   !.slot = (@ + 1) % SLOPE_COUNT]
    ELSE [c EXCEPT !.prevolt = mv, !.rising = [@ EXCEPT ![c.slot] = mv > c.prevolt],
                   !.slot = (@ + 1) % SLOPE_COUNT]

(* The state after the call, and whether it finds the battery charged.     *)
Charged(c, mv) ==
    LET over == [c EXCEPT !.overvolt = Overvolt(c, mv), !.cnt = (@ + 1) % 2]
        slope == IF SlopeDue(c) THEN SlopeAfter(over, mv) ELSE over
    IN  CASE timeout -> [c |-> c, full |-> TRUE]
          [] ~timeout /\ over.overvolt >= OVERVOLT_CNT -> [c |-> over, full |-> TRUE]
          [] OTHER -> [c |-> [slope EXCEPT !.cnt = (c.cnt + 3) % 2],
                       full |-> SlopeDue(c) /\ c.prevolt # 0 /\ ~Rising(slope.rising)
                                /\ mv >= HIGH - OFFSET]

-----------------------------------------------------------------------------
(* app_battery_handle_process.                                             *)
app_battery_handle_process_normal(m) ==
    /\ IF m.status \in {"UNDERVOLT", "NORMAL", "OVERVOLT"}
       THEN /\ currvolt' = m.volt
            /\ currlevel' = Clamp(Int8((m.volt - PD) \div MV_BASE))
       ELSE UNCHANGED <<currvolt, currlevel>>
    /\ power' = IF m.status = "PDVOLT" THEN "off" ELSE power
    /\ status' = IF m = Charger(TRUE) THEN "CHARGING" ELSE status
    /\ indication' = (indication /\ m.status # "UNDERVOLT")
    /\ app_battery_timer_start("NORMAL")
    /\ UNCHANGED charging

app_battery_handle_process_charging(m) ==
    LET c == Charged(charging, currvolt')
    IN  /\ currvolt' = IF m.status \in {"UNDERVOLT", "NORMAL", "OVERVOLT"} THEN m.volt ELSE currvolt
        /\ status' = IF m = Charger(FALSE) THEN "NORMAL" ELSE status
        /\ charging' = c.c
        /\ indication' = (indication \/ c.full)
        /\ app_battery_timer_start("CHARGING")
        /\ UNCHANGED <<currlevel, power>>

app_battery_handle_process ==
    /\ power = "on" /\ mailbox # <<>>
    /\ mailbox' = Tail(mailbox)
    /\ \/ status = "NORMAL" /\ app_battery_handle_process_normal(Head(mailbox))
       \/ status = "CHARGING" /\ app_battery_handle_process_charging(Head(mailbox))
    /\ UNCHANGED <<adcVars, timeout>>

-----------------------------------------------------------------------------
(* Around it: the charger is plugged in or out, the charge timeout passes, *)
(* another state of the bud is indicated.                                  *)
Plugged(plugin) ==
    /\ power = "on" /\ Len(mailbox) < MAX_MAIL - 1
    /\ mailbox' = Append(mailbox, Charger(plugin))
    /\ timeout' = IF plugin THEN FALSE ELSE timeout
    /\ UNCHANGED <<timer, adcVars, appVars>>

(* The time is only looked at while the battery is charging.               *)
TimePasses ==
    /\ power = "on" /\ status = "CHARGING"
    /\ ~timeout /\ timeout' = TRUE
    /\ UNCHANGED <<timer, adcVars, mailbox, appVars>>

IndicateOther ==
    /\ power = "on" /\ indication /\ indication' = FALSE
    /\ UNCHANGED <<timer, adcVars, mailbox, status, currvolt, currlevel, periodic,
                   charging, power, timeout>>

Next ==
    \/ app_battery_start
    \/ app_battery_stop
    \/ app_battery_timer_handler
    \/ \E vbat \in Volts : app_battery_irqhandler(vbat)
    \/ app_battery_handle_process
    \/ \E plugin \in BOOLEAN : Plugged(plugin)
    \/ TimePasses
    \/ IndicateOther

Spec == Init /\ [][Next]_vars

(* Timers expire, conversions end and the application thread runs.         *)
FairSpec ==
    /\ Spec
    /\ WF_vars(app_battery_timer_handler)
    /\ WF_vars(\E vbat \in Volts : app_battery_irqhandler(vbat))
    /\ WF_vars(app_battery_handle_process)

-----------------------------------------------------------------------------
TypeOK ==
    /\ timer \in {"off", "FAST", "NORMAL", "CHARGING"}
    /\ adc \in BOOLEAN /\ index \in 0 .. INDEX_WRAP - 1
    /\ \A i \in DOMAIN voltage : voltage[i] \in Volts \cup {0}
    /\ Len(mailbox) <= MAX_MAIL
    /\ status \in {"NORMAL", "CHARGING"} /\ periodic \in {"QTY", "FAST", "NORMAL", "CHARGING"}
    /\ currvolt \in 0 .. UINT16_MAX /\ currlevel \in 0 .. LEVEL_MAX
    /\ charging.slot \in 0 .. SLOPE_COUNT - 1 /\ charging.overvolt \in 0 .. CNT_WRAP - 1
    /\ power \in {"on", "off"}

(* A posted mean is that of the last STABLE_COUNT samples, also when the   *)
(* index has wrapped and the samples are no longer in the order of it.     *)
MeanOfLast ==
    /\ TypeOK
    /\ Stable(index) =>
          /\ Len(recent) = STABLE_COUNT
          /\ Mean(voltage) = FoldSeq(+, 0, recent) \div STABLE_COUNT

(* The battery is said to be charged when it has been charging for the     *)
(* charge timeout, or when its voltage, as last measured, is that of a     *)
(* full battery: counts and slopes that are left from an earlier charge do *)
(* not make it so.                                                         *)
FullGenuine ==
    [][indication' /\ ~indication => timeout \/ currvolt' >= HIGH - OFFSET]_vars

(* A battery that is empty from some moment on turns the bud off, unless   *)
(* it is charging or the measuring was stopped.                            *)
Measuring == status = "NORMAL" /\ timer # "off"
EmptySamples ==
    [][\A vbat \in Volts : app_battery_irqhandler(vbat) => vbat > ERR /\ vbat < PD]_vars
EmptyTurnsOff ==
    <>[](Measuring \/ power = "off") /\ <>EmptySamples => <>(power = "off")

-----------------------------------------------------------------------------
(* What the code's comments and assertions say and the model refutes (see  *)
(* Observations in the README).                                            *)

(* The level is the one of the voltage it is shown with.                   *)
LevelFollows == currlevel = Clamp((currvolt - PD) \div MV_BASE)

(* What the application thread reports of its next message to the hands-   *)
(* free profile, as a byte, is a level, on its scale: while it is charging *)
(* it reports the message's voltage.                                       *)
Reported(m) == IF status = "CHARGING" THEN m.volt % 256 ELSE Clamp(Int8((m.volt - PD) \div MV_BASE))
ReportIsLevel ==
    power = "on" /\ mailbox # <<>> /\ Head(mailbox).status \in {"UNDERVOLT", "NORMAL", "OVERVOLT"} =>
        Reported(Head(mailbox)) <= LEVEL_MAX
===============================================================================
