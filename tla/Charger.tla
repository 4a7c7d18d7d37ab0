-------------------------------- MODULE Charger --------------------------------
(***************************************************************************)
(* Plugging the charger in and out (apps/battery/app_battery.cpp).         *)
(*                                                                         *)
(* The power unit's interrupt takes its own handler away and posts a       *)
(* message.  The application thread then starts a debounce timer, whose    *)
(* handler reads the charger until DEBOUNCE_CNT readings in a row agree;   *)
(* it posts the result, gives the power unit its handler back and stops    *)
(* the timer.  The application thread takes over the result as the status. *)
(* While the bud starts, its main thread reads the charger a few times,    *)
(* sets the handler and decides on the first status.                       *)
(*                                                                         *)
(* Interrupts come between any two steps of a thread.  The timer thread    *)
(* (priority 40) is not preempted by the application thread (priority      *)
(* osPriorityAboveNormal).  The power unit is a library; what it does with *)
(* a change while no handler is set is latches, which never changes.  The  *)
(* build is the one of config/best1307: a change of the charger does not   *)
(* reset the bud, and there is no external charger pin.                    *)
(***************************************************************************)
EXTENDS Naturals, Sequences, SequencesExt

CONSTANTS
    DEBOUNCE_CNT,       \* CHARGER_PLUGINOUT_DEBOUNCE_CNT; the first reading starts the timer
    OPEN_READS,         \* readings of app_battery_charger_indication_open
    MAX_CHARGER_MAIL    \* bound: messages of this module in the mailbox

ASSUME ChargerAssumption ==
    /\ DEBOUNCE_CNT \in Nat \ {0, 1} /\ OPEN_READS \in Nat \ {0}
    /\ MAX_CHARGER_MAIL \in Nat

VARIABLES
    charger,        \* hardware: the charger is plugged in
    latches,        \* power unit: a change without a handler is signalled later; else it may be
    changed,        \* power unit: a change that is to be signalled
    handler,        \* power unit: the handler is set
    chargerMail,    \* messages of this module in the application's mailbox
    ctx, cnt,       \* app_battery_pluginout_debounce_ctx, _cnt
    debounceTimer,  \* the debounce timer is running
    tpc,            \* timer thread: next step of the debounce handler
    isCharging,     \* app_battery_measure.status = APP_BATTERY_STATUS_CHARGING
    opc, reads,     \* main thread: next step of app_battery_open, readings made
    found           \* main thread: what it found

pmuVars == <<charger, changed, handler, latches>>
debounceVars == <<ctx, cnt, debounceTimer, tpc>>
openVars == <<opc, reads, found>>
chargerVars == <<pmuVars, chargerMail, debounceVars, isCharging, openVars>>

PLUGINOUT == [status |-> "PLUGINOUT", charger |-> FALSE]
CHARGING(plugin) == [status |-> "CHARGING", charger |-> plugin]

ChargerInit ==
    /\ latches \in BOOLEAN
    /\ charger \in BOOLEAN /\ changed = FALSE /\ handler = FALSE
    /\ chargerMail = <<>>
    /\ ctx = FALSE /\ cnt = 0 /\ debounceTimer = FALSE /\ tpc = "idle"
    /\ isCharging = FALSE
    /\ opc = "read" /\ reads = 0 /\ found = FALSE

-----------------------------------------------------------------------------
(* The charger is plugged in or out.                                       *)
Plug ==
    /\ charger' = ~charger
    /\ changed' \in IF handler \/ latches THEN {TRUE} ELSE {changed, TRUE}
    /\ UNCHANGED <<handler, latches, chargerMail, debounceVars, isCharging, openVars>>

app_battery_charger_handler ==
    /\ handler /\ changed
    /\ Len(chargerMail) < MAX_CHARGER_MAIL
    /\ handler' = FALSE /\ changed' = FALSE
    /\ chargerMail' = Append(chargerMail, PLUGINOUT)
    /\ UNCHANGED <<charger, latches, debounceVars, isCharging, openVars>>

-----------------------------------------------------------------------------
(* Debouncing.                                                             *)
app_battery_pluginout_debounce_start ==
    /\ ctx' = charger /\ cnt' = 1
    /\ debounceTimer' = TRUE
    /\ UNCHANGED tpc

DebounceRead ==
    /\ cnt' = IF ctx = charger THEN cnt + 1 ELSE 0
    /\ ctx' = charger

(* The timer expires; it is started for one time only.  The main thread is *)
(* done with app_battery_open long before.                                 *)
DebounceExpires ==
    /\ debounceTimer /\ tpc = "idle" /\ opc = "open"
    /\ DebounceRead
    /\ IF cnt' >= DEBOUNCE_CNT
       THEN /\ Len(chargerMail) < MAX_CHARGER_MAIL
            /\ chargerMail' = Append(chargerMail, CHARGING(charger))
            /\ debounceTimer' = FALSE /\ tpc' = "arm"
       ELSE UNCHANGED <<chargerMail, debounceTimer, tpc>>
    /\ UNCHANGED <<pmuVars, isCharging, openVars>>

DebounceArm ==
    /\ tpc = "arm" /\ tpc' = "stop"
    /\ handler' = TRUE
    /\ UNCHANGED <<charger, changed, latches, chargerMail, ctx, cnt, debounceTimer, isCharging, openVars>>

DebounceStop ==
    /\ tpc = "stop" /\ tpc' = "idle"
    /\ debounceTimer' = FALSE
    /\ UNCHANGED <<pmuVars, chargerMail, ctx, cnt, isCharging, openVars>>

app_battery_pluginout_debounce_handler == DebounceExpires \/ DebounceArm \/ DebounceStop

-----------------------------------------------------------------------------
(* Mutant: the application thread has the priority of the timer thread.    *)
AppMayRunAlways == TRUE

AppMayRun == tpc = "idle"

(* Mutant: only the plugging in is taken over.                             *)
PlugInOnly(plugin) == isCharging \/ plugin

(* CHARGING in app_battery_handle_process_normal and _charging.            *)
StatusAfter(plugin) ==
    CASE ~isCharging /\ plugin -> TRUE
      [] isCharging /\ ~plugin -> FALSE
      [] OTHER -> isCharging

(* app_battery_handle_process, for the messages about the charger.         *)
HandleMessage ==
    /\ AppMayRun /\ chargerMail # <<>>
    /\ chargerMail' = Tail(chargerMail)
    /\ IF Head(chargerMail) = PLUGINOUT
       THEN app_battery_pluginout_debounce_start /\ UNCHANGED isCharging
       ELSE isCharging' = StatusAfter(Head(chargerMail).charger) /\ UNCHANGED debounceVars
    /\ UNCHANGED <<pmuVars, openVars>>

-----------------------------------------------------------------------------
(* app_battery_open, with app_battery_charger_indication_open.             *)
OpenRead ==
    /\ opc = "read"
    /\ found' = charger /\ reads' = reads + 1
    /\ opc' = IF charger \/ reads' = OPEN_READS THEN "set" ELSE "read"
    /\ UNCHANGED <<pmuVars, chargerMail, debounceVars, isCharging>>

OpenSet ==
    /\ opc = "set" /\ opc' = "status"
    /\ handler' = TRUE
    /\ UNCHANGED <<charger, changed, latches, chargerMail, debounceVars, isCharging, reads, found>>

OpenStatus ==
    /\ opc = "status" /\ opc' = "open"
    /\ isCharging' = found
    /\ UNCHANGED <<pmuVars, chargerMail, debounceVars, reads, found>>

app_battery_open == OpenRead \/ OpenSet \/ OpenStatus

-----------------------------------------------------------------------------
ChargerNext ==
    \/ Plug
    \/ app_battery_charger_handler
    \/ app_battery_pluginout_debounce_handler
    \/ HandleMessage
    \/ app_battery_open

ChargerSpec == ChargerInit /\ [][ChargerNext]_chargerVars

(* Interrupts are taken and the threads run; nobody has to plug anything.  *)
FairChargerSpec ==
    /\ ChargerSpec
    /\ WF_chargerVars(app_battery_charger_handler)
    /\ WF_chargerVars(app_battery_pluginout_debounce_handler)
    /\ WF_chargerVars(HandleMessage)
    /\ WF_chargerVars(app_battery_open)

-----------------------------------------------------------------------------
ChargerTypeOK ==
    /\ {latches, charger, changed, handler, ctx, debounceTimer, isCharging, found} \subseteq BOOLEAN
    /\ chargerMail \in Seq({PLUGINOUT, CHARGING(TRUE), CHARGING(FALSE)}) /\ Len(chargerMail) <= MAX_CHARGER_MAIL
    /\ cnt \in 0 .. DEBOUNCE_CNT
    /\ tpc \in {"idle", "arm", "stop"}
    /\ opc \in {"read", "set", "status", "open"} /\ reads \in 0 .. OPEN_READS

(* One debouncing at a time, and never none: once the bud is started, a    *)
(* change is waited for, or is on its way to the application thread, or is *)
(* being debounced, and only one of them.                                  *)
Waiting == {w \in {"interrupt", "message", "timer", "arming"} :
               \/ w = "interrupt" /\ handler
               \/ w = "message" /\ PLUGINOUT \in Range(chargerMail)
               \/ w = "timer" /\ debounceTimer
               \/ w = "arming" /\ tpc = "arm"}
NeverDeaf ==
    /\ ChargerTypeOK
    /\ opc \in {"status", "open"} => \E w \in Waiting : Waiting = {w}

(* A charger that stays plugged in, or out, is found in the end, however   *)
(* it bounced before, if the power unit remembers a change that comes      *)
(* while the handler is not set.                                           *)
ChargerFollowed ==
    latches => \A b \in BOOLEAN : <>[](charger = b) => <>[](isCharging = b)
===============================================================================
