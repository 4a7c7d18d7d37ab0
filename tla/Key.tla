---------------------------------- MODULE Key ----------------------------------
(***************************************************************************)
(* The key driver (platform/hal/hal_key.c): the power key and the GPIO     *)
(* keys, each debounced on its own, and the gestures made of them.         *)
(*                                                                         *)
(* A key's interrupt is taken once: it puts the key under debouncing,      *)
(* turns itself off and starts the debounce timer.  As long as anything is *)
(* going on the timer's handler starts the timer again; it samples the     *)
(* keys, turns a key's interrupt on when the key is done with, and reports *)
(* presses, clicks, long presses and repeats to the callback.              *)
(*                                                                         *)
(* The interrupts and the timer have the same priority, so that a handler  *)
(* is one step; hal_key_close is a thread's and they come between its      *)
(* steps.  Times are kept as ages: what hal_sys_timer_get() differs from   *)
(* the time the code stored, counted up to MAX_AGE.  The events of one     *)
(* scan are a set: their order is fixed by the code, and no event is       *)
(* reported twice in a scan.  The warning of a key held for half a minute  *)
(* is a trace and left out.                                                *)
(***************************************************************************)
EXTENDS Naturals, FiniteSets

CONSTANTS
    PWR, Pins,              \* the power key; the pins of the GPIO keys
    INTERVAL,               \* KEY_CHECKER_INTERVAL, in ticks
    LONGPRESS, LONGLONGPRESS, DBLCLICK,     \* KEY_..._THRESHOLD
    REPEAT,                 \* KEY_LONGPRESS_REPEAT_THRESHOLD / KEY_CHECKER_INTERVAL
    INIT_DOWN, INIT_LONGPRESS, INIT_LONGLONGPRESS,
    MAX_CLICK,              \* MAX_KEY_CLICK_COUNT
    MAX_AGE                 \* bound: ages are counted up to here

DEBOUNCE == 2 * INTERVAL
DITHER == INTERVAL

ASSUME KeyAssumption ==
    /\ PWR \notin Pins /\ IsFiniteSet(Pins)
    /\ {INTERVAL, REPEAT, MAX_CLICK, DBLCLICK, LONGPRESS} \subseteq Nat \ {0}
    /\ {LONGLONGPRESS, INIT_DOWN, INIT_LONGPRESS, INIT_LONGLONGPRESS, MAX_AGE} \subseteq Nat
    /\ \A t \in {DEBOUNCE, LONGPRESS, LONGLONGPRESS, DBLCLICK, INIT_DOWN,
                 INIT_LONGPRESS, INIT_LONGLONGPRESS} : t <= MAX_AGE

Keys == Pins \cup {PWR}

VARIABLES
    level,      \* hardware: the key is pressed
    irq,        \* hardware: the keys whose interrupt is on
    pending,    \* hardware: the keys whose interrupt is to be taken
    pwr_key, gpio_key, key_status,
    timer,      \* timer_active, and the ticks until the timer expires
    boot,       \* the timer's handler is hal_key_boot_handler
    pc,         \* "closed", "open" or the next step of hal_key_close
    early,      \* history: hal_key_close was called during the check at boot
    sent,       \* the events of the last step
    held        \* history: for how many ticks the scans have seen the key pressed

hwVars == <<level, irq, pending>>
keyVars == <<pwr_key, gpio_key, key_status>>
vars == <<hwVars, keyVars, timer, boot, pc, early, sent, held>>

NoPwr == [debounce |-> FALSE, dither |-> FALSE, pressed |-> FALSE, age |-> MAX_AGE]
NoGpio == [debounce |-> {}, dither |-> {}, down |-> {},
           ageDebounce |-> MAX_AGE, ageDither |-> MAX_AGE]
NoStatus == [code_down |-> {}, code_ready |-> {}, code_click |-> {}, event |-> "NONE",
             ageUpdown |-> MAX_AGE, ageClick |-> MAX_AGE, cnt_repeat |-> 0, cnt_click |-> 0]
Off == [active |-> FALSE, left |-> 0]

Init ==
    /\ level = [k \in Keys |-> FALSE]
    /\ irq = {} /\ pending = {}
    /\ pwr_key = NoPwr /\ gpio_key = NoGpio /\ key_status = NoStatus
    /\ timer = Off /\ boot = FALSE
    /\ pc = "closed" /\ early = FALSE
    /\ sent = {}
    /\ held = [k \in Keys |-> 0]

-----------------------------------------------------------------------------
(* Interrupts.  That of a pin is level-sensitive: it is taken as soon as   *)
(* it is on and the key pressed.  That of the power key is for the edge.   *)
Enable(keys) ==
    /\ irq' = irq \cup keys
    /\ pending' = pending \cup {p \in keys \cap Pins : level[p]}

Disable(keys) ==
    /\ irq' = irq \ keys
    /\ pending' = pending \ keys

hal_key_debounce_timer_restart ==
    timer' = IF timer.active THEN timer ELSE [active |-> TRUE, left |-> INTERVAL]

PwrIrqState ==
    pwr_key' = [pwr_key EXCEPT !.pressed = level[PWR],
                               !.debounce = @ \/ level[PWR],
                               !.dither = @ \/ ~level[PWR],
                               !.age = 0]

hal_pwrkey_irqhandler ==
    /\ PWR \in pending
    /\ Disable({PWR})
    /\ PwrIrqState
    /\ hal_key_debounce_timer_restart
    /\ sent' = {}
    /\ UNCHANGED <<level, gpio_key, key_status, boot, pc, early, held>>

hal_gpiokey_irqhandler(p) ==
    /\ p \in pending
    /\ Disable({p})
    /\ gpio_key' = IF level[p]
                   THEN [gpio_key EXCEPT !.debounce = @ \cup {p}, !.ageDebounce = 0]
                   ELSE [gpio_key EXCEPT !.dither = @ \cup {p}, !.ageDither = 0]
    /\ hal_key_debounce_timer_restart
    /\ sent' = {}
    /\ UNCHANGED <<level, pwr_key, key_status, boot, pc, early, held>>

-----------------------------------------------------------------------------
(* A scan.  First the power key: its new state, whether it counts as down, *)
(* and whether its interrupt is turned on again.                           *)
PwrAfter(k, down, enable) == [key |-> k, down |-> down, enable |-> enable]

PwrScan ==
    LET k == pwr_key
    IN  CASE k.debounce /\ level[PWR] /\ k.age >= DEBOUNCE ->
               PwrAfter([k EXCEPT !.debounce = FALSE, !.dither = FALSE, !.pressed = TRUE], TRUE, FALSE)
          [] k.debounce /\ level[PWR] /\ k.age < DEBOUNCE ->
               PwrAfter([k EXCEPT !.dither = FALSE, !.pressed = TRUE], FALSE, FALSE)
          [] k.debounce /\ ~level[PWR] ->
               PwrAfter([k EXCEPT !.debounce = FALSE, !.dither = TRUE, !.pressed = FALSE,
                                  !.age = 0], FALSE, FALSE)
          [] ~k.debounce /\ k.dither /\ k.age >= DITHER ->
               PwrAfter([k EXCEPT !.dither = FALSE, !.pressed = FALSE], FALSE, TRUE)
          [] ~k.debounce /\ ~k.dither /\ k.pressed ->
               PwrAfter([k EXCEPT !.pressed = level[PWR]], level[PWR], ~level[PWR])
          [] OTHER -> PwrAfter(k, FALSE, FALSE)

PwrBusy(k) == k.debounce \/ k.dither \/ k.pressed

(* Then the pins.  Those that dithered long enough and those that were     *)
(* down and are released get their interrupt back.                         *)
Pressed(pins) == {p \in pins : level[p]}
Settled == IF gpio_key.ageDither >= DITHER THEN gpio_key.dither ELSE {}
Released == gpio_key.down \ Pressed(gpio_key.down)
Debounced == IF gpio_key.ageDebounce >= DEBOUNCE THEN Pressed(gpio_key.debounce) ELSE {}
Bounced == gpio_key.debounce \ Pressed(gpio_key.debounce)

(* Mutant: a pin that bounced is taken out of debouncing and forgotten.    *)
GpioScanForgets ==
    [gpio_key EXCEPT !.debounce = @ \ (Debounced \cup Bounced),
                     !.dither   = @ \ Settled,
                     !.down     = (@ \ Released) \cup Debounced]

GpioScan ==
    [gpio_key EXCEPT !.debounce = @ \ (Debounced \cup Bounced),
                     !.dither   = (@ \ Settled) \cup Bounced,
                     !.down     = (@ \ Released) \cup Debounced]

GpioBusy(g) == g.debounce \cup g.dither \cup g.down # {}

(* need_timer: whether the scan starts the timer again.                    *)
ScanAgain(k, g, s) == PwrBusy(k) \/ GpioBusy(g) \/ s.event # "NONE"

-----------------------------------------------------------------------------
(* The gestures: what a scan that finds the keys of code down makes of the *)
(* status, in the four stages of the code.  A stage has the new status and *)
(* the events.                                                             *)
Stage(s, ev) == [s |-> s, ev |-> ev]
Event(code, name, n) == [code |-> code, event |-> name, n |-> n]
Each(keys, name) == {Event({k}, name, 0) : k \in keys}
Long(s) == s.event \in {"LONGPRESS", "LONGLONGPRESS"}

(* Keys that came up.  A long press ends when all of its keys are up.      *)
Ups(s, code) ==
    LET up_new == s.code_down \ code
    IN  IF up_new = {} THEN Stage(s, {})
        ELSE Stage([s EXCEPT !.ageUpdown = 0,
                             !.event = CASE Long(s) /\ code \cap s.code_ready = {} -> "NONE"
                                         [] s.event = "DOWN" -> "UP"
                                         [] OTHER -> @],
                   Each(up_new, "UP") \cup
                   (IF Long(s) THEN Each(up_new, "UP_AFTER_LONGPRESS") ELSE {}))

(* Clicks are counted as long as they are of the same keys, and reported   *)
(* when no further one has come for DBLCLICK.                              *)
ClickCounted(s, code) ==
    LET fresh == s.code_click = {} \/ s.code_click # s.code_ready
        again == s.code_down \ code # {} /\ s.code_down = s.code_click
    IN  CASE fresh            -> [s EXCEPT !.code_click = s.code_ready, !.cnt_click = 0, !.ageClick = 0]
          [] ~fresh /\ again  -> [s EXCEPT !.cnt_click = @ + 1, !.ageClick = 0]
          [] ~fresh /\ ~again -> s

(* Mutant: a click is reported by its count only.                          *)
ClickDueNoTime(s) == s.cnt_click >= MAX_CLICK

ClickDue(s) == s.ageClick >= DBLCLICK \/ s.cnt_click >= MAX_CLICK

Clicks(s, code) ==
    LET flushed == IF s.code_click \notin {{}, s.code_ready}
                   THEN {Event(s.code_click, "CLICK", s.cnt_click)} ELSE {}
        c == ClickCounted(s, code)
    IN  IF s.event # "UP" THEN Stage(s, {})
        ELSE IF ClickDue(c)
        THEN Stage([c EXCEPT !.code_click = {}, !.cnt_click = 0, !.event = "NONE"],
                   flushed \cup {Event(c.code_click, "CLICK", c.cnt_click)})
        ELSE Stage(c, flushed)

(* Mutant: a second key does not start the time of the long press again.   *)
DownsKeepTime(s, code) ==
    LET down_new == code \ s.code_down
    IN  IF down_new = {} THEN Stage([s EXCEPT !.code_down = code], {})
        ELSE Stage([s EXCEPT !.code_down = code,
                             !.ageUpdown = IF s.event = "DOWN" THEN @ ELSE 0,
                             !.code_ready = IF s.event \in {"NONE", "DOWN", "UP"} THEN code ELSE @,
                             !.event = IF s.event \in {"NONE", "UP"} THEN "DOWN" ELSE @],
                   Each(down_new, "DOWN") \cup
                   Each(down_new, IF s.event = "NONE" THEN "FIRST_DOWN" ELSE "CONTINUED_DOWN"))

(* Keys that went down join the gesture, unless it is a long press.        *)
Downs(s, code) ==
    LET down_new == code \ s.code_down
    IN  IF down_new = {} THEN Stage([s EXCEPT !.code_down = code], {})
        ELSE Stage([s EXCEPT !.code_down = code,
                             !.ageUpdown = 0,
                             !.code_ready = IF s.event \in {"NONE", "DOWN", "UP"} THEN code ELSE @,
                             !.event = IF s.event \in {"NONE", "UP"} THEN "DOWN" ELSE @],
                   Each(down_new, "DOWN") \cup
                   Each(down_new, IF s.event = "NONE" THEN "FIRST_DOWN" ELSE "CONTINUED_DOWN"))

(* Long presses and repeats, as long as no key of the gesture is released. *)
Holds(s, code) ==
    LET beat == s.cnt_repeat + 1
        longlong == s.event = "LONGPRESS" /\ s.ageUpdown >= LONGLONGPRESS
    IN  CASE s.code_ready \subseteq code /\ s.event = "DOWN" /\ s.ageUpdown >= LONGPRESS ->
               Stage([s EXCEPT !.cnt_repeat = 0, !.event = "LONGPRESS"],
                     {Event(s.code_ready, "LONGPRESS", 0)})
          [] s.code_ready \subseteq code /\ Long(s) ->
               Stage([s EXCEPT !.cnt_repeat = IF beat = REPEAT THEN 0 ELSE beat,
                               !.event = IF longlong THEN "LONGLONGPRESS" ELSE @],
                     (IF beat = REPEAT THEN {Event(s.code_ready, "REPEAT", 0)} ELSE {}) \cup
                     (IF longlong THEN {Event(s.code_ready, "LONGLONGPRESS", 0)} ELSE {}))
          [] OTHER -> Stage(s, {})

Gesture(s, code) ==
    LET u == Ups(s, code)
        c == Clicks(u.s, code)
        d == Downs(c.s, code)
        h == Holds(d.s, code)
    IN  Stage(h.s, u.ev \cup c.ev \cup d.ev \cup h.ev)

-----------------------------------------------------------------------------
TimerExpires == timer.active /\ timer.left = 0 /\ pc # "closed"

Earlier(n) == IF n + INTERVAL > MAX_AGE THEN MAX_AGE ELSE n + INTERVAL

hal_key_debounce_handler ==
    LET pwr == PwrScan
        code == Pressed(gpio_key.down) \cup Debounced \cup (IF pwr.down THEN {PWR} ELSE {})
        g == Gesture(key_status, code)
    IN  /\ TimerExpires /\ ~boot
        /\ pwr_key' = pwr.key
        /\ gpio_key' = GpioScan
        /\ key_status' = g.s
        /\ sent' = g.ev
        /\ Enable(Settled \cup Released \cup (IF pwr.enable THEN {PWR} ELSE {}))
        /\ timer' = IF ScanAgain(pwr_key', gpio_key', key_status')
                    THEN [active |-> TRUE, left |-> INTERVAL] ELSE Off
        /\ held' = [k \in Keys |-> IF k \in code THEN Earlier(held[k]) ELSE 0]
        /\ UNCHANGED <<level, boot, pc, early>>

(* hal_key_boot_handler: only the power key is looked at, until it is      *)
(* released.  Then the driver starts over with all keys.                   *)
BootStep(s) ==
    CASE s.event = "NONE" /\ s.ageUpdown >= INIT_DOWN -> "INITDOWN"
      [] s.event = "INITDOWN" /\ s.ageUpdown >= INIT_LONGPRESS -> "INITLONGPRESS"
      [] s.event = "INITLONGPRESS" /\ s.ageUpdown >= INIT_LONGLONGPRESS -> "INITLONGLONGPRESS"
      [] OTHER -> s.event

hal_key_boot_handler ==
    LET pwr == PwrScan
        s == IF pwr_key.debounce /\ ~pwr.key.debounce /\ pwr.down
             THEN [key_status EXCEPT !.ageUpdown = 0] ELSE key_status
        event == IF pwr.key.pressed THEN BootStep(s) ELSE s.event
    IN  /\ TimerExpires /\ boot
        /\ IF PwrBusy(pwr.key)
           THEN /\ pwr_key' = pwr.key
                /\ key_status' = [s EXCEPT !.event = event]
                /\ sent' = IF event # s.event THEN {Event({PWR}, event, 0)} ELSE {}
                /\ timer' = [active |-> TRUE, left |-> INTERVAL]
                /\ UNCHANGED <<irq, pending, boot>>
           ELSE /\ pwr_key' = NoPwr /\ key_status' = NoStatus
                /\ sent' = {Event({PWR}, "INITFINISHED", 0)} \cup
                           (IF s.event \in {"NONE", "INITDOWN"} THEN {Event({PWR}, "INITUP", 0)} ELSE {})
                /\ timer' = Off
                /\ Enable(Keys)
                /\ boot' = FALSE
        /\ UNCHANGED <<level, gpio_key, pc, early, held>>

-----------------------------------------------------------------------------
(* hal_key_open.  At boot it waits to see the power key pressed all the    *)
(* time, and gives up if it is not, which leaves everything as it was.     *)
(* After a close during that check app_init fails and the bud powers off.  *)
hal_key_open(checkPwrKey) ==
    /\ pc = "closed" /\ ~early
    /\ checkPwrKey => level[PWR]
    /\ pc' = "open" /\ boot' = checkPwrKey /\ early' = FALSE
    /\ key_status' = NoStatus /\ gpio_key' = NoGpio
    /\ IF checkPwrKey
       THEN /\ pwr_key' = [NoPwr EXCEPT !.debounce = TRUE, !.pressed = TRUE, !.age = 0]
            /\ timer' = [active |-> TRUE, left |-> INTERVAL]
            /\ UNCHANGED <<irq, pending>>
       ELSE /\ pwr_key' = NoPwr
            /\ Enable(Keys)
            /\ UNCHANGED timer
    /\ sent' = {}
    /\ held' = [k \in Keys |-> 0]
    /\ UNCHANGED level

(* hal_key_close, from one of its steps to the next.                       *)
CloseStep(from, to) == pc = from /\ pc' = to /\ sent' = {} /\ UNCHANGED boot

CloseDisable ==
    /\ CloseStep("open", "pwr_reset")
    /\ Disable(Keys)
    /\ early' = boot
    /\ UNCHANGED <<level, keyVars, timer, held>>

ClosePwrReset ==
    /\ CloseStep("pwr_reset", "pwr_disable")
    /\ pwr_key' = NoPwr
    /\ UNCHANGED <<hwVars, gpio_key, key_status, timer, early, held>>

ClosePwrDisable ==
    /\ CloseStep("pwr_disable", "gpio_reset")
    /\ Disable({PWR})
    /\ UNCHANGED <<level, keyVars, timer, early, held>>

CloseGpioReset ==
    /\ CloseStep("gpio_reset", "gpio_disable")
    /\ gpio_key' = NoGpio
    /\ UNCHANGED <<hwVars, pwr_key, key_status, timer, early, held>>

(* Mutant: the interrupts are not turned off a second time.                *)
CloseGpioNothing ==
    /\ CloseStep("gpio_disable", "stop")
    /\ UNCHANGED <<hwVars, keyVars, timer, early, held>>

CloseGpioDisable ==
    /\ CloseStep("gpio_disable", "stop")
    /\ Disable(Pins)
    /\ UNCHANGED <<level, keyVars, timer, early, held>>

CloseStop ==
    /\ CloseStep("stop", "closed")
    /\ timer' = Off
    /\ UNCHANGED <<hwVars, keyVars, early, held>>

hal_key_close ==
    \/ CloseDisable
    \/ ClosePwrReset
    \/ ClosePwrDisable
    \/ CloseGpioReset
    \/ CloseGpioDisable
    \/ CloseStop

-----------------------------------------------------------------------------
(* A key is pressed or released.                                           *)
Toggle(k) ==
    /\ level' = [level EXCEPT ![k] = ~@]
    /\ pending' = IF level'[k] /\ k \in irq THEN pending \cup {k} ELSE pending
    /\ sent' = {}
    /\ UNCHANGED <<irq, keyVars, timer, boot, pc, early, held>>

(* A tick passes when no interrupt is waiting.  hal_key_close takes less   *)
(* than a tick.                                                            *)
Older(n) == IF n < MAX_AGE THEN n + 1 ELSE n

Tick ==
    /\ pc = "open"
    /\ pending = {} /\ ~TimerExpires
    /\ timer' = IF timer.active THEN [timer EXCEPT !.left = @ - 1] ELSE timer
    /\ pwr_key' = [pwr_key EXCEPT !.age = Older(@)]
    /\ gpio_key' = [gpio_key EXCEPT !.ageDebounce = Older(@), !.ageDither = Older(@)]
    /\ key_status' = [key_status EXCEPT !.ageUpdown = Older(@), !.ageClick = Older(@)]
    /\ sent' = {}
    /\ UNCHANGED <<hwVars, boot, pc, early, held>>

Interrupt == hal_pwrkey_irqhandler \/ \E p \in Pins : hal_gpiokey_irqhandler(p)
Timer == hal_key_debounce_handler \/ hal_key_boot_handler

Next ==
    \/ Interrupt
    \/ Timer
    \/ \E check \in BOOLEAN : hal_key_open(check)
    \/ hal_key_close
    \/ \E k \in Keys : Toggle(k)
    \/ Tick

Spec == Init /\ [][Next]_vars

(* Interrupts are taken, timers expire and time passes.  Nobody has to     *)
(* open or close the driver or to touch a key.  A handler of the timer is  *)
(* enabled exactly when the timer expires and disabled by its own step, so *)
(* that the second conjunct is WF_vars(Timer).                             *)
FairSpec == Spec /\ WF_vars(Interrupt) /\ []<>~TimerExpires /\ WF_vars(Tick)

-----------------------------------------------------------------------------
Events == {"NONE", "DOWN", "UP", "LONGPRESS", "LONGLONGPRESS",
           "INITDOWN", "INITLONGPRESS", "INITLONGLONGPRESS"}

TypeOK ==
    /\ level \in [Keys -> BOOLEAN]
    /\ irq \subseteq Keys /\ pending \subseteq irq
    /\ pwr_key \in [debounce : BOOLEAN, dither : BOOLEAN, pressed : BOOLEAN, age : 0 .. MAX_AGE]
    /\ gpio_key \in [debounce : SUBSET Pins, dither : SUBSET Pins, down : SUBSET Pins,
                     ageDebounce : 0 .. MAX_AGE, ageDither : 0 .. MAX_AGE]
    \* the debounce handler's assertion "Bad gpio_key pin map"
    /\ gpio_key.debounce \cap gpio_key.dither = {}
    /\ gpio_key.down \cap (gpio_key.debounce \cup gpio_key.dither) = {}
    /\ key_status \in [code_down : SUBSET Keys, code_ready : SUBSET Keys, code_click : SUBSET Keys,
                       event : Events, ageUpdown : 0 .. MAX_AGE, ageClick : 0 .. MAX_AGE,
                       cnt_repeat : 0 .. (REPEAT - 1), cnt_click : 0 .. (MAX_CLICK - 1)]
    /\ timer \in [active : BOOLEAN, left : 0 .. INTERVAL]
    /\ pc \in {"closed", "open", "pwr_reset", "pwr_disable", "gpio_reset", "gpio_disable", "stop"}
    /\ {boot, early} \subseteq BOOLEAN
    /\ held \in [Keys -> 0 .. MAX_AGE]

(* A long press is reported for keys all of which the scans have seen      *)
(* pressed for that long without a break, also when a second key joins.    *)
LongPressHeld ==
    /\ TypeOK
    /\ \A e \in sent : e.event = "LONGPRESS" => \A k \in e.code : held[k] >= LONGPRESS

(* Closing leaves no interrupt on and no timer running, although a scan or *)
(* an interrupt may come between any two of its steps.  (Not so during the *)
(* check at boot: a scan after ClosePwrReset finds the power key released  *)
(* and turns all interrupts on.)                                           *)
ClosedQuiet == pc = "closed" /\ ~early => irq = {} /\ ~timer.active

(* A press of a GPIO key that lasts is seen: the scans count the key as    *)
(* down in the end, however it bounced before.  The GPIO keys share the    *)
(* time of debouncing, so that one that bounces for ever would keep the    *)
(* others from being seen: their levels have to last too.                  *)
PressSeen ==
    \A down \in SUBSET Pins : \A p \in down :
        LET lasts == pc = "open" /\ ~boot /\ {q \in Pins : level[q]} = down
        IN  lasts ~> (p \in key_status.code_down \/ ~lasts)

(* When nobody touches the keys any more the driver comes to rest: the     *)
(* gesture is over, the timer is off and every interrupt is on.            *)
AllUp == pc = "open" /\ ~boot /\ \A k \in Keys : ~level[k]
AtRest == key_status.event = "NONE" /\ ~timer.active /\ irq = Keys
ComesToRest == AllUp ~> (AtRest \/ ~AllUp)

-----------------------------------------------------------------------------
(* What the code's comments and assertions say and the model refutes (see  *)
(* Observations in the README).                                            *)

(* What a click count stands for: KEY_DOUBLECLICK_THRESHOLD bounds the     *)
(* time from one click to the next, so that a click that is still counted  *)
(* belongs to a gesture under way.                                         *)
NoStaleClick == key_status.event = "NONE" => key_status.code_click = {}
================================================================================
