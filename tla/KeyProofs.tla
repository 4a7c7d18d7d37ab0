------------------------------ MODULE KeyProofs ------------------------------
(***************************************************************************)
(* Proofs about the key driver and about the way of its events to the      *)
(* application, for any pins, times, counts, events and lengths of the     *)
(* mailbox.                                                                *)
(*                                                                         *)
(* The driver (Key): a long press is reported for keys that were held that *)
(* long (LongPressHeld), and closing leaves nothing on (ClosedQuiet).  No  *)
(* tick passes during hal_key_close, and a scan sets the timer to          *)
(* INTERVAL, so that at most one scan comes between its steps.  CloseInv   *)
(* says for each step what that scan, or an interrupt, may still turn on.  *)
(*                                                                         *)
(* The events (AppKey): their count is compared with the places in the     *)
(* mailbox that hold one (CountDrift).  Two lemmas say how that number     *)
(* changes when a message is inserted somewhere and when the first one is  *)
(* taken; they compare finite sets by a bijection.  The rest is one lemma  *)
(* per step.                                                               *)
(***************************************************************************)
EXTENDS Key, AppKey, ArithmeticTheorems, SequenceTheorems, FiniteSetTheorems,
        FunctionTheorems, TLAPS

(* The driver.                                                             *)

Pwr == [debounce : BOOLEAN, dither : BOOLEAN, pressed : BOOLEAN, age : 0 .. MAX_AGE]
Gpio == [debounce : SUBSET Pins, dither : SUBSET Pins, down : SUBSET Pins,
         ageDebounce : 0 .. MAX_AGE, ageDither : 0 .. MAX_AGE]
Status == [code_down : SUBSET Keys, code_ready : SUBSET Keys, code_click : SUBSET Keys,
           event : Events, ageUpdown : 0 .. MAX_AGE, ageClick : 0 .. MAX_AGE,
           cnt_repeat : 0 .. (REPEAT - 1), cnt_click : 0 .. (MAX_CLICK - 1)]

(* A pin that is being looked at has its interrupt off.                    *)
IrqInv == irq \cap (gpio_key.debounce \cup gpio_key.dither \cup gpio_key.down) = {}

(* During the check at boot no interrupt is on and no gesture is made.     *)
BootInv ==
    /\ boot => irq = {} /\ ~GpioBusy(gpio_key)
    /\ boot => key_status.event \notin {"DOWN", "UP", "LONGPRESS", "LONGLONGPRESS"}
    /\ boot /\ pc \notin {"open", "closed"} => early
    /\ pc = "open" => ~early

(* While the keys of a gesture are down the scans go on, and they have     *)
(* seen each of the keys for as long as the gesture lasts, up to the time  *)
(* since the last scan.                                                    *)
DownInv ==
    key_status.event = "DOWN" /\ pc # "closed" =>
        /\ timer.active
        /\ key_status.code_ready = key_status.code_down
        /\ \A k \in key_status.code_ready :
               key_status.ageUpdown + timer.left <= held[k] + INTERVAL

(* The power key's scan will not turn its interrupt on before time passes. *)
PwrQuiet(k) ==
    /\ k.debounce \/ k.dither => k.age = 0
    /\ k.pressed => k.debounce \/ k.dither

(* Nor will the scan of the pins that may still come.                      *)
GpioQuiet ==
    TimerExpires => /\ gpio_key.down = {}
                    /\ gpio_key.dither = {} \/ gpio_key.ageDither = 0

CloseInv ==
    ~early =>
        /\ pc \in {"pwr_disable", "gpio_reset", "gpio_disable", "stop"} => PwrQuiet(pwr_key)
        /\ pc \in {"gpio_reset", "gpio_disable", "stop", "closed"} => PWR \notin irq
        /\ pc \in {"gpio_disable", "stop"} => GpioQuiet
        /\ pc \in {"stop", "closed"} => irq = {}
        /\ pc = "closed" => ~timer.active

IInv == TypeOK /\ IrqInv /\ BootInv /\ DownInv /\ CloseInv /\ LongPressHeld

LEMMA Times ==
    /\ INTERVAL \in Nat \ {0} /\ REPEAT \in Nat \ {0} /\ MAX_CLICK \in Nat \ {0}
    /\ DBLCLICK \in Nat \ {0} /\ LONGPRESS \in Nat \ {0}
    /\ LONGLONGPRESS \in Nat /\ INIT_DOWN \in Nat /\ INIT_LONGPRESS \in Nat
    /\ INIT_LONGLONGPRESS \in Nat /\ MAX_AGE \in Nat
    /\ LONGPRESS <= MAX_AGE
    /\ PWR \notin Pins /\ PWR \in Keys /\ Pins \subseteq Keys
BY KeyAssumption DEF KeyAssumption, Keys

LEMMA Zeros ==
    0 \in 0 .. MAX_AGE /\ 0 \in 0 .. (REPEAT - 1) /\ 0 \in 0 .. (MAX_CLICK - 1)
BY Times

-----------------------------------------------------------------------------
(* The stages of a gesture.  Each keeps the types; what matters further on *)
(* is when the status says DOWN after it, and which long press it reports. *)

LEMMA UpsEffect ==
    ASSUME NEW s \in Status, NEW code \in SUBSET Keys
    PROVE  /\ Ups(s, code).s \in Status
           /\ Ups(s, code).s.code_down = s.code_down
           /\ Ups(s, code).s.event = "DOWN" =>
                  s.event = "DOWN" /\ s.code_down \subseteq code /\ Ups(s, code).s = s
           /\ \A e \in Ups(s, code).ev : e.event # "LONGPRESS"
<1>1. CASE s.code_down \ code = {}
  <2>1. Ups(s, code) = Stage(s, {})
    BY <1>1 DEF Ups
  <2> QED
    BY <1>1, <2>1 DEF Stage
<1>2. CASE s.code_down \ code # {}
  <2> DEFINE event == CASE Long(s) /\ code \cap s.code_ready = {} -> "NONE"
                        [] s.event = "DOWN" -> "UP"
                        [] OTHER -> s.event
             t == [s EXCEPT !.ageUpdown = 0, !.event = event]
             up == s.code_down \ code
             ev == Each(up, "UP") \cup (IF Long(s) THEN Each(up, "UP_AFTER_LONGPRESS") ELSE {})
  <2>1. Ups(s, code) = Stage(t, ev)
    BY <1>2 DEF Ups
  <2>2. event \in Events /\ event # "DOWN"
    BY DEF Events, Status, Long
  <2>3. \A e \in ev : e.event # "LONGPRESS"
    BY DEF Each, Event
  <2> HIDE DEF event, ev
  <2>4. t \in Status /\ t.code_down = s.code_down /\ t.event = event
    BY <2>2, Zeros DEF Status
  <2> HIDE DEF t
  <2> QED
    BY <2>1, <2>2, <2>3, <2>4 DEF Stage
<1> QED
  BY <1>1, <1>2

(* A status whose count of clicks may have reached the limit.              *)
Counting == [code_down : SUBSET Keys, code_ready : SUBSET Keys, code_click : SUBSET Keys,
             event : Events, ageUpdown : 0 .. MAX_AGE, ageClick : 0 .. MAX_AGE,
             cnt_repeat : 0 .. (REPEAT - 1), cnt_click : 0 .. MAX_CLICK]

LEMMA CountedEffect ==
    ASSUME NEW s \in Status, NEW code \in SUBSET Keys
    PROVE  /\ ClickCounted(s, code) \in Counting
           /\ ClickCounted(s, code).code_down = s.code_down
           /\ ClickCounted(s, code).event = s.event
<1> DEFINE fresh == s.code_click = {} \/ s.code_click # s.code_ready
           again == s.code_down \ code # {} /\ s.code_down = s.code_click
<1>1. s.cnt_click \in 0 .. MAX_CLICK /\ s.cnt_click + 1 \in 0 .. MAX_CLICK
      /\ 0 \in 0 .. MAX_CLICK
  BY Times DEF Status
<1>2. CASE fresh
  <2> DEFINE t == [s EXCEPT !.code_click = s.code_ready, !.cnt_click = 0, !.ageClick = 0]
  <2>1. ClickCounted(s, code) = t
    BY <1>2 DEF ClickCounted
  <2>2. t \in Counting /\ t.code_down = s.code_down /\ t.event = s.event
    BY <1>1, Zeros DEF Counting, Status
  <2> QED
    BY <2>1, <2>2
<1>3. CASE ~fresh /\ again
  <2> DEFINE t == [s EXCEPT !.cnt_click = s.cnt_click + 1, !.ageClick = 0]
  <2>1. ClickCounted(s, code) = t
    BY <1>3 DEF ClickCounted
  <2>2. t \in Counting /\ t.code_down = s.code_down /\ t.event = s.event
    <3>1. PICK n \in 0 .. MAX_CLICK : n = s.cnt_click + 1
      BY <1>1
    <3>2. t = [s EXCEPT !.cnt_click = n, !.ageClick = 0]
      BY <3>1
    <3> QED
      BY <3>2, Zeros DEF Counting, Status
  <2> QED
    BY <2>1, <2>2
<1>4. CASE ~fresh /\ ~again
  <2>1. ClickCounted(s, code) = s
    BY <1>4 DEF ClickCounted
  <2>2. s \in Counting
    BY <1>1 DEF Counting, Status
  <2> QED
    BY <2>1, <2>2
<1> QED
  BY <1>2, <1>3, <1>4

LEMMA ClicksEffect ==
    ASSUME NEW s \in Status, NEW code \in SUBSET Keys
    PROVE  /\ Clicks(s, code).s \in Status
           /\ Clicks(s, code).s.code_down = s.code_down
           /\ Clicks(s, code).s.event = "DOWN" => s.event = "DOWN" /\ Clicks(s, code).s = s
           /\ \A e \in Clicks(s, code).ev : e.event # "LONGPRESS"
<1>1. CASE s.event # "UP"
  <2>1. Clicks(s, code) = Stage(s, {})
    BY <1>1 DEF Clicks
  <2> QED
    BY <1>1, <2>1 DEF Stage
<1>2. CASE s.event = "UP"
  <2> DEFINE c == ClickCounted(s, code)
             flushed == IF s.code_click \notin {{}, s.code_ready}
                        THEN {Event(s.code_click, "CLICK", s.cnt_click)} ELSE {}
             one == {Event(c.code_click, "CLICK", c.cnt_click)}
  <2>1. /\ \A e \in flushed : e.event # "LONGPRESS"
        /\ \A e \in one : e.event # "LONGPRESS"
    BY DEF Event
  <2>2. c \in Counting /\ c.code_down = s.code_down /\ c.event = s.event
    BY CountedEffect
  <2> HIDE DEF c, flushed, one
  <2>3. CASE ClickDue(c)
    <3> DEFINE t == [c EXCEPT !.code_click = {}, !.cnt_click = 0, !.event = "NONE"]
    <3>1. Clicks(s, code) = Stage(t, flushed \cup one)
      BY <1>2, <2>3 DEF Clicks, c, flushed, one
    <3>2. t \in Status /\ t.code_down = s.code_down /\ t.event = "NONE"
      BY <2>2, Zeros DEF Counting, Status, Events
    <3> HIDE DEF t
    <3> QED
      BY <2>1, <3>1, <3>2 DEF Stage
  <2>4. CASE ~ClickDue(c)
    <3>1. Clicks(s, code) = Stage(c, flushed)
      BY <1>2, <2>4 DEF Clicks, c, flushed, one
    <3>2. c.cnt_click \in 0 .. (MAX_CLICK - 1)
      BY <2>2, <2>4, Times DEF ClickDue, Counting
    <3>3. c \in Status
      BY <2>2, <3>2 DEF Counting, Status
    <3> QED
      BY <1>2, <2>1, <2>2, <3>1, <3>3 DEF Stage
  <2> QED
    BY <2>3, <2>4
<1> QED
  BY <1>1, <1>2

LEMMA DownsEffect ==
    ASSUME NEW s \in Status, NEW code \in SUBSET Keys
    PROVE  /\ Downs(s, code).s \in Status
           /\ Downs(s, code).s.code_down = code
           /\ Downs(s, code).s.event = "DOWN" =>
                  \/ /\ Downs(s, code).s.ageUpdown = 0
                     /\ Downs(s, code).s.code_ready = code
                  \/ /\ s.event = "DOWN" /\ code \subseteq s.code_down
                     /\ Downs(s, code).s.ageUpdown = s.ageUpdown
                     /\ Downs(s, code).s.code_ready = s.code_ready
           /\ \A e \in Downs(s, code).ev : e.event # "LONGPRESS"
<1>1. CASE code \ s.code_down = {}
  <2> DEFINE t == [s EXCEPT !.code_down = code]
  <2>1. Downs(s, code) = Stage(t, {})
    BY <1>1 DEF Downs
  <2>2. t \in Status /\ t.code_down = code /\ t.event = s.event
        /\ t.ageUpdown = s.ageUpdown /\ t.code_ready = s.code_ready
    BY DEF Status
  <2> HIDE DEF t
  <2> QED
    BY <1>1, <2>1, <2>2 DEF Stage
<1>2. CASE code \ s.code_down # {}
  <2> DEFINE new == code \ s.code_down
             ready == IF s.event \in {"NONE", "DOWN", "UP"} THEN code ELSE s.code_ready
             event == IF s.event \in {"NONE", "UP"} THEN "DOWN" ELSE s.event
             t == [s EXCEPT !.code_down = code, !.ageUpdown = 0, !.code_ready = ready,
                            !.event = event]
             ev == Each(new, "DOWN") \cup
                   Each(new, IF s.event = "NONE" THEN "FIRST_DOWN" ELSE "CONTINUED_DOWN")
  <2>1. Downs(s, code) = Stage(t, ev)
    BY <1>2 DEF Downs
  <2>2. /\ event \in Events /\ ready \in SUBSET Keys
        /\ event = "DOWN" => ready = code
    BY DEF Events, Status
  <2>3. \A e \in ev : e.event # "LONGPRESS"
    BY DEF Each, Event
  <2> HIDE DEF event, ready, ev
  <2>4. t \in Status /\ t.code_down = code /\ t.event = event /\ t.ageUpdown = 0
        /\ t.code_ready = ready
    BY <2>2, Zeros DEF Status
  <2> HIDE DEF t
  <2> QED
    BY <2>1, <2>2, <2>3, <2>4 DEF Stage
<1> QED
  BY <1>1, <1>2

LEMMA HoldsEffect ==
    ASSUME NEW s \in Status, NEW code \in SUBSET Keys
    PROVE  /\ Holds(s, code).s \in Status
           /\ Holds(s, code).s.event = "DOWN" => Holds(s, code).s = s
           /\ \A e \in Holds(s, code).ev : e.event = "LONGPRESS" =>
                  /\ e.code = s.code_ready /\ s.code_ready \subseteq code
                  /\ s.event = "DOWN" /\ s.ageUpdown >= LONGPRESS
<1> DEFINE beat == s.cnt_repeat + 1
           longlong == s.event = "LONGPRESS" /\ s.ageUpdown >= LONGLONGPRESS
<1>1. CASE s.code_ready \subseteq code /\ s.event = "DOWN" /\ s.ageUpdown >= LONGPRESS
  <2> DEFINE t == [s EXCEPT !.cnt_repeat = 0, !.event = "LONGPRESS"]
  <2>1. Holds(s, code) = Stage(t, {Event(s.code_ready, "LONGPRESS", 0)})
    BY <1>1 DEF Holds, Long
  <2>2. t \in Status /\ t.event = "LONGPRESS"
    BY Zeros DEF Status, Events
  <2>3. \A e \in {Event(s.code_ready, "LONGPRESS", 0)} : e.code = s.code_ready
    BY DEF Event
  <2> HIDE DEF t
  <2> QED
    BY <1>1, <2>1, <2>2, <2>3 DEF Stage
<1>2. CASE s.code_ready \subseteq code /\ Long(s)
  <2> DEFINE cnt == IF beat = REPEAT THEN 0 ELSE beat
             event == IF longlong THEN "LONGLONGPRESS" ELSE s.event
             t == [s EXCEPT !.cnt_repeat = cnt, !.event = event]
             ev == (IF beat = REPEAT THEN {Event(s.code_ready, "REPEAT", 0)} ELSE {}) \cup
                   (IF longlong THEN {Event(s.code_ready, "LONGLONGPRESS", 0)} ELSE {})
  <2>1. Holds(s, code) = Stage(t, ev)
    BY <1>2 DEF Holds, Long
  <2>2. cnt \in 0 .. (REPEAT - 1)
    BY Times DEF Status
  <2>3. event \in Events /\ event # "DOWN"
    BY <1>2 DEF Status, Events, Long
  <2>4. \A e \in ev : e.event # "LONGPRESS"
    BY DEF Event
  <2> HIDE DEF cnt, event, ev
  <2>5. t \in Status /\ t.event = event
    BY <2>2, <2>3 DEF Status
  <2> HIDE DEF t
  <2> QED
    BY <2>1, <2>3, <2>4, <2>5 DEF Stage
<1>3. CASE /\ ~(s.code_ready \subseteq code /\ s.event = "DOWN" /\ s.ageUpdown >= LONGPRESS)
           /\ ~(s.code_ready \subseteq code /\ Long(s))
  <2>1. Holds(s, code) = Stage(s, {})
    BY <1>3 DEF Holds
  <2> QED
    BY <2>1 DEF Stage
<1> QED
  BY <1>1, <1>2, <1>3

(* All four.  When the status says DOWN the gesture is of exactly the keys *)
(* that are down, and it is as old as it was or begins now.                *)
LEMMA GestureEffect ==
    ASSUME NEW s \in Status, NEW code \in SUBSET Keys,
           s.event = "DOWN" => s.code_ready = s.code_down
    PROVE  /\ Gesture(s, code).s \in Status
           /\ Gesture(s, code).s.event = "DOWN" =>
                  /\ Gesture(s, code).s.code_down = code
                  /\ Gesture(s, code).s.code_ready = code
                  /\ \/ Gesture(s, code).s.ageUpdown = 0
                     \/ /\ s.event = "DOWN" /\ s.code_ready = code
                        /\ Gesture(s, code).s.ageUpdown = s.ageUpdown
           /\ \A e \in Gesture(s, code).ev : e.event = "LONGPRESS" =>
                  /\ s.event = "DOWN" /\ s.code_ready = code
                  /\ e.code = code /\ s.ageUpdown >= LONGPRESS
<1>1. PICK u : u = Ups(s, code)
  OBVIOUS
<1>2. PICK c : c = Clicks(u.s, code)
  OBVIOUS
<1>3. PICK d : d = Downs(c.s, code)
  OBVIOUS
<1>4. PICK h : h = Holds(d.s, code)
  OBVIOUS
<1>5. Gesture(s, code) = Stage(h.s, u.ev \cup c.ev \cup d.ev \cup h.ev)
  BY <1>1, <1>2, <1>3, <1>4 DEF Gesture
<1>6. /\ u.s \in Status /\ u.s.code_down = s.code_down
      /\ u.s.event = "DOWN" => s.event = "DOWN" /\ s.code_down \subseteq code /\ u.s = s
      /\ \A e \in u.ev : e.event # "LONGPRESS"
  BY <1>1, UpsEffect
<1>7. /\ c.s \in Status /\ c.s.code_down = u.s.code_down
      /\ c.s.event = "DOWN" => u.s.event = "DOWN" /\ c.s = u.s
      /\ \A e \in c.ev : e.event # "LONGPRESS"
  BY <1>2, <1>6, ClicksEffect
<1>8. /\ d.s \in Status /\ d.s.code_down = code
      /\ d.s.event = "DOWN" =>
             \/ d.s.ageUpdown = 0 /\ d.s.code_ready = code
             \/ /\ c.s.event = "DOWN" /\ code \subseteq c.s.code_down
                /\ d.s.ageUpdown = c.s.ageUpdown /\ d.s.code_ready = c.s.code_ready
      /\ \A e \in d.ev : e.event # "LONGPRESS"
  BY <1>3, <1>7, DownsEffect
<1>9. /\ h.s \in Status
      /\ h.s.event = "DOWN" => h.s = d.s
      /\ \A e \in h.ev : e.event = "LONGPRESS" =>
             /\ e.code = d.s.code_ready /\ d.s.code_ready \subseteq code
             /\ d.s.event = "DOWN" /\ d.s.ageUpdown >= LONGPRESS
  BY <1>4, <1>8, HoldsEffect
<1>10. d.s.event = "DOWN" =>
           /\ d.s.code_ready = code
           /\ \/ d.s.ageUpdown = 0
              \/ s.event = "DOWN" /\ s.code_ready = code /\ d.s.ageUpdown = s.ageUpdown
  <2>1. CASE d.s.event = "DOWN" /\ ~(d.s.ageUpdown = 0 /\ d.s.code_ready = code)
    <3>1. /\ c.s.event = "DOWN" /\ code \subseteq c.s.code_down
          /\ d.s.ageUpdown = c.s.ageUpdown /\ d.s.code_ready = c.s.code_ready
      BY <1>8, <2>1
    <3>2. s.event = "DOWN" /\ s.code_down \subseteq code /\ c.s = s
      BY <1>6, <1>7, <3>1
    <3>3. s.code_down = code
      BY <3>1, <3>2
    <3> QED
      BY <3>1, <3>2, <3>3
  <2> QED
    BY <2>1
<1>11. LONGPRESS \in Nat \ {0}
  BY Times
<1>12. ASSUME NEW e \in h.ev, e.event = "LONGPRESS"
       PROVE  s.event = "DOWN" /\ s.code_ready = code /\ e.code = code /\ s.ageUpdown >= LONGPRESS
  <2>1. e.code = d.s.code_ready /\ d.s.event = "DOWN" /\ d.s.ageUpdown >= LONGPRESS
    BY <1>9, <1>12
  <2>2. d.s.ageUpdown # 0
    BY <1>11, <2>1
  <2> QED
    BY <1>10, <2>1, <2>2
<1>13. Gesture(s, code).s = h.s /\ Gesture(s, code).ev = u.ev \cup c.ev \cup d.ev \cup h.ev
  BY <1>5 DEF Stage
<1>14. h.s.event = "DOWN" => d.s.event = "DOWN" /\ h.s = d.s
  BY <1>9
<1> QED
  BY <1>6, <1>7, <1>8, <1>9, <1>10, <1>12, <1>13, <1>14

-----------------------------------------------------------------------------
(* The invariant in the first state and in each step.                      *)

Timers == [active : BOOLEAN, left : 0 .. INTERVAL]
Places == {"closed", "open", "pwr_reset", "pwr_disable", "gpio_reset", "gpio_disable", "stop"}

Types ==
    /\ level \in [Keys -> BOOLEAN]
    /\ irq \subseteq Keys /\ pending \subseteq irq
    /\ pwr_key \in Pwr /\ gpio_key \in Gpio /\ key_status \in Status
    /\ gpio_key.debounce \cap gpio_key.dither = {}
    /\ gpio_key.down \cap (gpio_key.debounce \cup gpio_key.dither) = {}
    /\ timer \in Timers
    /\ pc \in Places
    /\ boot \in BOOLEAN /\ early \in BOOLEAN
    /\ held \in [Keys -> 0 .. MAX_AGE]

LEMMA TypeOKIsTypes == TypeOK <=> Types
BY Zenon DEF TypeOK, Types, Pwr, Gpio, Status, Timers, Places

LEMMA TypeOKIsTypesNext == TypeOK' <=> Types'
BY Zenon DEF TypeOK, Types, Pwr, Gpio, Status, Timers, Places

(* No long press is among the events.                                      *)
LEMMA NoneSent == ASSUME Types', sent' = {} PROVE LongPressHeld'
BY TypeOKIsTypesNext DEF LongPressHeld

LEMMA Initial == NoPwr \in Pwr /\ NoGpio \in Gpio /\ NoStatus \in Status /\ Off \in Timers
<1>1. MAX_AGE \in 0 .. MAX_AGE /\ 0 \in 0 .. INTERVAL
  BY Times
<1>2. NoPwr \in Pwr
  BY <1>1 DEF NoPwr, Pwr
<1>3. NoGpio \in Gpio
  BY <1>1 DEF NoGpio, Gpio
<1>4. NoStatus \in Status
  BY <1>1, Zeros DEF NoStatus, Status, Events
<1>5. Off \in Timers
  BY <1>1 DEF Off, Timers
<1> QED
  BY <1>2, <1>3, <1>4, <1>5

LEMMA InitIInv == Init => IInv
<1> SUFFICES ASSUME Init PROVE IInv
  OBVIOUS
<1>1. Types
  BY Initial, Zeros DEF Init, Types, Places, NoGpio
<1>2. LongPressHeld
  BY <1>1, TypeOKIsTypes DEF LongPressHeld, Init
<1>3. IrqInv /\ BootInv /\ DownInv /\ CloseInv
  BY DEF Init, IrqInv, BootInv, DownInv, CloseInv, NoStatus, Off
<1> QED
  BY <1>1, <1>2, <1>3, TypeOKIsTypes DEF IInv

(* A key is pressed or released.                                           *)
LEMMA ToggleIInv == ASSUME IInv, NEW k \in Keys, Toggle(k) PROVE IInv'
<1>1. Types
  BY TypeOKIsTypes DEF IInv
<1>2. Types'
  <2>1. level' \in [Keys -> BOOLEAN]
    BY <1>1 DEF Types, Toggle
  <2>2. irq' \subseteq Keys /\ pending' \subseteq irq'
    BY <1>1 DEF Types, Toggle
  <2> QED
    BY <1>1, <2>1, <2>2, Zenon DEF Types, Toggle, keyVars
<1>3. IrqInv' /\ BootInv' /\ DownInv' /\ CloseInv'
  BY Zenon DEF IInv, Toggle, keyVars, IrqInv, BootInv, DownInv, CloseInv, GpioQuiet, TimerExpires
<1>4. LongPressHeld'
  BY <1>2, NoneSent DEF Toggle
<1> QED
  BY <1>2, <1>3, <1>4, TypeOKIsTypesNext DEF IInv

(* The timer is started unless it runs.                                    *)
LEMMA RestartEffect ==
    ASSUME Types, hal_key_debounce_timer_restart
    PROVE  /\ timer' \in Timers
           /\ timer.active => timer' = timer
           /\ ~timer.active => timer'.left = INTERVAL
<1>1. INTERVAL \in 0 .. INTERVAL
  BY Times
<1>2. CASE timer.active
  BY <1>2 DEF Types, hal_key_debounce_timer_restart
<1>3. CASE ~timer.active
  BY <1>1, <1>3 DEF Types, hal_key_debounce_timer_restart, Timers
<1> QED
  BY <1>2, <1>3

(* A handler that starts the timer unless it runs and leaves the gesture   *)
(* alone.                                                                  *)
LEMMA RestartKeepsDown ==
    ASSUME Types, DownInv, hal_key_debounce_timer_restart, UNCHANGED <<key_status, pc, held>>
    PROVE  DownInv'
BY RestartEffect DEF DownInv

(* After it the timer expires only if it was about to.                     *)
LEMMA RestartExpires ==
    ASSUME Types, hal_key_debounce_timer_restart, UNCHANGED pc, TimerExpires'
    PROVE  TimerExpires
<1>1. INTERVAL # 0
  BY Times
<1> QED
  BY <1>1, RestartEffect DEF TimerExpires

LEMMA PwrIrqIInv == ASSUME IInv, hal_pwrkey_irqhandler PROVE IInv'
<1>1. Types
  BY TypeOKIsTypes DEF IInv
<1>2. /\ PWR \in irq /\ irq' = irq \ {PWR} /\ pending' = pending \ {PWR}
      /\ hal_key_debounce_timer_restart /\ sent' = {}
      /\ UNCHANGED <<level, gpio_key, key_status, boot, pc, early, held>>
  BY <1>1 DEF Types, hal_pwrkey_irqhandler, Disable
<1>3. pwr_key' \in Pwr /\ PwrQuiet(pwr_key')
  <2>1. PICK k \in Pwr : k = pwr_key
    BY <1>1 DEF Types
  <2>2. PICK l \in BOOLEAN : l = level[PWR]
    BY <1>1, Times DEF Types
  <2>3. pwr_key' = [k EXCEPT !.pressed = l, !.debounce = k.debounce \/ l, !.dither = k.dither \/ ~l,
                             !.age = 0]
    BY <2>1, <2>2 DEF hal_pwrkey_irqhandler, PwrIrqState
  <2>4. PICK b \in BOOLEAN, d \in BOOLEAN : b = (k.debounce \/ l) /\ d = (k.dither \/ ~l)
    BY Zenon
  <2>5. pwr_key' = [k EXCEPT !.pressed = l, !.debounce = b, !.dither = d, !.age = 0]
    BY <2>3, <2>4
  <2>6. l => b \/ d
    BY <2>4
  <2> QED
    BY <2>5, <2>6, Zeros DEF Pwr, PwrQuiet
<1>4. Types'
  BY <1>1, <1>2, <1>3, RestartEffect DEF Types
<1>5. IrqInv' /\ BootInv'
  BY <1>2 DEF IInv, IrqInv, BootInv
<1>6. DownInv'
  BY <1>1, <1>2, RestartKeepsDown DEF IInv
<1>7. CloseInv'
  <2>1. GpioQuiet => GpioQuiet'
    BY <1>1, <1>2, RestartExpires DEF GpioQuiet
  <2>2. ~early => pc # "closed"
    BY <1>2 DEF IInv, CloseInv
  <2> QED
    BY <1>2, <1>3, <2>1, <2>2 DEF IInv, CloseInv
<1>8. LongPressHeld'
  BY <1>2, <1>4, NoneSent
<1> QED
  BY <1>4, <1>5, <1>6, <1>7, <1>8, TypeOKIsTypesNext DEF IInv

LEMMA GpioIrqIInv == ASSUME IInv, NEW p \in Pins, hal_gpiokey_irqhandler(p) PROVE IInv'
<1>1. Types
  BY TypeOKIsTypes DEF IInv
<1>2. /\ p \in irq /\ irq' = irq \ {p} /\ pending' = pending \ {p}
      /\ hal_key_debounce_timer_restart /\ sent' = {}
      /\ UNCHANGED <<level, pwr_key, key_status, boot, pc, early, held>>
  BY <1>1 DEF Types, hal_gpiokey_irqhandler, Disable
<1>3. PICK g \in Gpio : g = gpio_key
  BY <1>1 DEF Types
<1>4. /\ g.debounce \cap g.dither = {} /\ g.down \cap (g.debounce \cup g.dither) = {}
      /\ p \notin g.debounce \cup g.dither \cup g.down
  BY <1>1, <1>2, <1>3 DEF Types, IInv, IrqInv
<1>5. /\ gpio_key' \in Gpio /\ gpio_key'.down = g.down
      /\ gpio_key'.debounce \cap gpio_key'.dither = {}
      /\ gpio_key'.debounce \cup gpio_key'.dither = g.debounce \cup g.dither \cup {p}
      /\ \/ gpio_key'.dither = g.dither /\ gpio_key'.ageDither = g.ageDither
         \/ gpio_key'.ageDither = 0
  <2>1. CASE level[p]
    <3>1. gpio_key' = [g EXCEPT !.debounce = g.debounce \cup {p}, !.ageDebounce = 0]
      BY <1>3, <2>1 DEF hal_gpiokey_irqhandler
    <3> QED
      BY <1>4, <3>1, Zeros DEF Gpio
  <2>2. CASE ~level[p]
    <3>1. gpio_key' = [g EXCEPT !.dither = g.dither \cup {p}, !.ageDither = 0]
      BY <1>3, <2>2 DEF hal_gpiokey_irqhandler
    <3> QED
      BY <1>4, <3>1, Zeros DEF Gpio
  <2> QED
    BY <2>1, <2>2
<1>6. Types'
  BY <1>1, <1>2, <1>4, <1>5, RestartEffect DEF Types
<1>7. IrqInv'
  BY <1>2, <1>3, <1>5 DEF IInv, IrqInv
<1>8. BootInv'
  <2>1. ~boot
    BY <1>2 DEF IInv, BootInv
  <2> QED
    BY <1>2, <2>1 DEF IInv, BootInv
<1>9. DownInv'
  BY <1>1, <1>2, RestartKeepsDown DEF IInv
<1>10. CloseInv'
  <2>1. GpioQuiet => GpioQuiet'
    BY <1>1, <1>2, <1>3, <1>5, RestartExpires DEF GpioQuiet
  <2>2. ~early => pc # "closed"
    BY <1>2 DEF IInv, CloseInv
  <2> QED
    BY <1>2, <2>1, <2>2 DEF IInv, CloseInv
<1>11. LongPressHeld'
  BY <1>2, <1>6, NoneSent
<1> QED
  BY <1>6, <1>7, <1>8, <1>9, <1>10, <1>11, TypeOKIsTypesNext DEF IInv

-----------------------------------------------------------------------------
(* The scans.                                                              *)
LEMMA PwrAfterFields ==
    \A k, down, enable : /\ PwrAfter(k, down, enable).key = k
                         /\ PwrAfter(k, down, enable).down = down
                         /\ PwrAfter(k, down, enable).enable = enable
BY DEF PwrAfter

LEMMA PwrScanEffect ==
    ASSUME Types
    PROVE  /\ PwrScan.key \in Pwr /\ PwrScan.down \in BOOLEAN /\ PwrScan.enable \in BOOLEAN
           /\ PwrQuiet(pwr_key) => ~PwrScan.enable /\ PwrQuiet(PwrScan.key)
<1>1. PICK k \in Pwr : k = pwr_key
  BY DEF Types
<1>2. PICK l \in BOOLEAN : l = level[PWR]
  BY Times DEF Types
<1>3. /\ k.age >= DEBOUNCE => k.age # 0 /\ ~(k.age < DEBOUNCE)
      /\ k.age >= DITHER => k.age # 0
      /\ k.age < DEBOUNCE => ~(k.age >= DEBOUNCE)
      /\ k.age >= DEBOUNCE \/ k.age < DEBOUNCE
  BY Times DEF DEBOUNCE, DITHER, Pwr
<1> SUFFICES \E n \in Pwr, d \in BOOLEAN, e \in BOOLEAN :
                 PwrScan = PwrAfter(n, d, e) /\ (PwrQuiet(k) => ~e /\ PwrQuiet(n))
  <2>1. SUFFICES ASSUME NEW n \in Pwr, NEW d \in BOOLEAN, NEW e \in BOOLEAN,
                        PwrScan = PwrAfter(n, d, e), PwrQuiet(k) => ~e /\ PwrQuiet(n)
                 PROVE  /\ PwrScan.key \in Pwr /\ PwrScan.down \in BOOLEAN
                        /\ PwrScan.enable \in BOOLEAN
                        /\ PwrQuiet(k) => ~PwrScan.enable /\ PwrQuiet(PwrScan.key)
    BY <1>1
  <2>2. PwrScan.key = n /\ PwrScan.down = d /\ PwrScan.enable = e
    BY <2>1, PwrAfterFields
  <2> QED
    BY <2>1, <2>2, Zenon
<1>4. CASE k.debounce /\ l /\ k.age >= DEBOUNCE
  <2> DEFINE n == [k EXCEPT !.debounce = FALSE, !.dither = FALSE, !.pressed = TRUE]
  <2>1. PwrScan = PwrAfter(n, TRUE, FALSE)
    BY <1>1, <1>2, <1>3, <1>4, Zenon DEF PwrScan
  <2>2. n \in Pwr
    BY Zeros DEF Pwr
  <2>3. ~PwrQuiet(k)
    BY <1>3, <1>4, Zenon DEF PwrQuiet
  <2> HIDE DEF n
  <2> QED
    BY <2>1, <2>2, <2>3, Zenon
<1>5. CASE k.debounce /\ l /\ k.age < DEBOUNCE
  <2> DEFINE n == [k EXCEPT !.dither = FALSE, !.pressed = TRUE]
  <2>1. PwrScan = PwrAfter(n, FALSE, FALSE)
    BY <1>1, <1>2, <1>3, <1>5, Zenon DEF PwrScan
  <2>2. n \in Pwr
    BY Zeros DEF Pwr
  <2>3. PwrQuiet(k) => PwrQuiet(n)
    BY <1>5 DEF Pwr, PwrQuiet
  <2> HIDE DEF n
  <2> QED
    BY <2>1, <2>2, <2>3, Zenon
<1>6. CASE k.debounce /\ ~l
  <2> DEFINE n == [k EXCEPT !.debounce = FALSE, !.dither = TRUE, !.pressed = FALSE, !.age = 0]
  <2>1. PwrScan = PwrAfter(n, FALSE, FALSE)
    BY <1>1, <1>2, <1>3, <1>6, Zenon DEF PwrScan
  <2>2. n \in Pwr
    BY Zeros DEF Pwr
  <2>3. PwrQuiet(k) => PwrQuiet(n)
    BY <1>6 DEF Pwr, PwrQuiet
  <2> HIDE DEF n
  <2> QED
    BY <2>1, <2>2, <2>3, Zenon
<1>7. CASE ~k.debounce /\ k.dither /\ k.age >= DITHER
  <2> DEFINE n == [k EXCEPT !.dither = FALSE, !.pressed = FALSE]
  <2>1. PwrScan = PwrAfter(n, FALSE, TRUE)
    BY <1>1, <1>2, <1>3, <1>7, Zenon DEF PwrScan
  <2>2. n \in Pwr
    BY Zeros DEF Pwr
  <2>3. ~PwrQuiet(k)
    BY <1>3, <1>7, Zenon DEF PwrQuiet
  <2> HIDE DEF n
  <2> QED
    BY <2>1, <2>2, <2>3, Zenon
<1>8. CASE ~k.debounce /\ ~k.dither /\ k.pressed
  <2> DEFINE n == [k EXCEPT !.pressed = l]
  <2>1. PwrScan = PwrAfter(n, l, ~l)
    BY <1>1, <1>2, <1>3, <1>8, Zenon DEF PwrScan
  <2>2. n \in Pwr
    BY Zeros DEF Pwr
  <2>3. ~PwrQuiet(k)
    BY <1>3, <1>8, Zenon DEF PwrQuiet
  <2> HIDE DEF n
  <2> QED
    BY <2>1, <2>2, <2>3, Zenon
<1>9. CASE ~k.debounce /\ ~(k.dither /\ k.age >= DITHER) /\ ~(~k.dither /\ k.pressed)
  <2> DEFINE n == k
  <2>1. PwrScan = PwrAfter(n, FALSE, FALSE)
    BY <1>1, <1>2, <1>3, <1>9, Zenon DEF PwrScan
  <2>2. n \in Pwr
    BY Zeros DEF Pwr
  <2>3. PwrQuiet(k) => PwrQuiet(n)
    BY <1>9 DEF Pwr, PwrQuiet
  <2> HIDE DEF n
  <2> QED
    BY <2>1, <2>2, <2>3, Zenon
<1> QED
  BY <1>3, <1>4, <1>5, <1>6, <1>7, <1>8, <1>9, Zenon

(* The pins that a scan is done with are in none of its maps afterwards.   *)
LEMMA GpioScanEffect ==
    ASSUME Types
    PROVE  /\ GpioScan \in Gpio
           /\ GpioScan.debounce \cap GpioScan.dither = {}
           /\ GpioScan.down \cap (GpioScan.debounce \cup GpioScan.dither) = {}
           /\ Settled \cup Released \subseteq Pins
           /\ GpioScan.debounce \cup GpioScan.dither \cup GpioScan.down \subseteq
                  (gpio_key.debounce \cup gpio_key.dither \cup gpio_key.down)
                      \ (Settled \cup Released)
           /\ Pressed(gpio_key.down) \cup Debounced \subseteq Pins
<1>1. PICK g \in Gpio : g = gpio_key
  BY DEF Types
<1>2. g.debounce \cap g.dither = {} /\ g.down \cap (g.debounce \cup g.dither) = {}
  BY <1>1 DEF Types
<1>3. g.debounce \subseteq Pins /\ g.dither \subseteq Pins /\ g.down \subseteq Pins
  BY DEF Gpio
<1>4. PICK settled : settled = Settled /\ settled \subseteq g.dither
  <2>1. Settled \subseteq g.dither
    BY <1>1 DEF Settled
  <2> QED
    BY <2>1, Zenon
<1>5. PICK released : released = Released /\ released \subseteq g.down
  BY <1>1 DEF Released
<1>6. PICK debounced : /\ debounced = Debounced /\ debounced \subseteq g.debounce
                       /\ debounced \cap Bounced = {}
  <2>1. Debounced \subseteq g.debounce /\ Debounced \cap Bounced = {}
    BY <1>1 DEF Debounced, Bounced, Pressed
  <2> QED
    BY <2>1, Zenon
<1>7. PICK bounced : /\ bounced = Bounced /\ bounced \subseteq g.debounce
                     /\ bounced \cap debounced = {}
  <2>1. Bounced \subseteq g.debounce /\ Bounced \cap debounced = {}
    BY <1>1, <1>6 DEF Bounced
  <2> QED
    BY <2>1, Zenon
<1>8. GpioScan = [g EXCEPT !.debounce = g.debounce \ (debounced \cup bounced),
                           !.dither = (g.dither \ settled) \cup bounced,
                           !.down = (g.down \ released) \cup debounced]
  BY <1>1, <1>4, <1>5, <1>6, <1>7 DEF GpioScan
<1>9. /\ GpioScan \in Gpio
      /\ GpioScan.debounce = g.debounce \ (debounced \cup bounced)
      /\ GpioScan.dither = (g.dither \ settled) \cup bounced
      /\ GpioScan.down = (g.down \ released) \cup debounced
  BY <1>3, <1>4, <1>5, <1>6, <1>7, <1>8 DEF Gpio
<1>10. Pressed(gpio_key.down) \subseteq g.down
  BY <1>1 DEF Pressed
<1> QED
  BY <1>1, <1>2, <1>3, <1>4, <1>5, <1>6, <1>7, <1>9, <1>10

LEMMA EarlierCounts ==
    ASSUME NEW n \in 0 .. MAX_AGE
    PROVE  /\ Earlier(n) \in 0 .. MAX_AGE
           /\ \A m \in 0 .. MAX_AGE : m <= n + INTERVAL => m <= Earlier(n)
BY Times DEF Earlier

LEMMA ScanIInv == ASSUME IInv, hal_key_debounce_handler PROVE IInv'
<1>1. Types
  BY TypeOKIsTypes DEF IInv
<1>2. PICK pwr : pwr = PwrScan
  OBVIOUS
<1>3. PICK on : on = IF pwr.enable THEN {PWR} ELSE {}
  OBVIOUS
<1>4. PICK code : code = Pressed(gpio_key.down) \cup Debounced \cup (IF pwr.down THEN {PWR} ELSE {})
  OBVIOUS
<1>5. PICK g : g = Gesture(key_status, code)
  OBVIOUS
<1>6. /\ TimerExpires /\ ~boot
      /\ pwr_key' = pwr.key /\ gpio_key' = GpioScan
      /\ key_status' = g.s /\ sent' = g.ev
      /\ irq' = irq \cup Settled \cup Released \cup on
      /\ pending' \subseteq irq' \/ ~(pending \subseteq irq)
      /\ timer' = IF ScanAgain(pwr_key', gpio_key', key_status')
                  THEN [active |-> TRUE, left |-> INTERVAL] ELSE Off
      /\ held' = [k \in Keys |-> IF k \in code THEN Earlier(held[k]) ELSE 0]
      /\ UNCHANGED <<level, boot, pc, early>>
  BY <1>2, <1>3, <1>4, <1>5 DEF hal_key_debounce_handler, Enable
<1>7. /\ pwr.key \in Pwr /\ on \subseteq {PWR}
      /\ PwrQuiet(pwr_key) => on = {} /\ PwrQuiet(pwr.key)
  BY <1>1, <1>2, <1>3, PwrScanEffect
<1>8. code \in SUBSET Keys
  BY <1>1, <1>4, GpioScanEffect, Times
<1>9. key_status \in Status /\ (key_status.event = "DOWN" => key_status.code_ready = key_status.code_down)
  BY <1>1, <1>6 DEF Types, IInv, DownInv, TimerExpires
<1>10. /\ g.s \in Status
       /\ g.s.event = "DOWN" =>
              /\ g.s.code_down = code /\ g.s.code_ready = code
              /\ \/ g.s.ageUpdown = 0
                 \/ /\ key_status.event = "DOWN" /\ key_status.code_ready = code
                    /\ g.s.ageUpdown = key_status.ageUpdown
       /\ \A e \in g.ev : e.event = "LONGPRESS" =>
              /\ key_status.event = "DOWN" /\ key_status.code_ready = code
              /\ e.code = code /\ key_status.ageUpdown >= LONGPRESS
  BY <1>5, <1>8, <1>9, GestureEffect
<1>11. timer' \in Timers /\ ~TimerExpires'
       /\ (key_status'.event = "DOWN" => timer'.active /\ timer'.left = INTERVAL)
  <2>1. INTERVAL \in 0 .. INTERVAL /\ INTERVAL # 0
    BY Times
  <2>2. CASE ScanAgain(pwr_key', gpio_key', key_status')
    <3>1. timer' = [active |-> TRUE, left |-> INTERVAL]
      BY <1>6, <2>2
    <3> QED
      BY <2>1, <3>1 DEF Timers, TimerExpires
  <2>3. CASE ~ScanAgain(pwr_key', gpio_key', key_status')
    <3>1. timer' = Off
      BY <1>6, <2>3
    <3>2. key_status'.event = "NONE"
      BY <2>3 DEF ScanAgain
    <3> QED
      BY <3>1, <3>2, Initial DEF Off, TimerExpires
  <2> QED
    BY <2>2, <2>3
<1>12. /\ held' \in [Keys -> 0 .. MAX_AGE]
       /\ \A k \in code : held'[k] = Earlier(held[k])
  <2>1. \A k \in Keys : held[k] \in 0 .. MAX_AGE
    BY <1>1 DEF Types
  <2>2. \A k \in Keys : Earlier(held[k]) \in 0 .. MAX_AGE
    BY <2>1, EarlierCounts
  <2> QED
    BY <1>6, <1>8, <2>2, Zeros
<1>13. Types'
  <2>1. irq' \subseteq Keys /\ pending' \subseteq irq'
    BY <1>1, <1>6, <1>7, GpioScanEffect, Times DEF Types
  <2>2. /\ gpio_key' \in Gpio
        /\ gpio_key'.debounce \cap gpio_key'.dither = {}
        /\ gpio_key'.down \cap (gpio_key'.debounce \cup gpio_key'.dither) = {}
    BY <1>1, <1>6, GpioScanEffect
  <2>3. pwr_key' \in Pwr /\ key_status' \in Status
    BY <1>6, <1>7, <1>10
  <2>4. /\ level' \in [Keys -> BOOLEAN] /\ pc' \in Places
        /\ boot' \in BOOLEAN /\ early' \in BOOLEAN
    BY <1>1, <1>6 DEF Types
  <2> QED
    BY <1>11, <1>12, <2>1, <2>2, <2>3, <2>4 DEF Types
<1>14. IrqInv'
  BY <1>1, <1>6, <1>7, GpioScanEffect, Times DEF IInv, IrqInv, Types, Gpio
<1>15. BootInv'
  BY <1>6 DEF IInv, BootInv
<1>16. ASSUME key_status.event = "DOWN", key_status.code_ready = code
       PROVE  \A k \in code : key_status.ageUpdown <= held'[k]
  <2>1. ASSUME NEW k \in code PROVE key_status.ageUpdown <= held'[k]
    <3>1. key_status.ageUpdown + timer.left <= held[k] + INTERVAL /\ timer.left = 0
      BY <1>6, <1>16 DEF IInv, DownInv, TimerExpires
    <3>2. held[k] \in 0 .. MAX_AGE /\ key_status.ageUpdown \in 0 .. MAX_AGE
      BY <1>1, <1>8 DEF Types, Status
    <3>3. key_status.ageUpdown <= held[k] + INTERVAL
      BY <3>1, <3>2
    <3> QED
      BY <1>12, <3>2, <3>3, EarlierCounts
  <2> QED
    BY <2>1
<1>17. DownInv'
  <2>1. SUFFICES ASSUME key_status'.event = "DOWN", NEW k \in code
                 PROVE  key_status'.ageUpdown + timer'.left <= held'[k] + INTERVAL
    BY <1>6, <1>10, <1>11 DEF DownInv
  <2>2. held'[k] \in 0 .. MAX_AGE /\ key_status'.ageUpdown \in 0 .. MAX_AGE
    BY <1>8, <1>13 DEF Types, Status
  <2>3. key_status'.ageUpdown <= held'[k]
    BY <1>6, <1>10, <1>16, <2>1, <2>2
  <2> QED
    BY <1>11, <2>1, <2>2, <2>3, Times
<1>18. CloseInv'
  <2>1. GpioQuiet => Settled \cup Released = {}
    BY <1>6, Times DEF GpioQuiet, Settled, Released, DITHER
  <2>2. PWR \notin irq /\ on = {} => PWR \notin irq'
    BY <1>1, <1>6, GpioScanEffect, Times
  <2>3. pc # "closed" /\ GpioQuiet'
    BY <1>6, <1>11 DEF TimerExpires, GpioQuiet
  <2>4. irq = {} /\ GpioQuiet /\ on = {} => irq' = {}
    BY <1>6, <2>1
  <2> QED
    BY <1>6, <1>7, <2>2, <2>3, <2>4 DEF IInv, CloseInv
<1>19. LongPressHeld'
  <2>1. ASSUME NEW e \in sent', e.event = "LONGPRESS", NEW k \in e.code
        PROVE  held'[k] >= LONGPRESS
    <3>1. /\ key_status.event = "DOWN" /\ key_status.code_ready = code
          /\ e.code = code /\ key_status.ageUpdown >= LONGPRESS
      BY <1>6, <1>10, <2>1
    <3>2. key_status.ageUpdown <= held'[k]
      BY <1>16, <3>1
    <3>3. held'[k] \in 0 .. MAX_AGE /\ key_status.ageUpdown \in 0 .. MAX_AGE
      BY <1>1, <1>8, <1>12, <3>1 DEF Types, Status
    <3> QED
      BY <3>1, <3>2, <3>3, Times
  <2> QED
    BY <1>13, <2>1, TypeOKIsTypesNext DEF LongPressHeld
<1> QED
  BY <1>13, <1>14, <1>15, <1>17, <1>18, <1>19, TypeOKIsTypesNext DEF IInv

(* The check at boot: no gesture, and no interrupt before its last scan.   *)
Gestures == {"DOWN", "UP", "LONGPRESS", "LONGLONGPRESS"}

LEMMA BootStepEffect ==
    ASSUME NEW s \in Status, s.event \notin Gestures
    PROVE  BootStep(s) \in Events \ Gestures
BY DEF BootStep, Status, Events, Gestures

LEMMA BootScanIInv == ASSUME IInv, hal_key_boot_handler PROVE IInv'
<1>1. Types
  BY TypeOKIsTypes DEF IInv
<1>2. PICK pwr : pwr = PwrScan
  OBVIOUS
<1>3. PICK s : s = IF pwr_key.debounce /\ ~pwr.key.debounce /\ pwr.down
                   THEN [key_status EXCEPT !.ageUpdown = 0] ELSE key_status
  OBVIOUS
<1>4. PICK event : event = IF pwr.key.pressed THEN BootStep(s) ELSE s.event
  OBVIOUS
<1>5. /\ TimerExpires /\ boot
      /\ UNCHANGED <<level, gpio_key, pc, early, held>>
  BY DEF hal_key_boot_handler
<1>6. /\ irq = {} /\ pending = {} /\ ~GpioBusy(gpio_key)
      /\ key_status \in Status /\ key_status.event \notin Gestures
      /\ pc # "closed" /\ (pc = "open" \/ early)
  BY <1>1, <1>5 DEF Types, IInv, BootInv, TimerExpires, Gestures
<1>7. s \in Status /\ s.event \notin Gestures
  BY <1>3, <1>6, Zeros DEF Status
<1>8. event \in Events \ Gestures
  BY <1>4, <1>7, BootStepEffect DEF Status
<1>9. pwr.key \in Pwr
  BY <1>1, <1>2, PwrScanEffect
<1>10. CASE PwrBusy(pwr.key)
  <2>1. /\ pwr_key' = pwr.key /\ key_status' = [s EXCEPT !.event = event]
        /\ sent' = IF event # s.event THEN {Event({PWR}, event, 0)} ELSE {}
        /\ timer' = [active |-> TRUE, left |-> INTERVAL]
        /\ UNCHANGED <<irq, pending, boot>>
    BY <1>2, <1>3, <1>4, <1>10 DEF hal_key_boot_handler
  <2>2. key_status' \in Status /\ key_status'.event = event
    BY <1>7, <1>8, <2>1 DEF Status
  <2>3. timer' \in Timers
    <3>1. INTERVAL \in 0 .. INTERVAL
      BY Times
    <3> QED
      BY <2>1, <3>1 DEF Timers
  <2>4. Types'
    BY <1>1, <1>5, <1>9, <2>1, <2>2, <2>3 DEF Types
  <2>5. IrqInv' /\ BootInv' /\ DownInv' /\ CloseInv'
    <3>1. IrqInv' /\ CloseInv'
      BY <1>5, <1>6, <2>1 DEF IrqInv, CloseInv
    <3>2. key_status'.event \notin Gestures
      BY <1>8, <2>2
    <3>3. DownInv'
      BY <3>2 DEF DownInv, Gestures
    <3>4. BootInv'
      BY <1>5, <2>1, <3>2 DEF IInv, BootInv, Gestures
    <3> QED
      BY <3>1, <3>3, <3>4
  <2>6. LongPressHeld'
    <3>1. \A e \in sent' : e.event # "LONGPRESS"
      BY <1>8, <2>1 DEF Event, Gestures
    <3> QED
      BY <2>4, <3>1, TypeOKIsTypesNext DEF LongPressHeld
  <2> QED
    BY <2>4, <2>5, <2>6, TypeOKIsTypesNext DEF IInv
<1>11. CASE ~PwrBusy(pwr.key)
  <2> DEFINE ev == {Event({PWR}, "INITFINISHED", 0)} \cup
                   (IF s.event \in {"NONE", "INITDOWN"} THEN {Event({PWR}, "INITUP", 0)} ELSE {})
  <2>1. /\ pwr_key' = NoPwr /\ key_status' = NoStatus /\ timer' = Off
        /\ sent' = ev /\ Enable(Keys) /\ boot' = FALSE
    BY <1>2, <1>3, <1>4, <1>11 DEF hal_key_boot_handler
  <2>2. irq' = Keys /\ pending' \subseteq Keys
    BY <1>6, <2>1 DEF Enable
  <2>3. Types'
    BY <1>1, <1>5, <2>1, <2>2, Initial DEF Types
  <2>4. IrqInv' /\ BootInv' /\ DownInv' /\ CloseInv'
    <3>1. IrqInv' /\ CloseInv'
      BY <1>5, <1>6 DEF IrqInv, CloseInv, GpioBusy
    <3>2. DownInv'
      BY <2>1 DEF DownInv, NoStatus
    <3>3. BootInv'
      BY <1>5, <2>1 DEF IInv, BootInv
    <3> QED
      BY <3>1, <3>2, <3>3
  <2>5. LongPressHeld'
    <3>1. \A e \in ev : e.event # "LONGPRESS"
      BY DEF Event
    <3> QED
      BY <2>1, <2>3, <3>1, TypeOKIsTypesNext DEF LongPressHeld
  <2> QED
    BY <2>3, <2>4, <2>5, TypeOKIsTypesNext DEF IInv
<1> QED
  BY <1>10, <1>11

-----------------------------------------------------------------------------
(* Opening and closing.                                                    *)
LEMMA OpenIInv == ASSUME IInv, NEW check \in BOOLEAN, hal_key_open(check) PROVE IInv'
<1>1. Types
  BY TypeOKIsTypes DEF IInv
<1>2. /\ pc = "closed" /\ ~early /\ pc' = "open" /\ boot' = check /\ early' = FALSE
      /\ key_status' = NoStatus /\ gpio_key' = NoGpio /\ sent' = {}
      /\ held' = [k \in Keys |-> 0] /\ UNCHANGED level
  BY DEF hal_key_open
<1>3. irq = {} /\ pending = {}
  BY <1>1, <1>2 DEF Types, IInv, CloseInv
<1>4. pwr_key' \in Pwr /\ timer' \in Timers
  <2>1. INTERVAL \in 0 .. INTERVAL
    BY Times
  <2>2. CASE check
    <3>1. /\ pwr_key' = [NoPwr EXCEPT !.debounce = TRUE, !.pressed = TRUE, !.age = 0]
          /\ timer' = [active |-> TRUE, left |-> INTERVAL]
      BY <2>2 DEF hal_key_open
    <3> QED
      BY <2>1, <3>1, Initial, Zeros DEF Pwr, Timers
  <2>3. CASE ~check
    <3>1. pwr_key' = NoPwr /\ timer' = timer
      BY <2>3 DEF hal_key_open
    <3> QED
      BY <1>1, <3>1, Initial DEF Types
  <2> QED
    BY <2>2, <2>3
<1>5. irq' \subseteq Keys /\ pending' \subseteq irq' /\ (check => irq' = {})
  <2>1. CASE check
    BY <1>3, <2>1 DEF hal_key_open
  <2>2. CASE ~check
    BY <1>3, <2>2 DEF hal_key_open, Enable
  <2> QED
    BY <2>1, <2>2
<1>6. Types'
  <2>1. gpio_key' \in Gpio /\ key_status' \in Status /\ pc' \in Places
    BY <1>2, Initial DEF Places
  <2>2. held' \in [Keys -> 0 .. MAX_AGE]
    BY <1>2, Zeros
  <2>3. /\ gpio_key'.debounce \cap gpio_key'.dither = {}
        /\ gpio_key'.down \cap (gpio_key'.debounce \cup gpio_key'.dither) = {}
    BY <1>2 DEF NoGpio
  <2>4. level' \in [Keys -> BOOLEAN] /\ boot' \in BOOLEAN /\ early' \in BOOLEAN
    BY <1>1, <1>2 DEF Types
  <2> QED
    BY <1>4, <1>5, <2>1, <2>2, <2>3, <2>4 DEF Types
<1>7. IrqInv' /\ DownInv' /\ CloseInv'
  BY <1>2 DEF IrqInv, DownInv, CloseInv, NoGpio, NoStatus
<1>8. BootInv'
  BY <1>2, <1>5 DEF BootInv, NoGpio, NoStatus, GpioBusy
<1>9. LongPressHeld'
  BY <1>2, <1>6, NoneSent
<1> QED
  BY <1>6, <1>7, <1>8, <1>9, TypeOKIsTypesNext DEF IInv

(* A step of hal_key_close leaves the gesture alone, turns interrupts off  *)
(* at most and takes pins out of the maps at most.                         *)
LEMMA CloseKeeps ==
    ASSUME IInv, pc' \in Places \ {"open"}, sent' = {},
           irq' \subseteq irq, pending' \subseteq pending, pending' \subseteq irq',
           pwr_key' \in {pwr_key, NoPwr}, gpio_key' \in {gpio_key, NoGpio},
           timer' = timer \/ (timer' = Off /\ pc' = "closed"),
           pc # "closed",
           early' \in BOOLEAN, boot => early', UNCHANGED <<level, boot, key_status, held>>
    PROVE  Types' /\ IrqInv' /\ BootInv' /\ DownInv' /\ LongPressHeld'
<1>1. Types
  BY TypeOKIsTypes DEF IInv
<1>2. pwr_key' \in Pwr /\ timer' \in Timers
  BY <1>1, Initial DEF Types
<1>3. /\ gpio_key' \in Gpio
      /\ gpio_key'.debounce \cap gpio_key'.dither = {}
      /\ gpio_key'.down \cap (gpio_key'.debounce \cup gpio_key'.dither) = {}
      /\ gpio_key'.debounce \cup gpio_key'.dither \cup gpio_key'.down \subseteq
             gpio_key.debounce \cup gpio_key.dither \cup gpio_key.down
  BY <1>1, Initial DEF Types, NoGpio
<1>4. Types'
  <2>1. irq' \subseteq Keys
    BY <1>1 DEF Types
  <2>2. key_status' \in Status /\ level' \in [Keys -> BOOLEAN] /\ boot' \in BOOLEAN
        /\ held' \in [Keys -> 0 .. MAX_AGE]
    BY <1>1 DEF Types
  <2> QED
    BY <1>2, <1>3, <2>1, <2>2 DEF Types
<1>5. IrqInv'
  BY <1>3 DEF IInv, IrqInv
<1>6. BootInv'
  BY <1>3 DEF IInv, BootInv, GpioBusy
<1>7. DownInv'
  BY DEF IInv, DownInv
<1>8. LongPressHeld'
  BY <1>4, NoneSent
<1> QED
  BY <1>4, <1>5, <1>6, <1>7, <1>8

LEMMA CloseIInv == ASSUME IInv, hal_key_close PROVE IInv'
<1>1. Types /\ Pins \cup {PWR} = Keys
  BY TypeOKIsTypes DEF IInv, Keys
<1>2. /\ pc # "closed" /\ pc' \in Places \ {"open"} /\ sent' = {}
      /\ irq' \subseteq irq /\ pending' \subseteq pending /\ pending' \subseteq irq'
      /\ pwr_key' \in {pwr_key, NoPwr} /\ gpio_key' \in {gpio_key, NoGpio}
      /\ timer' = timer \/ (timer' = Off /\ pc' = "closed")
      /\ UNCHANGED <<level, boot, key_status, held>>
  BY <1>1 DEF Types, hal_key_close, CloseDisable, ClosePwrReset, ClosePwrDisable, CloseGpioReset,
              CloseGpioDisable, CloseStop, CloseStep, Disable, Places, keyVars, hwVars
<1>3. early' \in BOOLEAN /\ (boot => early')
  BY <1>1 DEF Types, IInv, BootInv, hal_key_close, CloseDisable, ClosePwrReset, ClosePwrDisable,
              CloseGpioReset, CloseGpioDisable, CloseStop, CloseStep
<1>4. Types' /\ IrqInv' /\ BootInv' /\ DownInv' /\ LongPressHeld'
  BY <1>2, <1>3, CloseKeeps
<1>5. CloseInv'
  <2>1. CASE CloseDisable
    BY <2>1 DEF CloseInv, CloseDisable, CloseStep
  <2>2. CASE ClosePwrReset
    BY <2>2 DEF CloseInv, ClosePwrReset, CloseStep, PwrQuiet, NoPwr
  <2>3. CASE ClosePwrDisable
    BY <2>3 DEF IInv, CloseInv, ClosePwrDisable, CloseStep, Disable, keyVars
  <2>4. CASE CloseGpioReset
    BY <2>4 DEF IInv, CloseInv, CloseGpioReset, CloseStep, hwVars, GpioQuiet, NoGpio
  <2>5. CASE CloseGpioDisable
    <3>1. /\ pc = "gpio_disable" /\ pc' = "stop" /\ irq' = irq \ Pins
          /\ UNCHANGED <<pwr_key, gpio_key, timer, early>>
      BY <2>5 DEF CloseGpioDisable, CloseStep, Disable, keyVars
    <3>2. ~early => PwrQuiet(pwr_key) /\ PWR \notin irq /\ GpioQuiet
      BY <3>1 DEF IInv, CloseInv
    <3>3. ~early => irq' = {}
      BY <1>1, <3>1, <3>2 DEF Types
    <3>4. GpioQuiet => GpioQuiet'
      BY <3>1 DEF GpioQuiet, TimerExpires
    <3> QED
      BY <3>1, <3>2, <3>3, <3>4 DEF CloseInv
  <2>6. CASE CloseStop
    BY <2>6 DEF IInv, CloseInv, CloseStop, CloseStep, hwVars, Off
  <2> QED
    BY <2>1, <2>2, <2>3, <2>4, <2>5, <2>6 DEF hal_key_close
<1> QED
  BY <1>4, <1>5, TypeOKIsTypesNext DEF IInv

LEMMA OlderCounts ==
    ASSUME NEW n \in 0 .. MAX_AGE
    PROVE  Older(n) \in 0 .. MAX_AGE /\ Older(n) <= n + 1
BY Times DEF Older

LEMMA TickIInv == ASSUME IInv, Tick PROVE IInv'
<1>1. Types
  BY TypeOKIsTypes DEF IInv
<1>2. /\ pc = "open" /\ pc' = "open" /\ ~TimerExpires /\ sent' = {}
      /\ UNCHANGED <<level, irq, pending, boot, early, held>>
  BY DEF Tick, hwVars
<1>3. pwr_key' \in Pwr
  <2>1. PICK n \in 0 .. MAX_AGE : n = Older(pwr_key.age)
    BY <1>1, OlderCounts DEF Types, Pwr
  <2>2. pwr_key' = [pwr_key EXCEPT !.age = n]
    BY <2>1 DEF Tick
  <2> QED
    BY <1>1, <2>2 DEF Types, Pwr
<1>4. /\ gpio_key' \in Gpio /\ gpio_key'.debounce = gpio_key.debounce
      /\ gpio_key'.dither = gpio_key.dither /\ gpio_key'.down = gpio_key.down
  <2>1. gpio_key.ageDebounce \in 0 .. MAX_AGE /\ gpio_key.ageDither \in 0 .. MAX_AGE
    BY <1>1 DEF Types, Gpio
  <2>2. PICK m \in 0 .. MAX_AGE : m = Older(gpio_key.ageDebounce)
    BY <2>1, OlderCounts
  <2>3. PICK n \in 0 .. MAX_AGE : n = Older(gpio_key.ageDither)
    BY <2>1, OlderCounts
  <2>4. gpio_key' = [gpio_key EXCEPT !.ageDebounce = m, !.ageDither = n]
    BY <2>2, <2>3 DEF Tick
  <2> QED
    BY <1>1, <2>4 DEF Types, Gpio
<1>5. /\ key_status' \in Status /\ key_status'.event = key_status.event
      /\ key_status'.code_ready = key_status.code_ready
      /\ key_status'.code_down = key_status.code_down
      /\ key_status'.ageUpdown <= key_status.ageUpdown + 1
  <2>1. key_status.ageUpdown \in 0 .. MAX_AGE /\ key_status.ageClick \in 0 .. MAX_AGE
    BY <1>1 DEF Types, Status
  <2>2. PICK m \in 0 .. MAX_AGE : m = Older(key_status.ageUpdown) /\ m <= key_status.ageUpdown + 1
    BY <2>1, OlderCounts
  <2>3. PICK n \in 0 .. MAX_AGE : n = Older(key_status.ageClick)
    BY <2>1, OlderCounts
  <2>4. key_status' = [key_status EXCEPT !.ageUpdown = m, !.ageClick = n]
    BY <2>2, <2>3 DEF Tick
  <2>5. key_status' \in Status /\ key_status'.ageUpdown = m
    BY <1>1, <2>4 DEF Types, Status
  <2> QED
    BY <1>1, <2>2, <2>4, <2>5 DEF Types, Status
<1>6. /\ timer' \in Timers /\ timer'.active = timer.active
      /\ timer.active => timer.left \in Nat \ {0} /\ timer'.left = timer.left - 1
  <2>1. CASE timer.active
    <3>1. timer.left \in 0 .. INTERVAL /\ timer.left # 0
      BY <1>1, <1>2, <2>1 DEF Types, Timers, TimerExpires
    <3>2. PICK n \in 0 .. INTERVAL : n = timer.left - 1
      BY <3>1, Times
    <3>3. timer' = [timer EXCEPT !.left = n]
      BY <2>1, <3>2 DEF Tick
    <3>4. timer' \in Timers /\ timer'.active = timer.active /\ timer'.left = n
      BY <1>1, <3>3 DEF Types, Timers
    <3> QED
      BY <3>1, <3>2, <3>4, Times
  <2>2. CASE ~timer.active
    BY <1>1, <2>2 DEF Types, Tick
  <2> QED
    BY <2>1, <2>2
<1>7. Types'
  BY <1>1, <1>2, <1>3, <1>4, <1>5, <1>6 DEF Types, Places
<1>8. IrqInv' /\ BootInv' /\ CloseInv'
  BY <1>2, <1>4, <1>5 DEF IInv, IrqInv, BootInv, CloseInv, GpioBusy
<1>9. DownInv'
  <2> SUFFICES ASSUME key_status'.event = "DOWN"
               PROVE  /\ timer'.active
                      /\ key_status'.code_ready = key_status'.code_down
                      /\ \A k \in key_status'.code_ready :
                             key_status'.ageUpdown + timer'.left <= held'[k] + INTERVAL
    BY DEF DownInv
  <2>1. /\ timer.active /\ key_status.code_ready = key_status.code_down
        /\ \A k \in key_status.code_ready :
               key_status.ageUpdown + timer.left <= held[k] + INTERVAL
    BY <1>2, <1>5 DEF IInv, DownInv
  <2>2. ASSUME NEW k \in key_status.code_ready
        PROVE  key_status'.ageUpdown + timer'.left <= held[k] + INTERVAL
    <3>1. /\ held[k] \in 0 .. MAX_AGE /\ key_status.ageUpdown \in 0 .. MAX_AGE
          /\ key_status'.ageUpdown \in 0 .. MAX_AGE
      BY <1>1, <1>5, Times DEF Types, Status
    <3> QED
      BY <1>5, <1>6, <2>1, <3>1, Times
  <2> QED
    BY <1>2, <1>5, <1>6, <2>1, <2>2
<1>10. LongPressHeld'
  BY <1>2, <1>7, NoneSent
<1> QED
  BY <1>7, <1>8, <1>9, <1>10, TypeOKIsTypesNext DEF IInv

-----------------------------------------------------------------------------
LEMMA NextIInv == IInv /\ [Next]_vars => IInv'
<1> SUFFICES ASSUME IInv, [Next]_vars PROVE IInv'
  OBVIOUS
<1>1. CASE Interrupt
  BY <1>1, PwrIrqIInv, GpioIrqIInv DEF Interrupt
<1>2. CASE Timer
  BY <1>2, ScanIInv, BootScanIInv DEF Timer
<1>3. CASE \E check \in BOOLEAN : hal_key_open(check)
  BY <1>3, OpenIInv
<1>4. CASE hal_key_close
  BY <1>4, CloseIInv
<1>5. CASE \E k \in Keys : Toggle(k)
  BY <1>5, ToggleIInv
<1>6. CASE Tick
  BY <1>6, TickIInv
<1>7. CASE UNCHANGED vars
  <2>1. UNCHANGED <<level, irq, pending, pwr_key, gpio_key, key_status, timer, boot, pc, early,
                    sent, held>>
    BY <1>7 DEF vars, hwVars, keyVars
  <2>2. TypeOK' /\ LongPressHeld'
    <3>1. TypeOK'
      BY <2>1, Zenon DEF IInv, TypeOK
    <3> QED
      BY <2>1, <3>1, Zenon DEF IInv, LongPressHeld
  <2>3. IrqInv' /\ BootInv' /\ DownInv'
    BY <2>1, Zenon DEF IInv, IrqInv, BootInv, DownInv
  <2>4. CloseInv'
    BY <2>1, Zenon DEF IInv, CloseInv, GpioQuiet, TimerExpires
  <2> QED
    BY <2>2, <2>3, <2>4 DEF IInv
<1> QED
  BY <1>1, <1>2, <1>3, <1>4, <1>5, <1>6, <1>7 DEF Next

(* The inductive invariant of the key driver holds in every state: types,  *)
(* with the assertion "Bad gpio_key pin map" of the debounce handler,      *)
(* interrupts of the pins being looked at, the check at boot, the time of  *)
(* a gesture and what each step of hal_key_close leaves.                   *)
THEOREM Invariance == Spec => []IInv
<1> QED
  BY InitIInv, NextIInv, PTL DEF Spec

(* A long press is reported for keys that the scans have all seen pressed  *)
(* for that long without a break, also when a second key joins.            *)
THEOREM LongPressIsHeld == Spec => []LongPressHeld
<1>1. IInv => LongPressHeld
  BY DEF IInv
<1> QED
  BY <1>1, Invariance, PTL

(* After a close outside the check at boot no interrupt is on and no timer *)
(* runs, whatever scan or interrupt came between its steps.                *)
THEOREM CloseIsQuiet == Spec => []ClosedQuiet
<1>1. IInv => ClosedQuiet
  BY DEF IInv, CloseInv, ClosedQuiet
<1> QED
  BY <1>1, Invariance, PTL

-----------------------------------------------------------------------------
(* The events on their way to the application.                             *)

Messages == AppEvents \cup Others

(* The places of a sequence that hold an element of E.                     *)
PlacesOf(s, E) == {i \in 1 .. Len(s) : s[i] \in E}

-----------------------------------------------------------------------------
(* Sequences.                                                              *)

(* A message between two sequences.                                        *)
Between(a, m, b) == a \o <<m>> \o b

LEMMA BetweenProperties ==
    ASSUME NEW S, NEW a \in Seq(S), NEW b \in Seq(S), NEW m \in S
    PROVE  /\ Between(a, m, b) \in Seq(S)
           /\ Len(Between(a, m, b)) = Len(a) + 1 + Len(b)
           /\ \A i \in 1 .. Len(a) : Between(a, m, b)[i] = a[i]
           /\ Between(a, m, b)[Len(a) + 1] = m
           /\ \A i \in 1 .. Len(b) : Between(a, m, b)[Len(a) + 1 + i] = b[i]
<1>1. <<m>> \in Seq(S) /\ Len(<<m>>) = 1 /\ <<m>>[1] = m
  OBVIOUS
<1>2. PICK am \in Seq(S) : am = a \o <<m>>
  BY <1>1, ConcatProperties
<1>3. Len(am) = Len(a) + 1 /\ am[Len(a) + 1] = m /\ \A i \in 1 .. Len(a) : am[i] = a[i]
  BY <1>1, <1>2, ConcatProperties
<1>4. PICK t \in Seq(S) : t = am \o b
  BY ConcatProperties
<1>5. /\ Len(t) = Len(am) + Len(b)
      /\ \A i \in 1 .. Len(am) : t[i] = am[i]
      /\ \A i \in 1 .. Len(b) : t[Len(am) + i] = b[i]
  BY <1>4, ConcatProperties
<1>6. t = Between(a, m, b)
  BY <1>2, <1>4 DEF Between
<1>7. /\ \A i \in 1 .. Len(a) : t[i] = a[i]
      /\ t[Len(a) + 1] = m
  BY <1>3, <1>5
<1> QED
  BY <1>3, <1>5, <1>6, <1>7

(* What InsertAt makes of a sequence.                                      *)
LEMMA InsertProperties ==
    ASSUME NEW S, NEW s \in Seq(S), NEW p \in Int, 1 <= p, p <= Len(s) + 1, NEW m \in S
    PROVE  /\ InsertAt(s, p, m) \in Seq(S)
           /\ Len(InsertAt(s, p, m)) = Len(s) + 1
           /\ \A i \in 1 .. p - 1 : InsertAt(s, p, m)[i] = s[i]
           /\ InsertAt(s, p, m)[p] = m
           /\ \A i \in p .. Len(s) : InsertAt(s, p, m)[i + 1] = s[i]
<1>1. Len(s) \in Int /\ \A i \in 1 .. Len(s) : s[i] \in S
  OBVIOUS
<1>2. p - 1 \in Int /\ 1 \in Int /\ (\A i \in 1 .. p - 1 : s[i] \in S)
      /\ (\A i \in p .. Len(s) : s[i] \in S)
  BY <1>1
<1>3. PICK a \in Seq(S) : a = SubSeq(s, 1, p - 1)
  BY <1>2, SubSeqProperties
<1>3a. Len(a) = (IF 1 <= p - 1 THEN p - 1 - 1 + 1 ELSE 0)
       /\ \A i \in 1 .. p - 1 - 1 + 1 : a[i] = s[1 + i - 1]
  BY <1>2, <1>3, SubSeqProperties
<1>4. PICK b \in Seq(S) : b = SubSeq(s, p, Len(s))
  BY <1>1, <1>2, SubSeqProperties
<1>4a. Len(b) = (IF p <= Len(s) THEN Len(s) - p + 1 ELSE 0)
       /\ \A i \in 1 .. Len(s) - p + 1 : b[i] = s[p + i - 1]
  BY <1>1, <1>2, <1>4, SubSeqProperties
<1>5. InsertAt(s, p, m) = Between(a, m, b)
  BY <1>3, <1>4 DEF InsertAt, Between
<1>6. /\ Between(a, m, b) \in Seq(S)
      /\ Len(Between(a, m, b)) = Len(a) + 1 + Len(b)
      /\ \A i \in 1 .. Len(a) : Between(a, m, b)[i] = a[i]
      /\ Between(a, m, b)[Len(a) + 1] = m
      /\ \A i \in 1 .. Len(b) : Between(a, m, b)[Len(a) + 1 + i] = b[i]
  <2>1. Between(a, m, b) \in Seq(S) /\ Len(Between(a, m, b)) = Len(a) + 1 + Len(b)
    BY BetweenProperties
  <2>2. \A i \in 1 .. Len(a) : Between(a, m, b)[i] = a[i]
    BY BetweenProperties
  <2>3. Between(a, m, b)[Len(a) + 1] = m
    BY BetweenProperties
  <2>4. \A i \in 1 .. Len(b) : Between(a, m, b)[Len(a) + 1 + i] = b[i]
    BY BetweenProperties
  <2> QED
    BY <2>1, <2>2, <2>3, <2>4
<1>7. Len(a) = p - 1 /\ Len(b) = Len(s) - p + 1
      /\ (\A i \in 1 .. p - 1 : a[i] = s[i])
      /\ (\A i \in 1 .. Len(s) - p + 1 : b[i] = s[p + i - 1])
  <2>1. Len(a) = p - 1
    BY <1>3a
  <2>2. Len(b) = Len(s) - p + 1
    BY <1>1, <1>4a
  <2>3. \A i \in 1 .. p - 1 : a[i] = s[i]
    BY <1>3a
  <2> QED
    BY <2>1, <2>2, <2>3, <1>4a
<1>8. \A i \in 1 .. p - 1 : Between(a, m, b)[i] = s[i]
  BY <1>6, <1>7
<1>9. ASSUME NEW i \in p .. Len(s) PROVE Between(a, m, b)[i + 1] = s[i]
  <2>1. i - p + 1 \in 1 .. Len(b) /\ Len(a) + 1 + (i - p + 1) = i + 1 /\ p + (i - p + 1) - 1 = i
    BY <1>1, <1>7
  <2>2. Between(a, m, b)[i + 1] = b[i - p + 1] /\ b[i - p + 1] = s[i]
    BY <1>6, <1>7, <2>1
  <2> QED
    BY <2>2
<1> QED
  BY <1>1, <1>5, <1>6, <1>7, <1>8, <1>9

(* Places are finitely many.                                               *)
LEMMA PlacesFinite ==
    ASSUME NEW S, NEW s \in Seq(S), NEW E
    PROVE  IsFiniteSet(PlacesOf(s, E)) /\ Cardinality(PlacesOf(s, E)) \in Nat
<1>1. IsFiniteSet(1 .. Len(s))
  BY FS_Interval
<1>2. PlacesOf(s, E) \in SUBSET (1 .. Len(s))
  BY DEF PlacesOf
<1> QED
  BY <1>1, <1>2, FS_Subset, FS_CardinalityType

(* A message that is inserted adds a place, or none, according to its kind.*)
LEMMA InsertCounts ==
    ASSUME NEW S, NEW s \in Seq(S), NEW p \in Int, 1 <= p, p <= Len(s) + 1, NEW m \in S, NEW E
    PROVE  Cardinality(PlacesOf(InsertAt(s, p, m), E)) =
              Cardinality(PlacesOf(s, E)) + (IF m \in E THEN 1 ELSE 0)
<1> DEFINE t == InsertAt(s, p, m)
           P == PlacesOf(s, E)
           Q == PlacesOf(t, E) \ {p}
           f == [i \in P |-> IF i < p THEN i ELSE i + 1]
<1>1. /\ t \in Seq(S) /\ Len(t) = Len(s) + 1
      /\ \A i \in 1 .. p - 1 : t[i] = s[i]
      /\ t[p] = m
      /\ \A i \in p .. Len(s) : t[i + 1] = s[i]
  <2>1. t \in Seq(S) /\ Len(t) = Len(s) + 1 /\ t[p] = m
    BY InsertProperties
  <2>2. \A i \in 1 .. p - 1 : t[i] = s[i]
    BY InsertProperties
  <2>3. \A i \in p .. Len(s) : t[i + 1] = s[i]
    BY InsertProperties
  <2> QED
    BY <2>1, <2>2, <2>3
<1> HIDE DEF t
<1>1a. Len(s) \in Nat /\ Len(t) = Len(s) + 1
  BY <1>1
<1>1c. \A i : i \in P <=> i \in 1 .. Len(s) /\ s[i] \in E
  BY DEF PlacesOf
<1>1d. \A i : i \in Q <=> i \in 1 .. Len(s) + 1 /\ t[i] \in E /\ i # p
  BY <1>1a DEF PlacesOf
<1>1e. \A i \in P : (i < p => f[i] = i) /\ (i >= p => f[i] = i + 1)
  BY <1>1a, <1>1c
<1>1f. DOMAIN f = P /\ f = [i \in P |-> f[i]]
  OBVIOUS
<1> HIDE DEF P, Q, f
<1>2. f \in [P -> Q]
  <2> SUFFICES ASSUME NEW i \in P PROVE f[i] \in Q
    BY <1>1f
  <2>1. i \in 1 .. Len(s) /\ s[i] \in E
    BY <1>1c
  <2>2. CASE i < p
    <3>1. i \in 1 .. Len(s) + 1 /\ i # p /\ i \in 1 .. p - 1
      BY <1>1a, <2>1, <2>2
    <3>2. t[i] = s[i] /\ f[i] = i
      BY <1>1, <1>1e, <2>2, <3>1
    <3> QED
      BY <1>1d, <2>1, <3>1, <3>2
  <2>3. CASE i >= p
    <3>1. i + 1 \in 1 .. Len(s) + 1 /\ i + 1 # p /\ i \in p .. Len(s)
      BY <1>1a, <2>1, <2>3
    <3>2. t[i + 1] = s[i] /\ f[i] = i + 1
      BY <1>1, <1>1e, <2>3, <3>1
    <3> QED
      BY <1>1d, <2>1, <3>1, <3>2
  <2> QED
    BY <2>1, <2>2, <2>3, <1>1a
<1>3. \A i, j \in P : f[i] = f[j] => i = j
  BY <1>1a, <1>1c, <1>1e
<1>4. \A k \in Q : \E i \in P : f[i] = k
  <2> SUFFICES ASSUME NEW k \in Q PROVE \E i \in P : f[i] = k
    OBVIOUS
  <2>1. k \in 1 .. Len(s) + 1 /\ t[k] \in E /\ k # p
    BY <1>1d
  <2>2. CASE k < p
    <3>1. k \in 1 .. Len(s) /\ k \in 1 .. p - 1
      BY <1>1a, <2>1, <2>2
    <3>2. s[k] \in E
      BY <1>1, <2>1, <3>1
    <3> QED
      BY <1>1c, <1>1e, <2>2, <3>1, <3>2
  <2>3. CASE k > p
    <3>1. k - 1 \in 1 .. Len(s) /\ k - 1 \in p .. Len(s) /\ k - 1 + 1 = k
      BY <1>1a, <2>1, <2>3
    <3>2. s[k - 1] \in E
      BY <1>1, <2>1, <3>1
    <3> QED
      BY <1>1c, <1>1e, <3>1, <3>2
  <2> QED
    BY <1>1a, <2>1, <2>2, <2>3
<1>5. f \in Bijection(P, Q)
  BY <1>2, <1>3, <1>4, Fun_IsBij
<1>6. ExistsBijection(P, Q)
  BY <1>5, Fun_ExistsBij
<1>7. IsFiniteSet(P) /\ IsFiniteSet(PlacesOf(t, E)) /\ Cardinality(PlacesOf(t, E)) \in Nat
      /\ Cardinality(P) \in Nat
  BY <1>1, PlacesFinite DEF P
<1>8. Cardinality(Q) = Cardinality(P)
  BY <1>6, <1>7, FS_Bijection
<1>9. p \in PlacesOf(t, E) <=> m \in E
  BY <1>1a, <1>1 DEF PlacesOf
<1>10. IsFiniteSet(Q) /\ Cardinality(Q) = IF p \in PlacesOf(t, E) THEN Cardinality(PlacesOf(t, E)) - 1
                                                               ELSE Cardinality(PlacesOf(t, E))
  BY <1>7, FS_RemoveElement DEF Q
<1> QED
  BY <1>7, <1>8, <1>9, <1>10 DEF t, P

(* Taking the first message takes a place, or none, according to its kind. *)
LEMMA TailCounts ==
    ASSUME NEW S, NEW s \in Seq(S), s # <<>>, NEW E
    PROVE  Cardinality(PlacesOf(s, E)) =
              Cardinality(PlacesOf(Tail(s), E)) + (IF Head(s) \in E THEN 1 ELSE 0)
<1> DEFINE t == Tail(s)
           P == PlacesOf(t, E)
           Q == PlacesOf(s, E) \ {1}
           f == [i \in P |-> i + 1]
<1>1. /\ t \in Seq(S) /\ Len(t) = Len(s) - 1 /\ Len(s) \in Nat \ {0}
      /\ \A i \in 1 .. Len(t) : t[i] = s[i + 1]
      /\ Head(s) = s[1]
  BY HeadTailProperties, EmptySeq
<1> HIDE DEF t
<1>2. f \in [P -> Q]
  BY <1>1 DEF PlacesOf
<1>3. \A i, j \in P : f[i] = f[j] => i = j
  BY DEF PlacesOf
<1>4. \A k \in Q : \E i \in P : f[i] = k
  <2> SUFFICES ASSUME NEW k \in Q PROVE \E i \in P : f[i] = k
    OBVIOUS
  <2>1. k - 1 \in P
    BY <1>1 DEF PlacesOf
  <2>2. f[k - 1] = k
    BY <2>1 DEF PlacesOf
  <2> QED
    BY <2>1, <2>2
<1>5. f \in Bijection(P, Q)
  BY <1>2, <1>3, <1>4, Fun_IsBij
<1>6. ExistsBijection(P, Q)
  BY <1>5, Fun_ExistsBij
<1>7. IsFiniteSet(P) /\ IsFiniteSet(PlacesOf(s, E)) /\ Cardinality(PlacesOf(s, E)) \in Nat
      /\ Cardinality(P) \in Nat
  BY <1>1, PlacesFinite
<1>8. Cardinality(Q) = Cardinality(P)
  BY <1>6, <1>7, FS_Bijection
<1>9. Cardinality(Q) = IF 1 \in PlacesOf(s, E) THEN Cardinality(PlacesOf(s, E)) - 1
                                             ELSE Cardinality(PlacesOf(s, E))
  BY <1>7, FS_RemoveElement
<1>10. 1 \in PlacesOf(s, E) <=> Head(s) \in E
  BY <1>1 DEF PlacesOf
<1> QED
  BY <1>7, <1>8, <1>9, <1>10 DEF t

-----------------------------------------------------------------------------
(* The invariant.                                                          *)

(* The message in hand: there is one from the mailbox to the pool, and the *)
(* handler of the keys only sees key events.                               *)
HandInv ==
    /\ app_pc = "get" => current = <<>>
    /\ app_pc # "get" => Len(current) = 1
    /\ app_pc \in {"load", "store", "find"} => current[1] \in AppEvents

(* Between load and store only the interrupt moves the count, and only up: *)
(* what the store will overwrite is the difference.                        *)
StoreInv ==
    app_pc = "store" => loaded <= key_event_cnt /\ lost + (key_event_cnt - loaded) <= MAX_LOST

(* There are no key events before the keys are open, and whoever takes one *)
(* before the handler is taken away finds it.                              *)
StageInv ==
    /\ stage = "start" => \A i \in 1 .. Len(mailbox) : mailbox[i] \notin AppEvents
    /\ stage \in {"boot", "ui", "closed"} => "key" \in mod_handler

Queued == Cardinality(PlacesOf(mailbox, AppEvents))
InHand == IF app_pc \in {"load", "store"} THEN 1 ELSE 0
DriftInv == ~failed /\ stage # "freed" => (key_event_cnt + lost) % 256 = (Queued + InHand) % 256

AppIInv == AppTypeOK /\ HandInv /\ StoreInv /\ StageInv /\ DriftInv

LEMMA DriftIsCount == OnTheirWay = Queued + InHand
BY DEF OnTheirWay, Queued, InHand, PlacesOf

(* Arithmetic modulo 256.                                                  *)
LEMMA OneMore ==
    ASSUME NEW x \in Nat, NEW y \in Nat, x % 256 = y % 256
    PROVE  (x + 1) % 256 = (y + 1) % 256
OBVIOUS

-----------------------------------------------------------------------------
LEMMA MailboxTyped ==
    ASSUME AppTypeOK
    PROVE  /\ mailbox \in Seq(Messages) /\ current \in Seq(Messages)
           /\ Len(mailbox) \in Nat /\ Len(current) \in Nat
           /\ Len(mailbox \o current) = Len(mailbox) + Len(current)
           /\ Queued \in Nat
BY PlacesFinite, ConcatProperties, LenProperties DEF AppTypeOK, Queued, Messages

LEMMA InitAppIInv == AppInit => AppIInv
<1> SUFFICES ASSUME AppInit PROVE AppIInv
  OBVIOUS
<1> USE AppKeyAssumption DEF AppInit
<1>1. Len(mailbox) = 0 /\ Len(current) = 0 /\ mailbox \o current = <<>>
  OBVIOUS
<1>2. AppTypeOK
  <2>1. /\ key_event_cnt \in 0 .. 255 /\ loaded \in 0 .. 255 /\ lost \in 0 .. MAX_LOST
        /\ Len(mailbox \o current) <= APP_MAILBOX_MAX
    BY <1>1
  <2>2. mailbox \in Seq(Messages) /\ current \in Seq(Messages)
    BY EmptySeq
  <2>3. /\ mod_handler \subseteq Others \cup {"key"} /\ key_list \subseteq AppEvents
        /\ todo \subseteq AppEvents /\ called \subseteq AppEvents
    BY DEF AppEvents
  <2> QED
    BY <2>1, <2>2, <2>3 DEF AppTypeOK, Messages
<1>3. Queued = 0
  <2>1. PlacesOf(mailbox, AppEvents) = {}
    BY <1>1 DEF PlacesOf
  <2> QED
    BY <2>1, FS_EmptySet DEF Queued
<1> QED
  BY <1>1, <1>2, <1>3 DEF AppIInv, HandInv, StoreInv, StageInv, DriftInv, InHand

(* A message that is put in the mailbox.                                   *)
LEMMA PutKeeps ==
    ASSUME AppTypeOK, NEW m \in Messages, Len(mailbox \o current) < APP_MAILBOX_MAX,
           mailbox' = PutWithPrio(m), UNCHANGED current
    PROVE  /\ mailbox' \in Seq(Messages) /\ current' \in Seq(Messages)
           /\ Len(mailbox' \o current') <= APP_MAILBOX_MAX
           /\ Queued' = Queued + (IF m \in AppEvents THEN 1 ELSE 0)
           /\ m \notin AppEvents /\ (\A i \in 1 .. Len(mailbox) : mailbox[i] \notin AppEvents)
                 => \A i \in 1 .. Len(mailbox') : mailbox'[i] \notin AppEvents
<1> DEFINE A == {0} \cup {i \in 1 .. Len(mailbox) : Level(mailbox[i]) >= Level(m)}
<1>1. /\ mailbox \in Seq(Messages) /\ current \in Seq(Messages)
      /\ Len(mailbox) \in Nat /\ Len(current) \in Nat
      /\ Len(mailbox \o current) = Len(mailbox) + Len(current)
  BY MailboxTyped
<1>2. A \in SUBSET (0 .. Len(mailbox)) /\ A # {}
  BY <1>1
<1>3. Max(A) \in A
  BY <1>1, <1>2, GreatestUpTo
<1>3a. Max(A) \in 0 .. Len(mailbox)
  BY <1>2, <1>3, Zenon
<1>4. PICK n \in 0 .. Len(mailbox) : n = Max(A)
  BY <1>3a, Zenon
<1>4a. PICK p \in Int : p = 1 + n
  OBVIOUS
<1>4b. 1 <= p /\ p <= Len(mailbox) + 1
  BY <1>1, <1>4, <1>4a
<1>5. mailbox' = InsertAt(mailbox, p, m)
  BY <1>4, <1>4a DEF PutWithPrio
<1> HIDE DEF A
<1>6. mailbox' \in Seq(Messages) /\ Len(mailbox') = Len(mailbox) + 1 /\ mailbox'[p] = m
  <2>1. mailbox' \in Seq(Messages)
    BY <1>1, <1>4b, <1>5, InsertProperties
  <2>2. Len(mailbox') = Len(mailbox) + 1
    BY <1>1, <1>4b, <1>5, InsertProperties
  <2>3. mailbox'[p] = m
    BY <1>1, <1>4b, <1>5, InsertProperties
  <2> QED
    BY <2>1, <2>2, <2>3
<1>7. \A i \in 1 .. p - 1 : mailbox'[i] = mailbox[i]
  BY <1>1, <1>4b, <1>5, InsertProperties
<1>8. \A i \in p .. Len(mailbox) : mailbox'[i + 1] = mailbox[i]
  BY <1>1, <1>4b, <1>5, InsertProperties
<1>9. Queued' = Queued + (IF m \in AppEvents THEN 1 ELSE 0)
  BY <1>1, <1>4b, <1>5, InsertCounts DEF Queued
<1>10. Len(mailbox' \o current') <= APP_MAILBOX_MAX
  <2>1. Len(mailbox' \o current') = Len(mailbox') + Len(current')
    BY <1>1, <1>6, ConcatProperties
  <2> QED
    BY <2>1, <1>1, <1>6, AppKeyAssumption
<1>11. ASSUME m \notin AppEvents, \A i \in 1 .. Len(mailbox) : mailbox[i] \notin AppEvents,
              NEW i \in 1 .. Len(mailbox')
       PROVE  mailbox'[i] \notin AppEvents
  <2>1. CASE i < p
    BY <1>1, <1>4b, <1>7, <1>11, <2>1
  <2>2. CASE i = p
    BY <1>6, <1>11, <2>2
  <2>3. CASE i > p
    <3>1. i - 1 \in p .. Len(mailbox) /\ i - 1 + 1 = i /\ i - 1 \in 1 .. Len(mailbox)
      BY <1>1, <1>4b, <1>6, <2>3
    <3>2. mailbox'[i] = mailbox[i - 1]
      BY <1>8, <3>1
    <3> QED
      BY <1>11, <3>1, <3>2
  <2> QED
    BY <1>4b, <1>6, <2>1, <2>2, <2>3
<1> QED
  BY <1>1, <1>6, <1>9, <1>10, <1>11

(* Steps that leave the mailbox alone.                                     *)
LEMMA MailboxStays == UNCHANGED mailbox => Queued' = Queued
BY DEF Queued, PlacesOf

(* The key driver's interrupt.                                             *)
LEMMA ProcessIInv ==
    ASSUME AppIInv, NEW e \in AppEvents, key_event_process(e)
    PROVE  AppIInv'
<1> USE AppKeyAssumption DEF AppIInv
<1>1. UNCHANGED <<loaded, lost, mod_handler, key_list, todo, stage, app_pc>> /\ called' = {}
      /\ ~failed /\ stage \in {"boot", "ui"}
      /\ (app_pc = "store" => lost + (key_event_cnt - loaded) < MAX_LOST)
  BY DEF key_event_process, mainVars
<1>2. Queued \in Nat /\ key_event_cnt \in 0 .. 255 /\ loaded \in 0 .. 255 /\ lost \in 0 .. MAX_LOST
  BY MailboxTyped DEF AppTypeOK
<1>3. CASE key_event_cnt > KEY_EVENT_CNT_LIMIT
  <2>1. UNCHANGED <<key_event_cnt, mailbox, current, failed>>
    BY <1>3 DEF key_event_process, mailVars
  <2>2. Queued' = Queued /\ InHand' = InHand
    BY <1>1, <2>1, MailboxStays DEF InHand
  <2>3. AppTypeOK'
    BY <1>1, <2>1 DEF AppTypeOK
  <2> QED
    BY <1>1, <2>1, <2>2, <2>3 DEF HandInv, StoreInv, StageInv, DriftInv
<1>4. CASE ~(key_event_cnt > KEY_EVENT_CNT_LIMIT)
  <2>1. key_event_cnt' = key_event_cnt + 1 /\ app_mailbox_put(e)
    BY <1>4 DEF key_event_process
  <2>2. key_event_cnt' \in 0 .. 255
    BY <1>2, <1>4, <2>1
  <2>3. StoreInv'
    BY <1>1, <1>2, <2>1 DEF StoreInv
  <2>4. CASE Len(mailbox \o current) < APP_MAILBOX_MAX
    <3>1. mailbox' = PutWithPrio(e) /\ UNCHANGED <<current, failed>>
      BY <2>1, <2>4 DEF app_mailbox_put
    <3>2. /\ mailbox' \in Seq(Messages) /\ current' \in Seq(Messages)
          /\ Len(mailbox' \o current') <= APP_MAILBOX_MAX
          /\ Queued' = Queued + 1
      BY <2>4, <3>1, PutKeeps DEF Messages
    <3>3. AppTypeOK'
      BY <1>1, <1>2, <2>2, <3>1, <3>2 DEF AppTypeOK, Messages
    <3>4. DriftInv'
      <4>1. (key_event_cnt + lost) % 256 = (Queued + InHand) % 256
        BY <1>1 DEF DriftInv
      <4>2. InHand \in Nat /\ InHand' = InHand
        BY <1>1 DEF InHand
      <4>3. (key_event_cnt + lost + 1) % 256 = (Queued + InHand + 1) % 256
        BY <4>1, <4>2, <1>2, OneMore
      <4>4. key_event_cnt' + lost' = key_event_cnt + lost + 1
            /\ Queued' + InHand' = Queued + InHand + 1
        BY <1>1, <1>2, <2>1, <3>2, <4>2
      <4> QED
        BY <4>3, <4>4 DEF DriftInv
    <3> QED
      BY <1>1, <2>3, <3>1, <3>3, <3>4 DEF HandInv, StageInv
  <2>5. CASE ~(Len(mailbox \o current) < APP_MAILBOX_MAX)
    <3>1. failed' = TRUE /\ UNCHANGED <<mailbox, current>>
      BY <2>1, <2>5 DEF app_mailbox_put
    <3>2. AppTypeOK'
      BY <1>1, <1>2, <2>2, <3>1 DEF AppTypeOK
    <3> QED
      BY <1>1, <2>3, <3>1, <3>2 DEF HandInv, StageInv, DriftInv
  <2> QED
    BY <2>4, <2>5
<1> QED
  BY <1>3, <1>4

(* Other modules' messages.                                                *)
LEMMA OtherPutIInv ==
    ASSUME AppIInv, NEW m \in Others, OtherPut(m)
    PROVE  AppIInv'
<1> USE AppKeyAssumption DEF AppIInv
<1>1. UNCHANGED <<key_event_cnt, loaded, lost, mod_handler, key_list, todo, stage, app_pc>>
      /\ called' = {} /\ app_mailbox_put(m) /\ m \notin AppEvents /\ m \in Messages
  BY DEF OtherPut, mainVars, countVars, Messages
<1>2. InHand' = InHand /\ Queued \in Nat
  BY <1>1, MailboxTyped DEF InHand
<1>3. CASE Len(mailbox \o current) < APP_MAILBOX_MAX
  <2>1. mailbox' = PutWithPrio(m) /\ UNCHANGED <<current, failed>>
    BY <1>1, <1>3 DEF app_mailbox_put
  <2>2. /\ mailbox' \in Seq(Messages) /\ current' \in Seq(Messages)
        /\ Len(mailbox' \o current') <= APP_MAILBOX_MAX
        /\ Queued' = Queued
        /\ (\A i \in 1 .. Len(mailbox) : mailbox[i] \notin AppEvents)
                 => \A i \in 1 .. Len(mailbox') : mailbox'[i] \notin AppEvents
    BY <1>1, <1>2, <1>3, <2>1, PutKeeps
  <2>3. AppTypeOK'
    BY <1>1, <2>1, <2>2 DEF AppTypeOK, Messages
  <2> QED
    BY <1>1, <1>2, <2>1, <2>2, <2>3 DEF HandInv, StoreInv, StageInv, DriftInv
<1>4. CASE ~(Len(mailbox \o current) < APP_MAILBOX_MAX)
  <2>1. failed' = TRUE /\ UNCHANGED <<mailbox, current>>
    BY <1>1, <1>4 DEF app_mailbox_put
  <2>2. AppTypeOK'
    BY <1>1, <2>1 DEF AppTypeOK
  <2> QED
    BY <1>1, <2>1, <2>2 DEF HandInv, StoreInv, StageInv, DriftInv
<1> QED
  BY <1>3, <1>4

(* The application thread.                                                 *)
LEMMA GetIInv == AppIInv /\ app_mailbox_get => AppIInv'
<1> SUFFICES ASSUME AppIInv, app_mailbox_get PROVE AppIInv'
  OBVIOUS
<1> USE AppKeyAssumption DEF AppIInv
<1>1. UNCHANGED <<key_event_cnt, loaded, lost, mod_handler, key_list, todo, stage, failed>>
      /\ called' = {} /\ app_pc = "get" /\ ~failed /\ mailbox # <<>>
      /\ mailbox' = Tail(mailbox) /\ current' = <<Head(mailbox)>>
      /\ app_pc' = IF Head(mailbox) \in AppEvents /\ "key" \in mod_handler THEN "load" ELSE "free"
  BY DEF app_mailbox_get, AppStep, mainVars, countVars
<1>2. /\ mailbox \in Seq(Messages) /\ Len(mailbox) \in Nat
      /\ Len(mailbox \o current) = Len(mailbox) + Len(current) /\ Len(current) = 0
      /\ Queued \in Nat
  BY <1>1, MailboxTyped DEF HandInv
<1>3. /\ Head(mailbox) \in Messages /\ mailbox' \in Seq(Messages)
      /\ Len(mailbox') = Len(mailbox) - 1
      /\ \A i \in 1 .. Len(mailbox') : mailbox'[i] = mailbox[i + 1]
      /\ Head(mailbox) = mailbox[1] /\ Len(mailbox) >= 1
  BY <1>1, <1>2, HeadTailProperties, EmptySeq
<1>4. current' \in Seq(Messages) /\ Len(current') = 1 /\ current'[1] = Head(mailbox)
  BY <1>1, <1>3
<1>5. Len(mailbox' \o current') <= APP_MAILBOX_MAX
  <2>1. Len(mailbox' \o current') = Len(mailbox') + Len(current')
    BY <1>3, <1>4, ConcatProperties
  <2> QED
    BY <2>1, <1>2, <1>3, <1>4 DEF AppTypeOK
<1>6. AppTypeOK'
  BY <1>1, <1>3, <1>4, <1>5 DEF AppTypeOK, Messages
<1>7. HandInv'
  BY <1>1, <1>4 DEF HandInv
<1>8. StageInv'
  BY <1>1, <1>2, <1>3 DEF StageInv
<1>9. DriftInv'
  <2> SUFFICES ASSUME ~failed, stage # "freed" PROVE Queued' + InHand' = Queued + InHand
    BY <1>1 DEF DriftInv
  <2>1. Queued = Queued' + (IF Head(mailbox) \in AppEvents THEN 1 ELSE 0)
    BY <1>1, <1>2, TailCounts DEF Queued
  <2>2. Head(mailbox) \in AppEvents => "key" \in mod_handler
    BY <1>3 DEF StageInv, AppTypeOK
  <2>3. Queued' \in Nat
    BY <1>3, PlacesFinite DEF Queued
  <2> QED
    BY <1>1, <1>2, <2>1, <2>2, <2>3 DEF InHand
<1> QED
  BY <1>1, <1>6, <1>7, <1>8, <1>9 DEF StoreInv

LEMMA LoadIInv == AppIInv /\ LoadCount => AppIInv'
<1> SUFFICES ASSUME AppIInv, LoadCount PROVE AppIInv'
  OBVIOUS
<1> USE AppKeyAssumption DEF AppIInv, LoadCount, AppStep, mainVars
<1>1. AppTypeOK'
  BY DEF AppTypeOK
<1>2. Queued' = Queued /\ InHand' = InHand
  BY MailboxStays DEF InHand
<1>3. StoreInv'
  BY DEF StoreInv, AppTypeOK
<1> QED
  BY <1>1, <1>2, <1>3 DEF HandInv, StageInv, DriftInv

LEMMA StoreIInv == AppIInv /\ StoreCount => AppIInv'
<1> SUFFICES ASSUME AppIInv, StoreCount PROVE AppIInv'
  OBVIOUS
<1> USE AppKeyAssumption DEF AppIInv
<1>1. UNCHANGED <<loaded, mailbox, current, mod_handler, key_list, todo, stage, failed>>
      /\ called' = {} /\ app_pc = "store" /\ app_pc' = "find" /\ ~failed
      /\ key_event_cnt' = (loaded + 255) % 256
      /\ lost' = lost + (key_event_cnt - loaded)
  BY DEF StoreCount, AppStep, mainVars
<1>2. /\ Queued \in Nat /\ key_event_cnt \in 0 .. 255 /\ loaded \in 0 .. 255 /\ lost \in 0 .. MAX_LOST
      /\ loaded <= key_event_cnt /\ lost + (key_event_cnt - loaded) <= MAX_LOST
  BY <1>1, MailboxTyped DEF AppTypeOK, StoreInv
<1>3. key_event_cnt' \in 0 .. 255 /\ lost' \in 0 .. MAX_LOST
  BY <1>1, <1>2
<1>4. AppTypeOK'
  BY <1>1, <1>3 DEF AppTypeOK
<1>5. Queued' = Queued /\ InHand = 1 /\ InHand' = 0
  BY <1>1, MailboxStays DEF InHand
<1>6. DriftInv'
  <2> SUFFICES ASSUME stage # "freed"
               PROVE  (key_event_cnt' + lost') % 256 = (Queued' + InHand') % 256
    BY <1>1 DEF DriftInv
  <2>1. (key_event_cnt + lost) % 256 = (Queued + 1) % 256
    BY <1>1, <1>5 DEF DriftInv
  <2>2. (((loaded + 255) % 256) + (lost + (key_event_cnt - loaded))) % 256 = Queued % 256
    <3>1. (loaded + 255) % 256 = IF loaded = 0 THEN 255 ELSE loaded - 1
      BY <1>2
    <3>2. lost \in Nat
      BY <1>2
    <3>3. CASE loaded = 0
      BY <1>2, <2>1, <3>1, <3>2, <3>3
    <3>4. CASE loaded # 0
      BY <1>2, <2>1, <3>1, <3>2, <3>4
    <3> QED
      BY <3>3, <3>4
  <2> QED
    BY <1>1, <1>2, <1>5, <2>2
<1> QED
  BY <1>1, <1>4, <1>6 DEF HandInv, StoreInv, StageInv

LEMMA FindIInv == AppIInv /\ app_key_handle_find => AppIInv'
<1> SUFFICES ASSUME AppIInv, app_key_handle_find PROVE AppIInv'
  OBVIOUS
<1> USE AppKeyAssumption DEF AppIInv
<1>1. UNCHANGED <<key_event_cnt, loaded, lost, mailbox, current, mod_handler, key_list, todo, stage, failed>>
      /\ app_pc = "find" /\ app_pc' = "free"
  BY DEF app_key_handle_find, AppStep, mainVars, countVars
<1>2. Range(current) \subseteq AppEvents
  <2>1. current \in Seq(Messages) /\ Len(current) = 1 /\ current[1] \in AppEvents
    BY <1>1, MailboxTyped DEF HandInv
  <2> QED
    BY <2>1, RangeEquality
<1>3. called' \subseteq AppEvents
  BY <1>2 DEF app_key_handle_find
<1>4. AppTypeOK'
  BY <1>1, <1>3 DEF AppTypeOK
<1>5. Queued' = Queued /\ InHand' = InHand
  BY <1>1, MailboxStays DEF InHand
<1> QED
  BY <1>1, <1>4, <1>5 DEF HandInv, StoreInv, StageInv, DriftInv

LEMMA FreeIInv == AppIInv /\ app_mailbox_free => AppIInv'
<1> SUFFICES ASSUME AppIInv, app_mailbox_free PROVE AppIInv'
  OBVIOUS
<1> USE AppKeyAssumption DEF AppIInv
<1>1. UNCHANGED <<key_event_cnt, loaded, lost, mailbox, mod_handler, key_list, todo, stage, failed>>
      /\ app_pc = "free" /\ app_pc' = "get" /\ called' = {} /\ current' = <<>>
  BY DEF app_mailbox_free, AppStep, mainVars, countVars
<1>2. /\ mailbox \in Seq(Messages) /\ Len(mailbox) \in Nat /\ Len(current) \in Nat
      /\ Len(mailbox \o current) = Len(mailbox) + Len(current)
  BY MailboxTyped
<1>3. mailbox' \o current' = mailbox /\ current' \in Seq(Messages)
  BY <1>1, <1>2, ConcatEmptySeq, EmptySeq
<1>4. Len(mailbox' \o current') <= APP_MAILBOX_MAX
  BY <1>2, <1>3 DEF AppTypeOK
<1>5. AppTypeOK'
  BY <1>1, <1>3, <1>4 DEF AppTypeOK, Messages
<1>6. Queued' = Queued /\ InHand' = InHand
  BY <1>1, MailboxStays DEF InHand
<1> QED
  BY <1>1, <1>5, <1>6 DEF HandInv, StoreInv, StageInv, DriftInv

(* The main thread.                                                        *)
LEMMA MainIInv ==
    ASSUME AppIInv, app_key_open \/ (\E e \in AppEvents : app_key_handle_registration(e))
                 \/ app_key_handle_clear \/ app_key_close
    PROVE  AppIInv'
<1> USE AppKeyAssumption DEF AppIInv
<1>1. UNCHANGED <<key_event_cnt, loaded, lost, mailbox, current, failed, app_pc>> /\ called' = {}
  BY DEF app_key_open, app_key_handle_registration, app_key_handle_clear, app_key_close,
         MainStep, countVars, mailVars
<1>2. Queued' = Queued /\ InHand' = InHand
  BY <1>1, MailboxStays DEF InHand
<1>3. /\ mod_handler' \subseteq Others \cup {"key"} /\ key_list' \subseteq AppEvents
      /\ todo' \subseteq AppEvents /\ stage' \in {"start", "boot", "ui", "closed", "freed"}
  BY DEF app_key_open, app_key_handle_registration, app_key_handle_clear, app_key_close,
         AppTypeOK, AppEvents
<1>4. AppTypeOK'
  BY <1>1, <1>3 DEF AppTypeOK
<1>5. /\ stage' = "start" => stage = "start"
      /\ stage' # "freed" => stage # "freed"
      /\ stage' \in {"boot", "ui", "closed"} => "key" \in mod_handler'
  BY DEF app_key_open, app_key_handle_registration, app_key_handle_clear, app_key_close, StageInv
<1>6. StageInv'
  BY <1>1, <1>5 DEF StageInv
<1> QED
  BY <1>1, <1>2, <1>4, <1>5, <1>6 DEF HandInv, StoreInv, DriftInv

-----------------------------------------------------------------------------
(* The inductive invariant of the way of a key event holds in every state: *)
(* types, the message in hand at each step of the application thread, what *)
(* its load has read, the handlers at each stage of the main thread and    *)
(* the drift of the count.                                                 *)
THEOREM AppInvariance == AppSpec => []AppIInv
<1>1. AppIInv /\ [AppNext]_appVars => AppIInv'
  <2> SUFFICES ASSUME AppIInv, [AppNext]_appVars PROVE AppIInv'
    OBVIOUS
  <2>1. CASE UNCHANGED appVars
    <3>1. AppTypeOK'
      BY <2>1 DEF AppIInv, AppTypeOK, appVars
    <3>2. Queued' = Queued /\ InHand' = InHand
      BY <2>1, MailboxStays DEF InHand, appVars
    <3> QED
      BY <2>1, <3>1, <3>2 DEF AppIInv, HandInv, StoreInv, StageInv, DriftInv, appVars
  <2>2. CASE AppNext
    BY <2>2, ProcessIInv, OtherPutIInv, GetIInv, LoadIInv, StoreIInv, FindIInv, FreeIInv, MainIInv
       DEF AppNext, app_thread
  <2> QED
    BY <2>1, <2>2
<1> QED
  BY InitAppIInv, <1>1, PTL DEF AppSpec

(* The byte key_event_cnt and the key events on their way differ, modulo   *)
(* 256, by the updates that the application thread's load and store        *)
(* overwrote, and by nothing else, until the keys are closed.              *)
THEOREM CountDrifts == AppSpec => []CountDrift
<1>1. AppIInv => CountDrift
  BY DriftIsCount DEF AppIInv, DriftInv, CountDrift
<1> QED
  BY AppInvariance, <1>1, PTL
=============================================================================
