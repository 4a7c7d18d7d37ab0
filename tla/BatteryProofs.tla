---------------------------- MODULE BatteryProofs ----------------------------
(***************************************************************************)
(* Proofs about the charger (Charger) and the battery (Battery), which     *)
(* model two sides of app_battery.cpp and share no variable.               *)
(*                                                                         *)
(* First the charger, for any number of readings and of messages.  Being   *)
(* able to notice a change is a token that is handed on: from the power    *)
(* unit's handler to a message, from the message to the timer, from the    *)
(* timer to the step that arms the handler again, and back.  TokenInv says *)
(* where it is; NeverDeaf follows.                                         *)
(*                                                                         *)
(* Then the battery, for any voltages, any number of samples in a mean and *)
(* any width of the index and of the counts.  The samples are in a ring    *)
(* whose slots are found by the index modulo its size, and the index wraps *)
(* at a number that need not be a multiple of that: RingInv says which     *)
(* slots hold the last samples, by their age.  The ages number the slots   *)
(* once each, so that the sum over the ring is the sum over the samples    *)
(* (ArithmeticTheorems).                                                   *)
(***************************************************************************)
EXTENDS Charger, Battery, ArithmeticTheorems, SequenceTheorems, TLAPS

-----------------------------------------------------------------------------
(* The charger.                                                            *)

Messages == {PLUGINOUT, CHARGING(TRUE), CHARGING(FALSE)}

(* A message about a change is in the mailbox.                             *)
Posted == \E i \in 1 .. Len(chargerMail) : chargerMail[i] = PLUGINOUT

(* There is no second message about a change: the first one the            *)
(* application thread takes is the only one.                               *)
PostedOnce == \A i, j \in 1 .. Len(chargerMail) :
                  chargerMail[i] = PLUGINOUT /\ chargerMail[j] = PLUGINOUT => i = j

Started == opc \in {"status", "open"}

(* The token: nobody has it before the start, and then exactly one.  The   *)
(* last step of the debounce handler stops a timer that has stopped, which *)
(* is true only because the application thread cannot start it in between. *)
TokenInv ==
    /\ Started => handler \/ Posted \/ debounceTimer \/ tpc = "arm"
    /\ ~Started => ~handler /\ ~Posted /\ ~debounceTimer /\ tpc = "idle"
    /\ handler => ~Posted /\ ~debounceTimer /\ tpc # "arm"
    /\ Posted => ~debounceTimer /\ tpc # "arm"
    /\ debounceTimer => tpc = "idle"

(* The counts stay below their limits for as long as they may grow.        *)
CountInv ==
    /\ debounceTimer => cnt < DEBOUNCE_CNT
    /\ opc = "read" => reads < OPEN_READS

ChargerIInv == ChargerTypeOK /\ PostedOnce /\ TokenInv /\ CountInv

-----------------------------------------------------------------------------
(* The mailbox.                                                            *)
LEMMA MessagesDiffer == CHARGING(TRUE) # PLUGINOUT /\ CHARGING(FALSE) # PLUGINOUT
BY DEF CHARGING, PLUGINOUT

(* A message about the charger's state leaves the ones about a change.     *)
LEMMA PostState ==
    ASSUME chargerMail \in Seq(Messages), NEW m \in Messages, m # PLUGINOUT,
           chargerMail' = Append(chargerMail, m), PostedOnce
    PROVE  chargerMail' \in Seq(Messages) /\ Len(chargerMail') = Len(chargerMail) + 1 
           /\ (Posted' <=> Posted) /\ PostedOnce'
BY AppendProperties DEF Posted, PostedOnce

(* A message about a change, when there is none.                           *)
LEMMA PostChange ==
    ASSUME chargerMail \in Seq(Messages), chargerMail' = Append(chargerMail, PLUGINOUT), ~Posted
    PROVE  chargerMail' \in Seq(Messages) /\ Len(chargerMail') = Len(chargerMail) + 1
           /\ Posted' /\ PostedOnce'
<1>1. PLUGINOUT \in Messages
  BY DEF Messages
<1> QED
  BY <1>1, AppendProperties DEF Posted, PostedOnce

(* Taking the only message about a change leaves none; taking another one  *)
(* leaves it where it is.                                                  *)
LEMMA TakeMessage ==
    ASSUME chargerMail \in Seq(Messages), chargerMail # <<>>, chargerMail' = Tail(chargerMail), PostedOnce
    PROVE  /\ Head(chargerMail) \in Messages
           /\ chargerMail' \in Seq(Messages) /\ Len(chargerMail') = Len(chargerMail) - 1
           /\ PostedOnce'
           /\ Head(chargerMail) = PLUGINOUT => Posted /\ ~Posted'
           /\ Head(chargerMail) # PLUGINOUT => (Posted' <=> Posted)
<1>1. /\ Head(chargerMail) \in Messages
      /\ chargerMail' \in Seq(Messages) /\ Len(chargerMail') = Len(chargerMail) - 1
      /\ \A i \in 1 .. Len(chargerMail') : chargerMail'[i] = chargerMail[i + 1]
      /\ Len(chargerMail) \in Nat \ {0}
  BY HeadTailProperties, EmptySeq
<1>2. Head(chargerMail) = chargerMail[1] /\ 1 \in 1 .. Len(chargerMail)
  BY <1>1
<1>3. PostedOnce'
  BY <1>1 DEF PostedOnce
<1>4. Head(chargerMail) = PLUGINOUT => Posted /\ ~Posted'
  BY <1>1, <1>2 DEF Posted, PostedOnce
<1>5. ASSUME Head(chargerMail) # PLUGINOUT, Posted PROVE Posted'
  <2>1. PICK i \in 1 .. Len(chargerMail) : chargerMail[i] = PLUGINOUT
    BY <1>5 DEF Posted
  <2>2. i # 1
    BY <2>1, <1>5, <1>2
  <2>3. i - 1 \in 1 .. Len(chargerMail') /\ chargerMail'[i - 1] = PLUGINOUT
    BY <2>1, <2>2, <1>1
  <2> QED
    BY <2>3 DEF Posted
<1>6. ASSUME Posted' PROVE Posted
  BY <1>1, <1>6 DEF Posted
<1> QED
  BY <1>1, <1>3, <1>4, <1>5, <1>6

-----------------------------------------------------------------------------
(* Starting.                                                               *)
LEMMA InitChargerIInv == ChargerInit => ChargerIInv
<1> SUFFICES ASSUME ChargerInit PROVE ChargerIInv
  OBVIOUS
<1> USE ChargerAssumption DEF ChargerInit
<1>1. ChargerTypeOK
  <2>1. {latches, charger, changed, handler, ctx, debounceTimer, isCharging, found} \subseteq BOOLEAN
    OBVIOUS
  <2>2. chargerMail \in Seq({PLUGINOUT, CHARGING(TRUE), CHARGING(FALSE)}) /\ Len(chargerMail) <= MAX_CHARGER_MAIL
    BY EmptySeq
  <2> QED
    BY <2>1, <2>2 DEF ChargerTypeOK
<1>2. Len(chargerMail) = 0
  OBVIOUS
<1> QED
  BY <1>1, <1>2 DEF ChargerIInv, PostedOnce, TokenInv, Started, Posted, CountInv

(* Steps that leave the mailbox alone.                                     *)
LEMMA MailboxStays ==
    ASSUME UNCHANGED chargerMail
    PROVE  (Posted' <=> Posted) /\ (PostedOnce' <=> PostedOnce)
BY DEF Posted, PostedOnce

(* The power unit.                                                         *)
LEMMA PlugIInv == ChargerIInv /\ Plug => ChargerIInv'
<1> SUFFICES ASSUME ChargerIInv, Plug PROVE ChargerIInv'
  OBVIOUS
<1> USE DEF ChargerIInv, Plug, debounceVars, openVars
<1>1. ChargerTypeOK'
  BY DEF ChargerTypeOK
<1> QED
  BY <1>1, MailboxStays DEF TokenInv, Started, CountInv

LEMMA HandlerIInv == ChargerIInv /\ app_battery_charger_handler => ChargerIInv'
<1> SUFFICES ASSUME ChargerIInv, app_battery_charger_handler PROVE ChargerIInv'
  OBVIOUS
<1> USE ChargerAssumption DEF ChargerIInv, app_battery_charger_handler, debounceVars, openVars
<1>1. chargerMail \in Seq(Messages)
  BY DEF ChargerTypeOK, Messages
<1>2. ~Posted
  BY DEF TokenInv
<1>3. chargerMail' \in Seq(Messages) /\ Len(chargerMail') = Len(chargerMail) + 1 /\ Posted' /\ PostedOnce'
  BY <1>1, <1>2, PostChange
<1>4. ChargerTypeOK'
  <2>1. Len(chargerMail') <= MAX_CHARGER_MAIL
    BY <1>3, <1>1
  <2> QED
    BY <1>3, <2>1 DEF ChargerTypeOK, Messages
<1> QED
  BY <1>3, <1>4 DEF TokenInv, Started, CountInv

(* The timer thread.                                                       *)
LEMMA DebounceExpiresIInv == ChargerIInv /\ DebounceExpires => ChargerIInv'
<1> SUFFICES ASSUME ChargerIInv, DebounceExpires PROVE ChargerIInv'
  OBVIOUS
<1> USE ChargerAssumption DEF ChargerIInv, DebounceExpires, DebounceRead, pmuVars, openVars
<1>1. chargerMail \in Seq(Messages) /\ CHARGING(charger) \in Messages
  BY DEF ChargerTypeOK, Messages
<1>2. CHARGING(charger) # PLUGINOUT
  BY MessagesDiffer DEF ChargerTypeOK
<1>3. cnt' \in 0 .. DEBOUNCE_CNT /\ ctx' \in BOOLEAN
  BY DEF ChargerTypeOK, CountInv
<1>4. CASE cnt' >= DEBOUNCE_CNT
  <2>1. /\ chargerMail' = Append(chargerMail, CHARGING(charger)) /\ Len(chargerMail) < MAX_CHARGER_MAIL
        /\ ~debounceTimer' /\ tpc' = "arm" /\ UNCHANGED <<pmuVars, isCharging, openVars>>
    BY <1>4
  <2>2. chargerMail' \in Seq(Messages) /\ Len(chargerMail') = Len(chargerMail) + 1
        /\ (Posted' <=> Posted) /\ PostedOnce'
    BY <1>1, <1>2, <2>1, PostState
  <2>3. ChargerTypeOK'
    <3>1. Len(chargerMail') <= MAX_CHARGER_MAIL
      BY <2>1, <2>2, <1>1
    <3> QED
      BY <1>3, <2>1, <2>2, <3>1 DEF ChargerTypeOK, Messages
  <2> QED
    BY <2>1, <2>2, <2>3 DEF TokenInv, Started, CountInv
<1>5. CASE ~(cnt' >= DEBOUNCE_CNT)
  <2>1. UNCHANGED <<chargerMail, debounceTimer, tpc, pmuVars, isCharging, openVars>>
    BY <1>5
  <2>2. ChargerTypeOK'
    BY <1>3, <2>1 DEF ChargerTypeOK
  <2> QED
    BY <1>3, <1>5, <2>1, <2>2, MailboxStays DEF TokenInv, Started, CountInv
<1> QED
  BY <1>4, <1>5

LEMMA DebounceArmIInv == ChargerIInv /\ DebounceArm => ChargerIInv'
<1> SUFFICES ASSUME ChargerIInv, DebounceArm PROVE ChargerIInv'
  OBVIOUS
<1> USE DEF ChargerIInv, DebounceArm, openVars
<1>1. ChargerTypeOK'
  BY DEF ChargerTypeOK
<1> QED
  BY <1>1, MailboxStays DEF TokenInv, Started, CountInv

LEMMA DebounceStopIInv == ChargerIInv /\ DebounceStop => ChargerIInv'
<1> SUFFICES ASSUME ChargerIInv, DebounceStop PROVE ChargerIInv'
  OBVIOUS
<1> USE DEF ChargerIInv, DebounceStop, pmuVars, openVars
<1>1. ChargerTypeOK'
  BY DEF ChargerTypeOK
<1> QED
  BY <1>1, MailboxStays DEF TokenInv, Started, CountInv

(* The application thread.                                                 *)
LEMMA ProcessIInv == ChargerIInv /\ HandleMessage => ChargerIInv'
<1> SUFFICES ASSUME ChargerIInv, HandleMessage PROVE ChargerIInv'
  OBVIOUS
<1> USE ChargerAssumption DEF ChargerIInv, HandleMessage, AppMayRun, pmuVars, openVars
<1>1. chargerMail \in Seq(Messages)
  BY DEF ChargerTypeOK, Messages
<1>2. /\ Head(chargerMail) \in Messages
      /\ chargerMail' \in Seq(Messages) /\ Len(chargerMail') = Len(chargerMail) - 1
      /\ PostedOnce'
      /\ Head(chargerMail) = PLUGINOUT => Posted /\ ~Posted'
      /\ Head(chargerMail) # PLUGINOUT => (Posted' <=> Posted)
  BY <1>1, TakeMessage
<1>3. Len(chargerMail') <= MAX_CHARGER_MAIL
  BY <1>1, <1>2 DEF ChargerTypeOK
<1>4. CASE Head(chargerMail) = PLUGINOUT
  <2>1. /\ ctx' = charger /\ cnt' = 1 /\ debounceTimer' = TRUE
        /\ UNCHANGED <<tpc, isCharging, pmuVars, openVars>>
    BY <1>4 DEF app_battery_pluginout_debounce_start
  <2>2. ChargerTypeOK'
    BY <1>2, <1>3, <2>1 DEF ChargerTypeOK, Messages
  <2> QED
    BY <1>2, <1>4, <2>1, <2>2 DEF TokenInv, Started, CountInv
<1>5. CASE Head(chargerMail) # PLUGINOUT
  <2>1. isCharging' = StatusAfter(Head(chargerMail).charger) /\ UNCHANGED <<debounceVars, pmuVars, openVars>>
    BY <1>5
  <2>2. isCharging' \in BOOLEAN
    BY <2>1 DEF StatusAfter, ChargerTypeOK
  <2>3. ChargerTypeOK'
    BY <1>2, <1>3, <2>1, <2>2 DEF ChargerTypeOK, Messages, debounceVars
  <2> QED
    BY <1>2, <1>5, <2>1, <2>3 DEF TokenInv, Started, CountInv, debounceVars
<1> QED
  BY <1>4, <1>5

(* The main thread.                                                        *)
LEMMA OpenIInv == ChargerIInv /\ app_battery_open => ChargerIInv'
<1> SUFFICES ASSUME ChargerIInv, app_battery_open PROVE ChargerIInv'
  OBVIOUS
<1> USE ChargerAssumption DEF ChargerIInv, pmuVars, debounceVars
<1>1. CASE OpenRead
  <2>1. ChargerTypeOK'
    BY <1>1 DEF OpenRead, ChargerTypeOK, CountInv
  <2> QED
    BY <1>1, <2>1, MailboxStays DEF OpenRead, TokenInv, Started, CountInv, ChargerTypeOK
<1>2. CASE OpenSet
  <2>1. ChargerTypeOK'
    BY <1>2 DEF OpenSet, ChargerTypeOK
  <2> QED
    BY <1>2, <2>1, MailboxStays DEF OpenSet, TokenInv, Started, CountInv
<1>3. CASE OpenStatus
  <2>1. ChargerTypeOK'
    BY <1>3 DEF OpenStatus, ChargerTypeOK
  <2> QED
    BY <1>3, <2>1, MailboxStays DEF OpenStatus, TokenInv, Started, CountInv
<1> QED
  BY <1>1, <1>2, <1>3 DEF app_battery_open

-----------------------------------------------------------------------------
(* The inductive invariant of the charger holds in every state: types, one *)
(* message about a change at most, the place of the token and the counts   *)
(* of the debounce handler and of the readings at the start.               *)
THEOREM ChargerInvariance == ChargerSpec => []ChargerIInv
<1>1. ChargerIInv /\ [ChargerNext]_chargerVars => ChargerIInv'
  <2> SUFFICES ASSUME ChargerIInv, [ChargerNext]_chargerVars PROVE ChargerIInv'
    OBVIOUS
  <2>1. CASE UNCHANGED chargerVars
    <3>1. ChargerTypeOK'
      BY <2>1 DEF ChargerIInv, ChargerTypeOK, chargerVars, pmuVars, debounceVars, openVars
    <3> QED
      BY <2>1, <3>1, MailboxStays
         DEF ChargerIInv, TokenInv, Started, CountInv, chargerVars, pmuVars, debounceVars, openVars
  <2>2. CASE ChargerNext
    BY <2>2, PlugIInv, HandlerIInv, DebounceExpiresIInv, DebounceArmIInv, DebounceStopIInv,
       ProcessIInv, OpenIInv DEF ChargerNext, app_battery_pluginout_debounce_handler
  <2> QED
    BY <2>1, <2>2
<1> QED
  BY InitChargerIInv, <1>1, PTL DEF ChargerSpec

(* Once the bud is started, a change of the charger is waited for, is on   *)
(* its way to the application thread, or is being debounced, and only one  *)
(* of them: app_battery_charger_handler takes itself away, and whoever     *)
(* takes over from it gives the power unit its handler back in the end.    *)
THEOREM Listening == ChargerSpec => []NeverDeaf
<1>1. ChargerIInv => NeverDeaf
  <2> SUFFICES ASSUME ChargerIInv PROVE NeverDeaf
    OBVIOUS
  <2>1. ChargerTypeOK /\ TokenInv /\ chargerMail \in Seq(Messages)
    BY DEF ChargerIInv, ChargerTypeOK, Messages
  <2>2. PLUGINOUT \in Range(chargerMail) <=> Posted
    BY <2>1, RangeEquality DEF Posted
  <2>3. ASSUME Started PROVE \E w \in Waiting : Waiting = {w}
    <3>1. CASE handler
      BY <2>1, <2>2, <3>1 DEF TokenInv, Waiting
    <3>2. CASE Posted
      BY <2>1, <2>2, <3>2 DEF TokenInv, Waiting
    <3>3. CASE debounceTimer
      BY <2>1, <2>2, <3>3 DEF TokenInv, Waiting
    <3>4. CASE tpc = "arm"
      BY <2>1, <2>2, <3>4 DEF TokenInv, Waiting
    <3> QED
      BY <2>1, <2>3, <3>1, <3>2, <3>3, <3>4 DEF TokenInv
  <2> QED
    BY <2>1, <2>3 DEF NeverDeaf, Started
<1> QED
  BY ChargerInvariance, <1>1, PTL

-----------------------------------------------------------------------------
(* The battery.                                                            *)

Slots == 0 .. STABLE_COUNT - 1
Millivolts == 0 .. UINT16_MAX
Kinds == {"INVALID", "OVERVOLT", "UNDERVOLT", "PDVOLT", "NORMAL", "CHARGING"}
Message == [status : Kinds, volt : Millivolts]
SlopeSlots == 0 .. SLOPE_COUNT - 1
ChargeState == [prevolt : Millivolts, rising : [SlopeSlots -> BOOLEAN], slot : SlopeSlots,
                cnt : {0, 1}, overvolt : 0 .. CNT_WRAP - 1]

(* How many samples ago a slot was written, if the samples n came one      *)
(* after the other: the next goes to slot n % STABLE_COUNT.                *)
Age(i, n) == IF i < n % STABLE_COUNT THEN (n % STABLE_COUNT) - i
             ELSE (n % STABLE_COUNT) - i + STABLE_COUNT

(* The slots that were written since the index was 0 hold the last samples *)
(* in the order of their age.                                              *)
InOrder == \A i \in Slots : Age(i, index) <= index => voltage[i] = recent[Age(i, index)]

RingInv ==
    /\ voltage \in [Slots -> Volts \cup {0}]
    /\ recent \in Seq(Volts) /\ Len(recent) <= STABLE_COUNT
    /\ Len(recent) >= IF index < STABLE_COUNT THEN index ELSE STABLE_COUNT
    /\ InOrder

AppInv == mailbox \in Seq(Message) /\ charging \in ChargeState

IInv == TypeOK /\ AppInv /\ RingInv

-----------------------------------------------------------------------------
(* The constants, each group as the steps below need it.                   *)
LEMMA Uint16 == UINT16_MAX \in Nat /\ UINT16_MAX > 0
BY DEF UINT16_MAX

(* Sizes and widths are numbers.                                           *)
LEMMA Numbers ==
    /\ STABLE_COUNT \in Nat /\ STABLE_COUNT > 0
    /\ INDEX_WRAP \in Nat /\ INDEX_WRAP > STABLE_COUNT
BY BatteryAssumption

(* What the converter can read fits in 16 bits.                            *)
LEMMA Voltages == Volts \subseteq Millivolts /\ Volts \cup {0} \subseteq Millivolts
BY BatteryAssumption, Uint16 DEF Millivolts

(* The mean of the samples is a voltage.                                   *)
LEMMA MeanType ==
    ASSUME NEW v \in [Slots -> Volts \cup {0}]
    PROVE  Mean(v) \in Millivolts
<1>1. IsFiniteSet(Slots) /\ Cardinality(Slots) = STABLE_COUNT
  BY Numbers, FS_Interval DEF Slots
<1>2. \A i \in Slots : v[i] \in 0 .. UINT16_MAX
  BY Voltages DEF Millivolts
<1>3. SumOver(v, Slots) \in Nat /\ SumOver(v, Slots) <= UINT16_MAX * STABLE_COUNT
  BY <1>1, <1>2, Uint16, SumBound
<1>4. SumFunction(v) = SumOver(v, Slots)
  <2>1. DOMAIN v = Slots
    OBVIOUS
  <2> QED
    BY <2>1, SumFunctionIsSum, Zenon
<1>5. SumOver(v, Slots) \div STABLE_COUNT \in 0 .. UINT16_MAX
  BY <1>3, Numbers, Uint16, DivBound
<1> QED
  BY <1>4, <1>5, Zenon DEF Mean, Millivolts

(* The age of a slot is that of one of the samples that are kept, and no   *)
(* two slots have the same.                                                *)
LEMMA AgeRange ==
    ASSUME NEW n \in Nat, NEW i \in Slots
    PROVE  Age(i, n) \in 1 .. STABLE_COUNT
<1>1. n % STABLE_COUNT \in 0 .. STABLE_COUNT - 1
  BY Numbers
<1> QED
  BY <1>1, Numbers DEF Age, Slots

(* Two slots have different ages.                                          *)
LEMMA AgeOneToOne ==
    ASSUME NEW n \in Nat
    PROVE  /\ \A i, j \in Slots : Age(i, n) = Age(j, n) => i = j
           /\ \A a \in 1 .. STABLE_COUNT : \E i \in Slots : Age(i, n) = a
<1>1. PICK p \in 0 .. STABLE_COUNT - 1 : p = n % STABLE_COUNT
  BY Numbers
<1>2. \A i \in Slots : Age(i, n) = IF i < p THEN p - i ELSE p - i + STABLE_COUNT
  BY <1>1 DEF Age
<1>3. \A i, j \in Slots : Age(i, n) = Age(j, n) => i = j
  BY <1>2, Numbers DEF Slots
<1>4. ASSUME NEW a \in 1 .. STABLE_COUNT PROVE \E i \in Slots : Age(i, n) = a
  <2>1. CASE a <= p
    <3>1. p - a \in Slots /\ Age(p - a, n) = a
      BY <1>2, <2>1, Numbers DEF Slots
    <3> QED
      BY <3>1
  <2>2. CASE a > p
    <3>1. p - a + STABLE_COUNT \in Slots /\ Age(p - a + STABLE_COUNT, n) = a
      BY <1>2, <2>2, Numbers DEF Slots
    <3> QED
      BY <3>1
  <2> QED
    BY <2>1, <2>2
<1> QED
  BY <1>3, <1>4

(* A sample ages every slot by one, but the one it is written to.          *)
LEMMA AgeNext ==
    ASSUME NEW n \in Nat, NEW i \in Slots
    PROVE  Age(i, n + 1) = IF i = n % STABLE_COUNT THEN 1 ELSE Age(i, n) + 1
<1>1. PICK p \in 0 .. STABLE_COUNT - 1 : p = n % STABLE_COUNT
  BY Numbers
<1>2. (n + 1) % STABLE_COUNT = IF p = STABLE_COUNT - 1 THEN 0 ELSE p + 1
  BY <1>1, Numbers, ModNext
<1>3. Age(i, n) = IF i < p THEN p - i ELSE p - i + STABLE_COUNT
  BY <1>1 DEF Age
<1>4. CASE p = STABLE_COUNT - 1
  <2>1. Age(i, n + 1) = 0 - i + STABLE_COUNT
    BY <1>2, <1>4, Numbers DEF Age, Slots
  <2> QED
    BY <1>1, <1>3, <1>4, <2>1, Numbers DEF Slots
<1>5. CASE p # STABLE_COUNT - 1
  <2>1. Age(i, n + 1) = IF i < p + 1 THEN p + 1 - i ELSE p + 1 - i + STABLE_COUNT
    BY <1>2, <1>5, Numbers DEF Age, Slots
  <2> QED
    BY <1>1, <1>3, <2>1, Numbers DEF Slots
<1> QED
  BY <1>4, <1>5

-----------------------------------------------------------------------------
(* What the mean of the samples is, when enough of them were made.         *)
LEMMA MeanIsOfLast ==
    ASSUME RingInv, index \in Nat, index > STABLE_COUNT
    PROVE  /\ Len(recent) = STABLE_COUNT
           /\ Mean(voltage) = FoldSeq(+, 0, recent) \div STABLE_COUNT
<1>1. Len(recent) = STABLE_COUNT
  BY Numbers, LenProperties DEF RingInv
<1>2. recent \in Seq(Volts) /\ DOMAIN recent = 1 .. STABLE_COUNT
  BY <1>1, LenProperties DEF RingInv
<1> DEFINE age == [i \in Slots |-> Age(i, index)]
<1>3. \A i \in Slots : age[i] = Age(i, index)
  OBVIOUS
<1>4. {age[i] : i \in Slots} = 1 .. STABLE_COUNT
  <2> HIDE DEF age
  <2>1. \A i \in Slots : age[i] \in 1 .. STABLE_COUNT
    BY <1>3, AgeRange
  <2>2. \A a \in 1 .. STABLE_COUNT : \E i \in Slots : age[i] = a
    BY <1>3, AgeOneToOne
  <2> QED
    BY <2>1, <2>2
<1>5. \A i, j \in Slots : age[i] = age[j] => i = j
  BY <1>3, AgeOneToOne
<1>6. \A i \in Slots : voltage[i] \in Int /\ recent[age[i]] = voltage[i]
  <2>1. \A i \in Slots : Age(i, index) <= index
    BY AgeRange, Numbers
  <2>2. \A i \in Slots : recent[Age(i, index)] = voltage[i]
    BY <2>1, Zenon DEF RingInv, InOrder
  <2>3. voltage \in [Slots -> Volts \cup {0}]
    BY DEF RingInv
  <2>4. \A i \in Slots : voltage[i] \in Int
    <3>1. \A i \in Slots : voltage[i] \in Volts \cup {0}
      BY <2>3
    <3>2. \A m \in Volts \cup {0} : m \in Int
      BY Voltages, Uint16 DEF Millivolts
    <3> QED
      BY <3>1, <3>2, Zenon
  <2> QED
    BY <1>3, <2>2, <2>4, Zenon
<1>7. IsFiniteSet(Slots)
  BY Numbers, FS_Interval DEF Slots
<1>8. SumOver(voltage, Slots) = SumOver(recent, 1 .. STABLE_COUNT)
  <2> HIDE DEF age
  <2>1. SumOver(voltage, Slots) = SumOver(recent, {age[i] : i \in Slots})
    BY <1>5, <1>6, <1>7, SumRenumbered
  <2> QED
    BY <1>4, <2>1, Zenon
<1>9. SumFunction(voltage) = SumOver(voltage, Slots)
  <2>1. DOMAIN voltage = Slots
    BY DEF RingInv
  <2> QED
    BY <2>1, SumFunctionIsSum, Zenon
<1>10. FoldSeq(+, 0, recent) = SumOver(recent, 1 .. STABLE_COUNT)
  BY <1>2, FoldSeqIsSum, Zenon
<1>11. Mean(voltage) = FoldSeq(+, 0, recent) \div STABLE_COUNT
  BY <1>8, <1>9, <1>10, Zenon DEF Mean
<1> QED
  BY <1>1, <1>11

-----------------------------------------------------------------------------
(* Starting.                                                               *)
LEMMA InitIInv == Init => IInv
<1> SUFFICES ASSUME Init PROVE IInv
  OBVIOUS
<1>1. TypeOK
  <2>1. /\ index \in 0 .. INDEX_WRAP - 1 /\ Len(mailbox) <= MAX_MAIL
        /\ \A i \in DOMAIN voltage : voltage[i] \in Volts \cup {0}
        /\ currvolt \in 0 .. UINT16_MAX /\ currlevel \in 0 .. LEVEL_MAX
    BY BatteryAssumption, Uint16 DEF Init
  <2>2. charging.slot \in 0 .. SLOPE_COUNT - 1 /\ charging.overvolt \in 0 .. CNT_WRAP - 1
    BY BatteryAssumption DEF Init, NoCharging
  <2>3. /\ timer \in {"off", "FAST", "NORMAL", "CHARGING"} /\ adc \in BOOLEAN
        /\ status \in {"NORMAL", "CHARGING"} /\ power \in {"on", "off"}
        /\ periodic \in {"QTY", "FAST", "NORMAL", "CHARGING"}
    BY Zenon DEF Init
  <2> QED
    BY <2>1, <2>2, <2>3, Zenon DEF TypeOK
<1>2. AppInv
  <2>1. charging \in ChargeState
    BY BatteryAssumption, Uint16 DEF Init, NoCharging, ChargeState, Millivolts, SlopeSlots
  <2> QED
    BY <2>1 DEF Init, AppInv
<1>3. RingInv
  <2>1. voltage \in [Slots -> Volts \cup {0}] /\ recent \in Seq(Volts)
    BY DEF Init, Slots
  <2>2. Len(recent) <= STABLE_COUNT /\ Len(recent) >= IF index < STABLE_COUNT THEN index ELSE STABLE_COUNT
    BY Numbers DEF Init
  <2>3. index = 0
    BY DEF Init
  <2>4. \A i \in Slots : ~ (Age(i, index) <= index)
    BY <2>3, AgeRange, Numbers
  <2> QED
    BY <2>1, <2>2, <2>4, Zenon DEF RingInv, InOrder
<1> QED
  BY <1>1, <1>2, <1>3 DEF IInv

-----------------------------------------------------------------------------
(* The samples.                                                            *)
LEMMA RecentAfter ==
    ASSUME RingInv, NEW vbat \in Volts,
           recent' = SubSeq(<<vbat>> \o recent, 1,
                            IF Len(recent) < STABLE_COUNT THEN Len(recent) + 1 ELSE STABLE_COUNT)
    PROVE  /\ recent' \in Seq(Volts)
           /\ Len(recent') = IF Len(recent) < STABLE_COUNT THEN Len(recent) + 1 ELSE STABLE_COUNT
           /\ recent'[1] = vbat
           /\ \A a \in 1 .. Len(recent) : a + 1 <= STABLE_COUNT => recent'[a + 1] = recent[a]
<1> DEFINE s == <<vbat>> \o recent
           n == IF Len(recent) < STABLE_COUNT THEN Len(recent) + 1 ELSE STABLE_COUNT
<1>1. recent \in Seq(Volts) /\ Len(recent) \in Nat /\ Len(recent) <= STABLE_COUNT
  BY LenProperties DEF RingInv
<1>2. <<vbat>> \in Seq(Volts) /\ Len(<<vbat>>) = 1 /\ <<vbat>>[1] = vbat
  OBVIOUS
<1>3. /\ s \in Seq(Volts) /\ Len(s) = Len(recent) + 1
      /\ s[1] = vbat /\ \A a \in 1 .. Len(recent) : s[a + 1] = recent[a]
  BY <1>1, <1>2, ConcatProperties
<1>4. n \in 1 .. Len(s)
  BY <1>1, <1>3, Numbers
<1> HIDE DEF s
<1>5. PICK m \in 1 .. Len(s) : m = n
  BY <1>4
<1>6. recent' = SubSeq(s, 1, m)
  BY <1>5 DEF s
<1>7. /\ SubSeq(s, 1, m) \in Seq(Volts) /\ Len(SubSeq(s, 1, m)) = m
      /\ \A i \in 1 .. m : SubSeq(s, 1, m)[i] = s[i]
  BY <1>3, <1>5, SubSeqProperties
<1>8. /\ recent' \in Seq(Volts) /\ Len(recent') = m
      /\ \A i \in 1 .. m : recent'[i] = s[i]
  BY <1>6, <1>7, Zenon
<1>9. recent'[1] = vbat
  BY <1>3, <1>5, <1>8
<1>10. \A a \in 1 .. Len(recent) : a + 1 <= STABLE_COUNT => recent'[a + 1] = recent[a]
  <2>1. \A a \in 1 .. Len(recent) : a + 1 <= STABLE_COUNT => a + 1 \in 1 .. m
    BY <1>1, <1>5, Numbers
  <2> QED
    BY <1>3, <1>8, <2>1, Zenon
<1> QED
  BY <1>5, <1>8, <1>9, <1>10, Zenon

(* A sample keeps the ring in order.                                       *)
LEMMA RingSampled ==
    ASSUME RingInv, index \in 0 .. INDEX_WRAP - 1, NEW vbat \in Volts, GoodSample(vbat)
    PROVE  RingInv' /\ index' \in 0 .. INDEX_WRAP - 1
<1>1. /\ voltage' = [voltage EXCEPT ![index % STABLE_COUNT] = vbat]
      /\ index' = (index + 1) % INDEX_WRAP
      /\ recent' = SubSeq(<<vbat>> \o recent, 1,
                          IF Len(recent) < STABLE_COUNT THEN Len(recent) + 1 ELSE STABLE_COUNT)
  BY DEF GoodSample
<1>2. /\ recent' \in Seq(Volts)
      /\ Len(recent') = IF Len(recent) < STABLE_COUNT THEN Len(recent) + 1 ELSE STABLE_COUNT
      /\ recent'[1] = vbat
      /\ \A a \in 1 .. Len(recent) : a + 1 <= STABLE_COUNT => recent'[a + 1] = recent[a]
  BY <1>1, RecentAfter
<1>3. index \in Nat /\ index % STABLE_COUNT \in Slots
  BY Numbers DEF Slots
<1>4. /\ voltage' \in [Slots -> Volts \cup {0}]
      /\ voltage'[index % STABLE_COUNT] = vbat
      /\ \A i \in Slots : i # index % STABLE_COUNT => voltage'[i] = voltage[i]
  BY <1>1, <1>3 DEF RingInv
<1>5. Len(recent) \in Nat /\ Len(recent) <= STABLE_COUNT
      /\ Len(recent) >= IF index < STABLE_COUNT THEN index ELSE STABLE_COUNT
  BY LenProperties DEF RingInv
<1>6. CASE index + 1 < INDEX_WRAP
  <2>1. index' = index + 1
    BY <1>1, <1>3, <1>6, Numbers
  <2>2. Len(recent') <= STABLE_COUNT
        /\ Len(recent') >= IF index' < STABLE_COUNT THEN index' ELSE STABLE_COUNT
    BY <1>2, <1>3, <1>5, <2>1, Numbers
  <2>3. ASSUME NEW i \in Slots, Age(i, index + 1) <= index + 1
        PROVE  voltage'[i] = recent'[Age(i, index + 1)]
    <3>1. CASE i = index % STABLE_COUNT
      <4>1. Age(i, index + 1) = 1
        BY <1>3, <3>1, AgeNext
      <4> QED
        BY <1>2, <1>4, <3>1, <4>1
    <3>2. CASE i # index % STABLE_COUNT
      <4>1. PICK a \in 1 .. STABLE_COUNT : a = Age(i, index)
        BY <1>3, AgeRange
      <4>2. Age(i, index + 1) = a + 1
        BY <1>3, <3>2, <4>1, AgeNext
      <4>3. a + 1 \in 1 .. STABLE_COUNT
        BY <1>3, <4>2, AgeRange
      <4>4. a <= index /\ a <= Len(recent)
        BY <1>3, <1>5, <2>3, <4>2, <4>3, Numbers
      <4>5. voltage[i] = recent[a]
        BY <4>1, <4>4, Zenon DEF RingInv, InOrder
      <4>6. recent'[a + 1] = recent[a]
        BY <1>2, <1>5, <4>3, <4>4
      <4> QED
        BY <1>4, <3>2, <4>2, <4>5, <4>6
    <3> QED
      BY <3>1, <3>2
  <2>4. InOrder'
    BY <2>1, <2>3, Zenon DEF InOrder
  <2>5. index' \in 0 .. INDEX_WRAP - 1
    BY <1>3, <1>6, <2>1, Numbers
  <2> QED
    BY <1>2, <1>4, <2>2, <2>4, <2>5, Zenon DEF RingInv
<1>7. CASE index + 1 = INDEX_WRAP
  <2>1. index' = 0
    BY <1>1, <1>7, Numbers
  <2>2. Len(recent') <= STABLE_COUNT
        /\ Len(recent') >= IF index' < STABLE_COUNT THEN index' ELSE STABLE_COUNT
    BY <1>2, <1>5, <2>1, Numbers
  <2>3. \A i \in Slots : ~ (Age(i, 0) <= 0)
    BY AgeRange, Numbers
  <2>4. InOrder'
    BY <2>1, <2>3, Zenon DEF InOrder
  <2> QED
    BY <1>2, <1>4, <2>1, <2>2, <2>4, Numbers DEF RingInv
<1> QED
  BY <1>3, <1>6, <1>7, Numbers

-----------------------------------------------------------------------------
(* The other variables.  Zenon is given what is not arithmetic.            *)
Names == /\ timer \in {"off", "FAST", "NORMAL", "CHARGING"} /\ adc \in BOOLEAN
         /\ status \in {"NORMAL", "CHARGING"} /\ power \in {"on", "off"}
         /\ periodic \in {"QTY", "FAST", "NORMAL", "CHARGING"}
Shown == currvolt \in Millivolts /\ currlevel \in 0 .. LEVEL_MAX
Mailed == mailbox \in Seq(Message) /\ Len(mailbox) <= MAX_MAIL
Ring == RingInv /\ index \in 0 .. INDEX_WRAP - 1

(* The invariant is these parts.                                           *)
LEMMA Parts == IInv <=> Names /\ Shown /\ Mailed /\ charging \in ChargeState /\ Ring
<1>1. charging \in ChargeState =>
        charging.slot \in 0 .. SLOPE_COUNT - 1 /\ charging.overvolt \in 0 .. CNT_WRAP - 1
  BY DEF ChargeState, SlopeSlots
<1>2. RingInv => \A i \in DOMAIN voltage : voltage[i] \in Volts \cup {0}
  BY DEF RingInv
<1> QED
  BY <1>1, <1>2, Zenon DEF IInv, TypeOK, AppInv, Names, Shown, Mailed, Ring, Millivolts

(* The same in the next state.                                             *)
LEMMA PartsPrime == IInv' <=> Names' /\ Shown' /\ Mailed' /\ charging' \in ChargeState /\ Ring'
<1>1. charging' \in ChargeState =>
        charging'.slot \in 0 .. SLOPE_COUNT - 1 /\ charging'.overvolt \in 0 .. CNT_WRAP - 1
  BY DEF ChargeState, SlopeSlots
<1>2. RingInv' => \A i \in DOMAIN voltage' : voltage'[i] \in Volts \cup {0}
  BY DEF RingInv
<1> QED
  BY <1>1, <1>2, Zenon DEF IInv, TypeOK, AppInv, Names, Shown, Mailed, Ring, Millivolts

(* What a step leaves alone it keeps.                                      *)
LEMMA RingKept == Ring /\ UNCHANGED <<voltage, index, recent>> => Ring'
BY Zenon DEF Ring, RingInv, InOrder

LEMMA ShownKept == Shown /\ UNCHANGED <<currvolt, currlevel>> => Shown'
BY Zenon DEF Shown

LEMMA MailKept == Mailed /\ UNCHANGED mailbox => Mailed'
BY Zenon DEF Mailed

(* A message more, and one less.                                           *)
LEMMA MailMore ==
    ASSUME Mailed, Len(mailbox) < MAX_MAIL, NEW m \in Message, mailbox' = Append(mailbox, m)
    PROVE  Mailed'
<1>1. mailbox \in Seq(Message) /\ Len(mailbox) \in Nat
  BY LenProperties DEF Mailed
<1>2. Append(mailbox, m) \in Seq(Message) /\ Len(Append(mailbox, m)) = Len(mailbox) + 1
  BY <1>1, AppendProperties
<1>3. Len(mailbox) + 1 <= MAX_MAIL
  BY <1>1, BatteryAssumption
<1> QED
  BY <1>2, <1>3, Zenon DEF Mailed

LEMMA MailLess ==
    ASSUME Mailed, mailbox # <<>>, mailbox' = Tail(mailbox)
    PROVE  Mailed' /\ Head(mailbox) \in Message
<1>1. mailbox \in Seq(Message) /\ Len(mailbox) \in Nat /\ Len(mailbox) <= MAX_MAIL
  BY LenProperties DEF Mailed
<1>2. /\ Tail(mailbox) \in Seq(Message) /\ Len(Tail(mailbox)) = Len(mailbox) - 1
      /\ Head(mailbox) \in Message
  BY <1>1, HeadTailProperties
<1>3. Len(mailbox) - 1 <= MAX_MAIL
  BY <1>1, BatteryAssumption
<1> QED
  BY <1>2, <1>3, Zenon DEF Mailed

(* Levels.                                                                 *)
LEMMA ClampType == ASSUME NEW level \in Int PROVE Clamp(level) \in 0 .. LEVEL_MAX
BY BatteryAssumption DEF Clamp

LEMMA Int8Type == ASSUME NEW n \in Int PROVE Int8(n) \in Int
BY DEF Int8

LEMMA LevelType ==
    ASSUME NEW mv \in Millivolts
    PROVE  /\ Int8((mv - PD) \div MV_BASE) \in Int
           /\ UnsignedLevel(mv) \in Int
<1>1. mv \in Int /\ PD \in Int /\ HIGH \in Int /\ LEVEL_MAX \in Nat
  BY BatteryAssumption, Uint16 DEF Millivolts
<1>2. MV_BASE \in Int
  BY <1>1 DEF MV_BASE
<1>3. MV_BASE > 0
  BY BatteryAssumption
<1>4. PICK b \in Int : b = MV_BASE /\ b > 0
  BY <1>2, <1>3
<1>5. (mv - PD) \div b \in Int /\ WRAP_LEVEL + ((26 - (PD - mv)) \div b) \in Int
  <2>1. WRAP_LEVEL \in Int
    BY DEF WRAP_LEVEL
  <2> QED
    BY <1>1, <1>4, <2>1
<1>6. /\ (mv - PD) \div MV_BASE \in Int
      /\ WRAP_LEVEL + ((26 - (PD - mv)) \div MV_BASE) \in Int
  BY <1>4, <1>5, Zenon
<1> QED
  BY <1>6, Int8Type, Zenon DEF UnsignedLevel

(* The samples' interrupt.                                                 *)
LEMMA KindType == ASSUME NEW mean PROVE Kind(mean) \in Kinds
BY Zenon DEF Kind, Kinds

(* app_battery_irqhandler.                                                 *)
LEMMA IrqKeeps ==
    ASSUME IInv, NEW vbat \in Volts, app_battery_irqhandler(vbat)
    PROVE  IInv'
<1>1. Names /\ Shown /\ Mailed /\ charging \in ChargeState /\ Ring
  BY Parts
<1>2. vbat \in Millivolts
  BY Voltages
<1>3. Names' /\ charging' \in ChargeState
  BY <1>1, Zenon DEF Names, app_battery_irqhandler
<1>4. Len(mailbox) < MAX_MAIL
  BY DEF app_battery_irqhandler
<1>5. CASE BadSample(vbat)
  <2>1. Measured("INVALID", vbat) \in Message
    BY <1>2 DEF Measured, Message, Kinds
  <2>2. Mailed'
    BY <1>1, <1>4, <1>5, <2>1, MailMore DEF BadSample
  <2> QED
    BY <1>1, <1>3, <1>5, <2>2, PartsPrime, RingKept, ShownKept, Zenon DEF BadSample
<1>6. CASE GoodSample(vbat)
  <2>1. Ring'
    BY <1>1, <1>6, RingSampled DEF Ring
  <2>2. CASE Stable(index')
    <3>1. Mean(voltage') \in Millivolts
      BY <2>1, MeanType DEF Ring, RingInv
    <3>2. PICK m : m = Measured(Kind(Mean(voltage')), Mean(voltage'))
      OBVIOUS
    <3>3. m \in Message
      BY <3>1, <3>2, KindType DEF Measured, Message
    <3>4. mailbox' = Append(mailbox, m) /\ UNCHANGED <<currvolt, currlevel>>
      BY <1>6, <2>2, <3>2, Zenon DEF GoodSample
    <3>5. Mailed' /\ Shown'
      BY <1>1, <1>4, <3>3, <3>4, MailMore, ShownKept
    <3> QED
      BY <1>3, <2>1, <3>5, PartsPrime, Zenon
  <2>3. CASE ~Stable(index')
    <3>1. currvolt' = vbat /\ currlevel' = Clamp(UnsignedLevel(vbat)) /\ UNCHANGED mailbox
      BY <1>6, <2>3, Zenon DEF GoodSample
    <3>2. Shown'
      BY <1>2, <3>1, LevelType, ClampType, Zenon DEF Shown
    <3> QED
      BY <1>1, <1>3, <2>1, <3>1, <3>2, PartsPrime, MailKept, Zenon
  <2> QED
    BY <2>2, <2>3
<1> QED
  BY <1>5, <1>6 DEF app_battery_irqhandler

-----------------------------------------------------------------------------
(* Finding out whether the battery is charged.                             *)
LEMMA OvervoltType ==
    ASSUME NEW c \in ChargeState, NEW mv \in Millivolts
    PROVE  /\ Overvolt(c, mv) \in 0 .. CNT_WRAP - 1
           /\ Overvolt(c, mv) >= OVERVOLT_CNT => mv >= HIGH - OFFSET
<1>1. c.overvolt \in Nat
  BY BatteryAssumption DEF ChargeState
<1>2. /\ CNT_WRAP \in Nat \ {0} /\ OVERVOLT_CNT \in Nat \ {0}
      /\ HIGH \in Nat /\ OFFSET \in Nat /\ mv \in Nat
  BY BatteryAssumption, Uint16 DEF Millivolts
<1> QED
  BY <1>1, <1>2 DEF Overvolt

(* The counts and the slope of the charging.                               *)
LEMMA SlopeType ==
    ASSUME NEW c \in ChargeState, NEW mv \in Millivolts
    PROVE  SlopeAfter(c, mv) \in ChargeState
<1>1. c.slot \in Nat /\ SLOPE_COUNT \in Nat \ {0}
  BY BatteryAssumption DEF ChargeState, SlopeSlots
<1>2. (c.slot + 1) % SLOPE_COUNT \in SlopeSlots
  BY <1>1 DEF SlopeSlots
<1>3. /\ c.rising \in [SlopeSlots -> BOOLEAN]
      /\ [i \in DOMAIN c.rising |-> TRUE] \in [SlopeSlots -> BOOLEAN]
      /\ [c.rising EXCEPT ![c.slot] = mv > c.prevolt] \in [SlopeSlots -> BOOLEAN]
  BY DEF ChargeState
<1> QED
  BY <1>2, <1>3 DEF SlopeAfter, ChargeState

LEMMA ChargedType ==
    ASSUME NEW c \in ChargeState, NEW mv \in Millivolts
    PROVE  /\ Charged(c, mv).c \in ChargeState
           /\ Charged(c, mv).full => timeout \/ mv >= HIGH - OFFSET
<1>1. PICK over : over = [c EXCEPT !.overvolt = Overvolt(c, mv), !.cnt = (@ + 1) % 2]
  OBVIOUS
<1>2. c.cnt \in {0, 1} /\ (c.cnt + 1) % 2 \in {0, 1} /\ (c.cnt + 3) % 2 \in {0, 1}
  BY DEF ChargeState
<1>3. over \in ChargeState /\ over.overvolt = Overvolt(c, mv)
  BY <1>1, <1>2, OvervoltType DEF ChargeState
<1>4. PICK slope : slope = IF SlopeDue(c) THEN SlopeAfter(over, mv) ELSE over
  OBVIOUS
<1>5. slope \in ChargeState
  BY <1>3, <1>4, SlopeType
<1>6. [slope EXCEPT !.cnt = (c.cnt + 3) % 2] \in ChargeState
  BY <1>2, <1>5 DEF ChargeState
<1>7. Charged(c, mv) =
        CASE timeout -> [c |-> c, full |-> TRUE]
          [] ~timeout /\ over.overvolt >= OVERVOLT_CNT -> [c |-> over, full |-> TRUE]
          [] OTHER -> [c |-> [slope EXCEPT !.cnt = (c.cnt + 3) % 2],
                       full |-> SlopeDue(c) /\ c.prevolt # 0 /\ ~Rising(slope.rising)
                                /\ mv >= HIGH - OFFSET]
  BY <1>1, <1>4, Zenon DEF Charged
<1>8. CASE timeout
  <2>1. Charged(c, mv) = [c |-> c, full |-> TRUE]
    BY <1>7, <1>8, Zenon
  <2> QED
    BY <1>8, <2>1
<1>9. CASE ~timeout /\ over.overvolt >= OVERVOLT_CNT
  <2>1. Charged(c, mv) = [c |-> over, full |-> TRUE]
    BY <1>7, <1>9, Zenon
  <2>2. mv >= HIGH - OFFSET
    BY <1>3, <1>9, OvervoltType
  <2> QED
    BY <1>3, <2>1, <2>2
<1>10. CASE ~timeout /\ ~ (over.overvolt >= OVERVOLT_CNT)
  <2>1. Charged(c, mv) = [c |-> [slope EXCEPT !.cnt = (c.cnt + 3) % 2],
                          full |-> SlopeDue(c) /\ c.prevolt # 0 /\ ~Rising(slope.rising)
                                   /\ mv >= HIGH - OFFSET]
    BY <1>7, <1>10, Zenon
  <2>2. /\ Charged(c, mv).c = [slope EXCEPT !.cnt = (c.cnt + 3) % 2]
        /\ Charged(c, mv).full = (SlopeDue(c) /\ c.prevolt # 0 /\ ~Rising(slope.rising)
                                  /\ mv >= HIGH - OFFSET)
    BY <2>1
  <2> QED
    BY <1>6, <2>2, Zenon
<1> QED
  BY <1>8, <1>9, <1>10, Zenon

(* What the application thread makes of a message.                         *)
LEMMA TimerStart ==
    ASSUME Names, NEW period \in {"FAST", "NORMAL", "CHARGING"}, app_battery_timer_start(period)
    PROVE  /\ timer' \in {"off", "FAST", "NORMAL", "CHARGING"}
           /\ periodic' \in {"QTY", "FAST", "NORMAL", "CHARGING"}
BY Zenon DEF Names, app_battery_timer_start

LEMMA NormalKeeps ==
    ASSUME Names, Shown, charging \in ChargeState, NEW m \in Message,
           app_battery_handle_process_normal(m), UNCHANGED adc
    PROVE  Names' /\ Shown' /\ charging' \in ChargeState /\ (indication' => indication)
<1>1. m.volt \in Millivolts
  BY DEF Message
<1>2. app_battery_timer_start("NORMAL")
  BY DEF app_battery_handle_process_normal
<1>3. Names'
  <2>1. timer' \in {"off", "FAST", "NORMAL", "CHARGING"} /\ periodic' \in {"QTY", "FAST", "NORMAL", "CHARGING"}
    BY <1>2, TimerStart, Zenon
  <2>2. status' \in {"NORMAL", "CHARGING"} /\ power' \in {"on", "off"} /\ adc' \in BOOLEAN
    BY Zenon DEF Names, app_battery_handle_process_normal
  <2> QED
    BY <2>1, <2>2, Zenon DEF Names
<1>4. Shown'
  <2>1. CASE m.status \in {"UNDERVOLT", "NORMAL", "OVERVOLT"}
    <3>1. currvolt' = m.volt /\ currlevel' = Clamp(Int8((m.volt - PD) \div MV_BASE))
      BY <2>1, Zenon DEF app_battery_handle_process_normal
    <3> QED
      BY <1>1, <3>1, LevelType, ClampType, Zenon DEF Shown
  <2>2. CASE m.status \notin {"UNDERVOLT", "NORMAL", "OVERVOLT"}
    BY <2>2, ShownKept, Zenon DEF app_battery_handle_process_normal
  <2> QED
    BY <2>1, <2>2
<1>5. UNCHANGED charging /\ (indication' => indication)
  BY Zenon DEF app_battery_handle_process_normal
<1> QED
  BY <1>3, <1>4, <1>5, Zenon

LEMMA ChargingKeeps ==
    ASSUME Names, Shown, charging \in ChargeState, NEW m \in Message,
           app_battery_handle_process_charging(m), UNCHANGED adc
    PROVE  /\ Names' /\ Shown' /\ charging' \in ChargeState
           /\ indication' /\ ~indication => timeout \/ currvolt' >= HIGH - OFFSET
<1>1. m.volt \in Millivolts
  BY DEF Message
<1>2. app_battery_timer_start("CHARGING")
  BY DEF app_battery_handle_process_charging
<1>3. Names'
  <2>1. timer' \in {"off", "FAST", "NORMAL", "CHARGING"} /\ periodic' \in {"QTY", "FAST", "NORMAL", "CHARGING"}
    BY <1>2, TimerStart, Zenon
  <2>2. status' \in {"NORMAL", "CHARGING"} /\ power' \in {"on", "off"} /\ adc' \in BOOLEAN
    BY Zenon DEF Names, app_battery_handle_process_charging
  <2> QED
    BY <2>1, <2>2, Zenon DEF Names
<1>4. currvolt' \in Millivolts
  BY <1>1, Zenon DEF Shown, app_battery_handle_process_charging
<1>5. Shown'
  BY <1>4, Zenon DEF Shown, app_battery_handle_process_charging
<1>6. PICK mv \in Millivolts : mv = currvolt'
  BY <1>4
<1>7. charging' = Charged(charging, mv).c /\ (indication' <=> indication \/ Charged(charging, mv).full)
  BY <1>6, Zenon DEF app_battery_handle_process_charging
<1>8. /\ Charged(charging, mv).c \in ChargeState
      /\ Charged(charging, mv).full => timeout \/ mv >= HIGH - OFFSET
  BY ChargedType, Zenon
<1> QED
  BY <1>3, <1>5, <1>6, <1>7, <1>8, Zenon

(* Whether the battery may be said to be charged now.                      *)
FullStep == indication' /\ ~indication => timeout \/ currvolt' >= HIGH - OFFSET

LEMMA ProcessKeeps ==
    ASSUME IInv, app_battery_handle_process
    PROVE  IInv' /\ FullStep
<1>1. Names /\ Shown /\ Mailed /\ charging \in ChargeState /\ Ring
  BY Parts
<1>2. Mailed' /\ Head(mailbox) \in Message
  BY <1>1, MailLess DEF app_battery_handle_process
<1>3. Ring' /\ UNCHANGED adc
  BY <1>1, RingKept, Zenon DEF app_battery_handle_process, adcVars
<1>4. CASE app_battery_handle_process_normal(Head(mailbox))
  BY <1>1, <1>2, <1>3, <1>4, NormalKeeps, PartsPrime, Zenon DEF FullStep
<1>5. CASE app_battery_handle_process_charging(Head(mailbox))
  BY <1>1, <1>2, <1>3, <1>5, ChargingKeeps, PartsPrime, Zenon DEF FullStep
<1> QED
  BY <1>4, <1>5, Zenon DEF app_battery_handle_process

-----------------------------------------------------------------------------
(* The steps that post or measure nothing.                                 *)
LEMMA PluggedKeeps ==
    ASSUME IInv, NEW plugin \in BOOLEAN, Plugged(plugin)
    PROVE  IInv'
<1>1. Names /\ Shown /\ Mailed /\ charging \in ChargeState /\ Ring
  BY Parts
<1>2. Charger(plugin) \in Message
  <2>1. 0 \in Millivolts /\ 1 \in Millivolts
    BY Uint16 DEF Millivolts
  <2> QED
    BY <2>1 DEF Charger, Message, Kinds
<1>3. Len(mailbox) < MAX_MAIL
  <2>1. Len(mailbox) \in Nat
    BY <1>1, LenProperties DEF Mailed
  <2> QED
    BY <2>1, BatteryAssumption DEF Plugged
<1>4. Mailed'
  BY <1>1, <1>2, <1>3, MailMore DEF Plugged
<1>5. Names' /\ Shown' /\ charging' \in ChargeState /\ Ring'
  BY <1>1, ShownKept, RingKept, Zenon DEF Names, Plugged, adcVars, appVars
<1> QED
  BY <1>4, <1>5, PartsPrime, Zenon

LEMMA OthersKeep ==
    ASSUME IInv,
           \/ app_battery_start \/ app_battery_stop \/ app_battery_timer_handler
           \/ TimePasses \/ IndicateOther \/ UNCHANGED vars
    PROVE  IInv'
<1>1. Names /\ Shown /\ Mailed /\ charging \in ChargeState /\ Ring
  BY Parts
<1>2. UNCHANGED <<voltage, index, recent, currvolt, currlevel, mailbox, charging>>
  BY Zenon DEF app_battery_start, app_battery_stop, app_battery_timer_handler, TimePasses,
               IndicateOther, vars, adcVars, appVars
<1>3. Shown' /\ Mailed' /\ charging' \in ChargeState /\ Ring'
  BY <1>1, <1>2, ShownKept, MailKept, RingKept, Zenon
<1>4. Names'
  <2>1. CASE app_battery_start
    BY <1>1, <2>1, TimerStart, Zenon DEF Names, app_battery_start, adcVars
  <2>2. CASE ~app_battery_start
    BY <1>1, <2>2, Zenon DEF Names, app_battery_stop, app_battery_timer_handler, TimePasses,
                             IndicateOther, vars, adcVars, appVars
  <2> QED
    BY <2>1, <2>2
<1> QED
  BY <1>3, <1>4, PartsPrime, Zenon

LEMMA NextKeeps == IInv /\ [Next]_vars => IInv'
BY IrqKeeps, ProcessKeeps, PluggedKeeps, OthersKeep, Zenon DEF Next

(* Only the application thread says that the battery is charged.           *)
LEMMA NextFull == IInv /\ [Next]_vars => FullStep
<1> SUFFICES ASSUME IInv, [Next]_vars, ~app_battery_handle_process PROVE indication' => indication
  BY ProcessKeeps, Zenon DEF FullStep
<1> QED
  BY Zenon DEF Next, app_battery_start, app_battery_stop, app_battery_timer_handler,
               app_battery_irqhandler, Plugged, TimePasses, IndicateOther, vars, appVars

-----------------------------------------------------------------------------
(* The inductive invariant of the battery holds in every state: types, the *)
(* mailbox, the state of the charging, and for each slot of the ring of       *)
(* samples, by its age, which sample app_battery_irqhandler has put there, *)
(* also after its index has wrapped.                                       *)
THEOREM BatteryInvariant == Spec => []IInv
<1>1. Init => IInv
  BY InitIInv
<1>2. IInv /\ [Next]_vars => IInv'
  BY NextKeeps
<1> QED
  BY <1>1, <1>2, PTL DEF Spec

(* When app_battery_irqhandler takes a mean it is that of the last samples *)
(* it made, for any number of samples in a mean and any width of the       *)
(* index: no slot of the ring is left out or counted twice.                *)
THEOREM BatteryMeanOfLast == Spec => []MeanOfLast
<1>1. IInv => MeanOfLast
  <2> SUFFICES ASSUME IInv PROVE MeanOfLast
    OBVIOUS
  <2>1. TypeOK /\ RingInv
    BY DEF IInv
  <2>2. index \in Nat
    BY <2>1, Numbers DEF TypeOK
  <2>3. Stable(index) => /\ Len(recent) = STABLE_COUNT
                         /\ Mean(voltage) = FoldSeq(+, 0, recent) \div STABLE_COUNT
    BY <2>1, <2>2, MeanIsOfLast, Zenon DEF Stable
  <2> QED
    BY <2>1, <2>3, Zenon DEF MeanOfLast
<1> QED
  BY <1>1, BatteryInvariant, PTL

(* app_battery_charger_handle_process gives the indication that the        *)
(* battery is charged only after the charge timeout, or when the voltage   *)
(* it was called with, which the same message made the current one, is     *)
(* that of a full battery.                                                 *)
THEOREM BatteryFullGenuine == Spec => FullGenuine
<1>1. IInv /\ [Next]_vars => [FullStep]_vars
  BY NextFull
<1>2. [][FullStep]_vars => FullGenuine
  BY PTL DEF FullGenuine, FullStep
<1> QED
  BY <1>1, <1>2, BatteryInvariant, PTL DEF Spec
==============================================================================
