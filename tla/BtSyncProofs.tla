----------------------------- MODULE BtSyncProofs -----------------------------
(***************************************************************************)
(* Proofs about the timeout supervision of the synchronised triggers: for  *)
(* every number of channels, every timeout and every set of operations the *)
(* table stays in the order of age (FirstIsClosest) and the one timer is   *)
(* for its first entry, to the unit (TimerExact).                          *)
(*                                                                         *)
(* The table keeps what was left of an entry's time when lastSysTicks was  *)
(* last moved on.  TableInv ties that to the entry's real age; MutexInv    *)
(* says what the mutex is for: who holds it finds the table as it left it. *)
(***************************************************************************)
EXTENDS BtSync, ArithmeticTheorems, TLAPS

Entry == [op : Ops, ms : 0 .. TIMEOUT, idx : Channels, age : 0 .. (TIMEOUT + MAX_LATE)]

(* What is left of an entry's time is what its age says, until it is due.  *)
Dated(e, t) == IF e.age < TIMEOUT THEN e.ms + e.age = TIMEOUT + t ELSE e.ms <= t

Ordered(table, n) == \A i, j \in 1 .. n : i < j => table[i].age >= table[j].age

TableInv ==
    /\ \A i \in 1 .. count : Dated(statusInstance[i], since)
    /\ Ordered(statusInstance, count)

MutexInv ==
    /\ ~(caller.pc = "start" /\ app.pc = "start")
    /\ app.pc = "remove" => EntriesOf(app.op) # {}
    /\ caller.pc = "start" => count > 0 /\ since = 0 /\ statusInstance[1].age < TIMEOUT

IInv == TypeOK /\ TableInv /\ MutexInv /\ TimerExact

-----------------------------------------------------------------------------
LEMMA Numbers ==
    /\ CHANNEL_MAX \in Nat \ {0} /\ TIMEOUT \in Nat \ {0} /\ MAILBOX_MAX \in Nat \ {0}
    /\ MAX_LATE \in Nat /\ "RETRIGGER" \in Ops
BY BtSyncAssumption DEF BtSyncAssumption

(* Time moves on by a unit, as long as it is counted.                      *)
LEMMA LaterCounts ==
    ASSUME NEW t \in 0 .. (TIMEOUT + MAX_LATE)
    PROVE  /\ Later(t) \in 0 .. (TIMEOUT + MAX_LATE)
           /\ Later(t) >= t
           /\ t < TIMEOUT => Later(t) = t + 1
           /\ t >= TIMEOUT => Later(t) >= TIMEOUT
           /\ \A u \in 0 .. (TIMEOUT + MAX_LATE) : u <= t => Later(u) <= Later(t)
<1>1. ASSUME NEW u \in 0 .. (TIMEOUT + MAX_LATE)
      PROVE  Later(u) = IF u + 1 <= TIMEOUT + MAX_LATE THEN u + 1 ELSE TIMEOUT + MAX_LATE
  <2> DEFINE T == {u + 1, TIMEOUT + MAX_LATE}
  <2>1. T \subseteq Nat /\ T # {}
    BY Numbers
  <2>2. Min(T) \in T /\ \A y \in T : Min(T) <= y
    BY <2>1, MinIsLeast
  <2>3. Later(u) = Min(T)
    BY DEF Later
  <2>4. PICK m : m = Min(T)
    OBVIOUS
  <2>5. m \in T /\ m <= u + 1 /\ m <= TIMEOUT + MAX_LATE
    BY <2>2, <2>4
  <2> QED
    BY <2>3, <2>4, <2>5, Numbers
<1> QED
  BY <1>1, Numbers

-----------------------------------------------------------------------------
LEMMA TypeInit == Init => TypeOK
<1> SUFFICES ASSUME Init PROVE TypeOK
  OBVIOUS
<1>1. 1 \in Channels /\ NoEntry \in Entry
  BY Numbers DEF Channels, NoEntry, Entry
<1>2. statusInstance \in [Entries -> Entry]
  BY <1>1 DEF Init
<1>3. {used, armed} \subseteq [Channels -> BOOLEAN] /\ opCode \in [Channels -> Ops]
  BY Numbers DEF Init
<1>4. /\ caller \in [pc : {"idle", "alloc", "arm", "add", "start"}, op : Ops, idx : Channels]
      /\ app \in [pc : {"idle", "remove", "start"}, op : Ops]
  BY <1>1, Numbers DEF Init, NoCaller, NoMessage
<1>5. mailbox \in Seq([op : Ops, result : BOOLEAN]) /\ Len(mailbox) <= MAILBOX_MAX
  BY Numbers DEF Init
<1>6. count \in 0 .. CHANNEL_MAX /\ since \in 0 .. (TIMEOUT + MAX_LATE)
  BY Numbers DEF Init, count
<1>7. osTimer \in 0 .. TIMEOUT /\ expired \in 0 .. 1
  BY Numbers DEF Init
<1>8. asserted \in BOOLEAN
  BY DEF Init
<1> QED
  BY <1>2, <1>3, <1>4, <1>5, <1>6, <1>7, <1>8 DEF TypeOK, Entry

(* A refreshed table: nobody was due, so that something is left.           *)
LEMMA Refreshed ==
    ASSUME TypeOK, ~RefreshAsserts, NEW table \in [Entries -> Entry],
           \A i \in 1 .. count : table[i] = statusInstance[i],
           Refresh(table)
    PROVE  /\ since' = 0
           /\ statusInstance' \in [Entries -> Entry]
           /\ \A i \in 1 .. count : /\ statusInstance'[i].ms = statusInstance[i].ms - since
                                    /\ statusInstance'[i].age = statusInstance[i].age
                                    /\ statusInstance'[i].op = statusInstance[i].op
           /\ \A i \in Entries : i > count => statusInstance'[i] = table[i]
<1>1. count \in 0 .. CHANNEL_MAX /\ since \in Nat /\ Entries = 1 .. CHANNEL_MAX
  BY Numbers DEF TypeOK, Entries
<1>2. since' = 0
  BY DEF Refresh
<1>3. \A i \in Entries : statusInstance'[i] =
         IF i <= count THEN [table[i] EXCEPT !.ms = @ - since] ELSE table[i]
  BY DEF Refresh
<1>4. ASSUME NEW i \in 1 .. count
      PROVE  /\ statusInstance'[i] \in Entry
             /\ statusInstance'[i].ms = statusInstance[i].ms - since
             /\ statusInstance'[i].age = statusInstance[i].age
             /\ statusInstance'[i].op = statusInstance[i].op
  <2>1. i \in Entries /\ i <= count
    BY <1>1, Numbers
  <2>2. PICK e \in Entry : e = table[i] /\ e = statusInstance[i]
    BY <2>1
  <2>3. e.ms \in 0 .. TIMEOUT /\ e.ms > since
    BY <1>1, <2>2, Numbers DEF RefreshAsserts, Entry
  <2>4. statusInstance'[i] = [e EXCEPT !.ms = e.ms - since]
    BY <1>3, <2>1, <2>2
  <2>5. e.ms - since \in 0 .. TIMEOUT
    BY <1>1, <2>3, Numbers
  <2> QED
    BY <2>2, <2>4, <2>5 DEF Entry
<1>5. ASSUME NEW i \in Entries, i > count PROVE statusInstance'[i] = table[i]
  <2>1. ~ (i <= count)
    BY <1>1, <1>5, Numbers
  <2> QED
    BY <1>3, <2>1
<1>6. \A i \in Entries : statusInstance'[i] \in Entry
  BY <1>1, <1>4, <1>5
<1>7. statusInstance' = [i \in Entries |-> statusInstance'[i]]
  BY DEF Refresh
<1> QED
  BY <1>2, <1>4, <1>5, <1>6, <1>7

(* The table after an entry was taken out of place k.                      *)
LEMMA Removed ==
    ASSUME TypeOK, MutexInv, app_bt_sync_remove_waiting_rsp_timeout_supervision
    PROVE  /\ count \in 1 .. CHANNEL_MAX /\ count' = count - 1
           /\ statusInstance' \in [Entries -> Entry]
           /\ \E k \in 1 .. count :
                /\ \A i \in 1 .. (count - 1) :
                     statusInstance'[i] = IF k <= i THEN statusInstance[i + 1] ELSE statusInstance[i]
<1>1. count \in 0 .. CHANNEL_MAX /\ Entries = 1 .. CHANNEL_MAX
  BY DEF TypeOK, Entries
<1>2. PICK k : k = Min(EntriesOf(app.op))
  OBVIOUS
<1>3. k \in 1 .. count
  <2>1. EntriesOf(app.op) # {}
    BY DEF MutexInv, app_bt_sync_remove_waiting_rsp_timeout_supervision
  <2>2. EntriesOf(app.op) \subseteq Nat /\ EntriesOf(app.op) \subseteq 1 .. count
    BY <1>1, Numbers DEF EntriesOf
  <2>3. k \in EntriesOf(app.op)
    BY <1>2, <2>1, <2>2, MinIsLeast
  <2> QED
    BY <2>2, <2>3
<1>4. count \in 1 .. CHANNEL_MAX
  BY <1>1, <1>3, Numbers
<1>5. /\ count' = count - 1
      /\ statusInstance' = [i \in Entries |->
              CASE i = count /\ count > 1 -> NoEntry
                [] k <= i /\ i < count    -> statusInstance[i + 1]
                [] i = count /\ count = 1 -> [statusInstance[i] EXCEPT !.age = 0]
                [] OTHER                  -> statusInstance[i]]
  BY <1>2 DEF app_bt_sync_remove_waiting_rsp_timeout_supervision, count
<1>6. ASSUME NEW i \in Entries
      PROVE  /\ i < count => statusInstance'[i] =
                               IF k <= i THEN statusInstance[i + 1] ELSE statusInstance[i]
             /\ i = count /\ count > 1 => statusInstance'[i] = NoEntry
             /\ i = count /\ count = 1 => statusInstance'[i] = [statusInstance[i] EXCEPT !.age = 0]
             /\ i > count => statusInstance'[i] = statusInstance[i]
  <2>1. statusInstance'[i] =
              CASE i = count /\ count > 1 -> NoEntry
                [] k <= i /\ i < count    -> statusInstance[i + 1]
                [] i = count /\ count = 1 -> [statusInstance[i] EXCEPT !.age = 0]
                [] OTHER                  -> statusInstance[i]
    BY <1>5, Zenon
  <2>2. CASE i < count
    <3>1. i # count /\ ~ (i > count)
      BY <1>1, <2>2, Numbers
    <3> QED
      BY <2>1, <2>2, <3>1, Zenon
  <2>3. CASE i = count /\ count > 1
    <3>1. ~ (i < count) /\ ~ (i > count) /\ count # 1
      BY <1>1, <2>3, Numbers
    <3> QED
      BY <2>1, <2>3, <3>1, Zenon
  <2>4. CASE i = count /\ count = 1
    <3>1. ~ (i < count) /\ ~ (i > count) /\ ~ (count > 1)
      BY <1>1, <2>4, Numbers
    <3> QED
      BY <2>1, <2>4, <3>1, Zenon
  <2>5. CASE i > count
    <3>1. ~ (i < count) /\ i # count
      BY <1>1, <2>5, Numbers
    <3> QED
      BY <2>1, <2>5, <3>1, Zenon
  <2> QED
    BY <1>1, <1>4, <2>2, <2>3, <2>4, <2>5, Numbers
<1>7. ASSUME NEW i \in Entries PROVE statusInstance'[i] \in Entry
  <2>1. \A j \in Entries : statusInstance[j] \in Entry
    BY DEF TypeOK, Entry
  <2>2. NoEntry \in Entry /\ [statusInstance[i] EXCEPT !.age = 0] \in Entry
    BY <2>1, Numbers DEF NoEntry, Entry, Channels
  <2>3. CASE i < count
    <3>1. i + 1 \in Entries
      BY <1>1, <2>3, Numbers
    <3> QED
      BY <1>6, <2>1, <2>3, <3>1
  <2>4. CASE ~ (i < count)
    BY <1>1, <1>4, <1>6, <2>1, <2>2, <2>4, Numbers
  <2> QED
    BY <2>3, <2>4
<1>8. statusInstance' \in [Entries -> Entry]
  <2> DEFINE G(i) ==
              CASE i = count /\ count > 1 -> NoEntry
                [] k <= i /\ i < count    -> statusInstance[i + 1]
                [] i = count /\ count = 1 -> [statusInstance[i] EXCEPT !.age = 0]
                [] OTHER                  -> statusInstance[i]
  <2>1. statusInstance' = [i \in Entries |-> G(i)]
    BY <1>5, Zenon
  <2> HIDE DEF G
  <2> QED
    BY <1>7, <2>1
<1>9. \A i \in 1 .. (count - 1) : i \in Entries /\ i < count
  BY <1>1, <1>4, Numbers
<1> QED
  BY <1>3, <1>4, <1>5, <1>6, <1>8, <1>9

(* Time passes for the entries in use.                                     *)
LEMMA Ticked ==
    ASSUME TypeOK, Tick
    PROVE  /\ statusInstance' \in [Entries -> Entry]
           /\ \A i \in 1 .. count : /\ statusInstance'[i].ms = statusInstance[i].ms
                                    /\ statusInstance'[i].op = statusInstance[i].op
                                    /\ statusInstance'[i].age = Later(statusInstance[i].age)
<1>1. count \in 0 .. CHANNEL_MAX /\ Entries = 1 .. CHANNEL_MAX
  BY DEF TypeOK, Entries
<1>2. ASSUME NEW i \in Entries
      PROVE  /\ statusInstance'[i] \in Entry
             /\ i <= count => /\ statusInstance'[i].ms = statusInstance[i].ms
                              /\ statusInstance'[i].op = statusInstance[i].op
                              /\ statusInstance'[i].age = Later(statusInstance[i].age)
  <2>1. PICK e \in Entry : e = statusInstance[i]
    BY DEF TypeOK, Entry
  <2>2. statusInstance'[i] = IF i <= count THEN [e EXCEPT !.age = Later(e.age)] ELSE e
    BY <2>1 DEF Tick
  <2>3. Later(e.age) \in 0 .. (TIMEOUT + MAX_LATE)
    BY LaterCounts DEF Entry
  <2> QED
    BY <2>1, <2>2, <2>3 DEF Entry
<1>3. statusInstance' = [i \in Entries |-> statusInstance'[i]]
  BY DEF Tick
<1>4. \A i \in 1 .. count : i \in Entries /\ i <= count
  BY <1>1, Numbers
<1> QED
  BY <1>2, <1>3, <1>4

LEMMA TypeNext == TypeOK /\ MutexInv /\ [Next]_vars => TypeOK'
<1> SUFFICES ASSUME TypeOK, MutexInv, [Next]_vars PROVE TypeOK'
  OBVIOUS
<1> USE DEF tableVars, chanVars
<1>0. ASSUME Fail PROVE TypeOK'
  BY <1>0 DEF Fail, TypeOK, count
<1>1. ASSUME NEW op \in Ops, SendCommand(op) PROVE TypeOK'
  BY <1>1 DEF SendCommand, TypeOK, count
<1>2. ASSUME app_bt_sync_get_avaliable_trigger_channel PROVE TypeOK'
  <2> DEFINE suited == IF VolumeChannels(caller.op) # {} THEN VolumeChannels(caller.op)
                                                         ELSE FreeChannels
  <2>1. CASE suited = {}
    <3>1. NoCaller \in [pc : {"idle", "alloc", "arm", "add", "start"}, op : Ops, idx : Channels]
      BY Numbers DEF NoCaller, Channels
    <3> QED
      BY <1>2, <2>1, <3>1 DEF app_bt_sync_get_avaliable_trigger_channel, TypeOK, count
  <2>2. CASE suited # {}
    <3>1. suited \subseteq Channels /\ suited \subseteq Nat
      BY Numbers DEF VolumeChannels, FreeChannels, Channels
    <3>2. PICK c \in Channels : c = Min(suited)
      BY <2>2, <3>1, MinIsLeast
    <3>3. /\ caller' = [caller EXCEPT !.pc = "arm", !.idx = c]
          /\ used' = [used EXCEPT ![c] = TRUE]
          /\ opCode' = [opCode EXCEPT ![c] = caller.op]
          /\ UNCHANGED <<armed, tableVars, osTimer, expired, mailbox, app, asserted>>
      BY <1>2, <2>2, <3>2 DEF app_bt_sync_get_avaliable_trigger_channel
    <3> QED
      BY <3>3 DEF TypeOK, count
  <2> QED
    BY <2>1, <2>2
<1>3. ASSUME ArmTrigger PROVE TypeOK'
  BY <1>3 DEF ArmTrigger, TypeOK, count
<1>4. ASSUME app_bt_sync_add_waiting_irq_timeout_supervision PROVE TypeOK'
  <2>1. CASE count >= CHANNEL_MAX \/ RefreshAsserts
    BY <1>0, <1>4, <2>1 DEF app_bt_sync_add_waiting_irq_timeout_supervision
  <2>2. CASE ~ (count >= CHANNEL_MAX \/ RefreshAsserts)
    <3>1. PICK table : table = [statusInstance EXCEPT ![count + 1] = NewEntry]
      OBVIOUS
    <3>2. /\ Refresh(table) /\ timeoutSupervisorCount' = count + 1
          /\ caller' = [caller EXCEPT !.pc = "start"]
          /\ UNCHANGED <<osTimer, expired, chanVars, mailbox, app, asserted>>
      BY <1>4, <2>2, <3>1 DEF app_bt_sync_add_waiting_irq_timeout_supervision
    <3>3. NewEntry \in Entry
      BY Numbers DEF NewEntry, Entry, TypeOK
    <3>4. /\ table \in [Entries -> Entry]
          /\ \A i \in 1 .. count : table[i] = statusInstance[i]
          /\ count \in 0 .. CHANNEL_MAX /\ count + 1 \in 0 .. CHANNEL_MAX
      BY <2>2, <3>1, <3>3, Numbers DEF TypeOK, Entry, Entries
    <3>5. since' = 0 /\ statusInstance' \in [Entries -> Entry]
      BY <2>2, <3>2, <3>4, Refreshed
    <3>6. since' \in 0 .. (TIMEOUT + MAX_LATE) /\ count' \in 0 .. CHANNEL_MAX
      BY <3>2, <3>4, <3>5, Numbers DEF count
    <3> QED
      BY <3>2, <3>5, <3>6 DEF TypeOK, Entry
  <2> QED
    BY <2>1, <2>2
<1>5. ASSUME StartTimer PROVE TypeOK'
  <2>1. 1 \in Entries
    BY Numbers DEF Entries
  <2>2. osTimer' \in 0 .. TIMEOUT
    BY <1>5, <2>1 DEF StartTimer, TypeOK
  <2>3. caller' \in [pc : {"idle", "alloc", "arm", "add", "start"}, op : Ops, idx : Channels]
    BY <1>5, Numbers DEF StartTimer, NoCaller, Channels
  <2> QED
    BY <1>5, <2>2, <2>3 DEF StartTimer, TypeOK, count
<1>6. ASSUME NEW c \in Channels, app_bt_sync_irq_handler(c) PROVE TypeOK'
  <2>1. CASE MailboxFull
    BY <1>0, <1>6, <2>1 DEF app_bt_sync_irq_handler
  <2>2. CASE ~MailboxFull
    <3>1. /\ armed' = [armed EXCEPT ![c] = FALSE] /\ used' = [used EXCEPT ![c] = FALSE]
          /\ mailbox' = Append(mailbox, [op |-> opCode[c], result |-> TRUE])
          /\ UNCHANGED <<tableVars, osTimer, expired, opCode, caller, app, asserted>>
      BY <1>6, <2>2 DEF app_bt_sync_irq_handler, Post
    <3>2. mailbox' \in Seq([op : Ops, result : BOOLEAN]) /\ Len(mailbox') <= MAILBOX_MAX
      BY <2>2, <3>1, Numbers DEF TypeOK, MailboxFull
    <3> QED
      BY <3>1, <3>2 DEF TypeOK, count
  <2> QED
    BY <2>1, <2>2
<1>7. ASSUME Tick PROVE TypeOK'
  <2>1. statusInstance' \in [Entries -> Entry]
    BY <1>7, Ticked
  <2>2. since' \in 0 .. (TIMEOUT + MAX_LATE)
    BY <1>7, LaterCounts, Numbers DEF Tick, TypeOK
  <2>3. osTimer' \in 0 .. TIMEOUT /\ expired' \in 0 .. 1
    BY <1>7, Numbers DEF Tick, TypeOK
  <2> QED
    BY <1>7, <2>1, <2>2, <2>3 DEF Tick, TypeOK, Entry, count
<1>8. ASSUME app_bt_sync_send_trigger_info_timeout_handler PROVE TypeOK'
  <2>1. CASE MailboxFull
    BY <1>0, <1>8, <2>1 DEF app_bt_sync_send_trigger_info_timeout_handler
  <2>2. CASE ~MailboxFull
    <3>1. /\ used' = [used EXCEPT ![statusInstance[1].idx] = FALSE]
          /\ mailbox' = Append(mailbox, [op |-> statusInstance[1].op, result |-> FALSE])
          /\ expired > 0 /\ expired' = expired - 1
          /\ UNCHANGED <<tableVars, osTimer, opCode, armed, caller, app, asserted>>
      BY <1>8, <2>2 DEF app_bt_sync_send_trigger_info_timeout_handler, Post
    <3>2. statusInstance[1].idx \in Channels /\ statusInstance[1].op \in Ops
      BY Numbers DEF TypeOK, Entries
    <3>3. mailbox' \in Seq([op : Ops, result : BOOLEAN]) /\ Len(mailbox') <= MAILBOX_MAX
      BY <2>2, <3>1, <3>2, Numbers DEF TypeOK, MailboxFull
    <3>4. expired' \in 0 .. 1
      BY <3>1 DEF TypeOK
    <3> QED
      BY <3>1, <3>2, <3>3, <3>4 DEF TypeOK, count
  <2> QED
    BY <2>1, <2>2
<1>9. ASSUME app_bt_sync_handle PROVE TypeOK'
  <2>1. PICK m \in [op : Ops, result : BOOLEAN] : m = Head(mailbox)
    <3>1. \A S : \A q \in Seq(S) : q # <<>> => Head(q) \in S
      OBVIOUS
    <3>2. mailbox \in Seq([op : Ops, result : BOOLEAN]) /\ mailbox # <<>>
      BY <1>9 DEF app_bt_sync_handle, TypeOK
    <3> QED
      BY <3>1, <3>2, Zenon
  <2>2. mailbox' \in Seq([op : Ops, result : BOOLEAN]) /\ Len(mailbox') <= MAILBOX_MAX
    BY <1>9, Numbers DEF app_bt_sync_handle, TypeOK
  <2>3. app' \in [pc : {"idle", "remove", "start"}, op : Ops]
    BY <1>9, <2>1 DEF app_bt_sync_handle, TypeOK
  <2> QED
    BY <1>9, <2>2, <2>3 DEF app_bt_sync_handle, TypeOK, count
<1>10. ASSUME app_bt_sync_remove_waiting_rsp_timeout_supervision PROVE TypeOK'
  <2>1. count \in 1 .. CHANNEL_MAX /\ count' = count - 1 /\ statusInstance' \in [Entries -> Entry]
    BY <1>10, Removed
  <2>2. count' \in 0 .. CHANNEL_MAX
    BY <2>1, Numbers
  <2> QED
    BY <1>10, <2>1, <2>2 DEF app_bt_sync_remove_waiting_rsp_timeout_supervision, TypeOK, Entry
<1>11. ASSUME RestartTimer PROVE TypeOK'
  <2>1. CASE RefreshAsserts
    BY <1>0, <1>11, <2>1 DEF RestartTimer
  <2>2. CASE ~RefreshAsserts /\ count > 0
    <3>1. /\ Refresh(statusInstance) /\ osTimer' = statusInstance'[1].ms /\ app' = NoMessage
          /\ UNCHANGED <<timeoutSupervisorCount, expired, chanVars, mailbox, caller, asserted>>
      BY <1>11, <2>2 DEF RestartTimer
    <3>2. since' = 0 /\ statusInstance' \in [Entries -> Entry]
      BY <2>2, <3>1, Refreshed DEF TypeOK, Entry
    <3>3. osTimer' \in 0 .. TIMEOUT /\ since' \in 0 .. (TIMEOUT + MAX_LATE)
      BY <3>1, <3>2, Numbers DEF Entry, Entries
    <3>4. app' \in [pc : {"idle", "remove", "start"}, op : Ops]
      BY <3>1, Numbers DEF NoMessage
    <3> QED
      BY <3>1, <3>2, <3>3, <3>4 DEF TypeOK, Entry, count
  <2>3. CASE ~RefreshAsserts /\ ~(count > 0)
    <3>1. /\ osTimer' = 0 /\ since' = 0 /\ app' = NoMessage
          /\ UNCHANGED <<statusInstance, timeoutSupervisorCount, expired, chanVars, mailbox, caller,
                         asserted>>
      BY <1>11, <2>3 DEF RestartTimer
    <3>2. osTimer' \in 0 .. TIMEOUT /\ since' \in 0 .. (TIMEOUT + MAX_LATE)
      BY <3>1, Numbers
    <3>3. app' \in [pc : {"idle", "remove", "start"}, op : Ops]
      BY <3>1, Numbers DEF NoMessage
    <3> QED
      BY <3>1, <3>2, <3>3 DEF TypeOK, count
  <2> QED
    BY <2>1, <2>2, <2>3
<1>12. ASSUME Reboot PROVE TypeOK'
  <2>1. Init'
    BY <1>12 DEF Reboot, Init
  <2>2. Init' => TypeOK'
    BY TypeInit, PTL
  <2> QED
    BY <2>1, <2>2
<1>13. CASE UNCHANGED vars
  BY <1>13 DEF vars, TypeOK, count
<1> QED
  BY <1>1, <1>2, <1>3, <1>4, <1>5, <1>6, <1>7, <1>8, <1>9, <1>10, <1>11, <1>12, <1>13
  DEF Next, Running, Caller, AppThread

-----------------------------------------------------------------------------
LEMMA InvInit == Init => TableInv /\ MutexInv /\ TimerExact
BY DEF Init, TableInv, MutexInv, TimerExact, Ordered, NoCaller, NoMessage, count

(* A step that leaves the table and the timer alone and neither takes nor   *)
(* gives back the mutex.                                                    *)
LEMMA InvFrame ==
    ASSUME TableInv, MutexInv, TimerExact, UNCHANGED <<tableVars, osTimer>>,
           caller'.pc = "start" <=> caller.pc = "start",
           app'.pc = "start" <=> app.pc = "start",
           app'.pc = "remove" => (EntriesOf(app.op) # {} /\ app'.op = app.op)
                                  \/ EntriesOf(app'.op) # {}
    PROVE  TableInv' /\ MutexInv' /\ TimerExact'
<1>1. UNCHANGED <<statusInstance, count, since, osTimer>>
  BY DEF tableVars, count
<1>2. TableInv'
  BY <1>1 DEF TableInv
<1>3. MutexInv'
  BY <1>1 DEF MutexInv, EntriesOf
<1>4. TimerExact'
  BY <1>1 DEF TimerExact, MutexHeld
<1> QED
  BY <1>2, <1>3, <1>4

(* A new supervision goes to the end: it is the youngest.                  *)
LEMMA InvAdd ==
    ASSUME TypeOK, TableInv, MutexInv, TimerExact,
           app_bt_sync_add_waiting_irq_timeout_supervision,
           ~ (count >= CHANNEL_MAX \/ RefreshAsserts)
    PROVE  TableInv' /\ MutexInv' /\ TimerExact'
<1>1. PICK table : table = [statusInstance EXCEPT ![count + 1] = NewEntry]
  OBVIOUS
<1>2. /\ Refresh(table) /\ count' = count + 1 /\ ~MutexHeld
      /\ caller' = [caller EXCEPT !.pc = "start"] /\ UNCHANGED <<osTimer, app>>
  BY <1>1 DEF app_bt_sync_add_waiting_irq_timeout_supervision, count
<1>3. /\ NewEntry \in Entry /\ NewEntry.ms = TIMEOUT /\ NewEntry.age = 0
      /\ count \in Nat /\ count + 1 \in Entries /\ since \in Nat
  BY Numbers DEF NewEntry, Entry, TypeOK, Entries
<1>4. /\ table \in [Entries -> Entry] /\ table[count + 1] = NewEntry
      /\ \A i \in 1 .. count : table[i] = statusInstance[i]
  BY <1>1, <1>3 DEF TypeOK, Entry, Entries
<1>5. /\ since' = 0
      /\ \A i \in 1 .. count : /\ statusInstance'[i].ms = statusInstance[i].ms - since
                               /\ statusInstance'[i].age = statusInstance[i].age
                               /\ statusInstance'[i].op = statusInstance[i].op
      /\ statusInstance'[count + 1] = NewEntry
  <2>1. \A i \in Entries : i > count => statusInstance'[i] = table[i]
    BY <1>2, <1>4, Refreshed
  <2>2. count + 1 > count
    BY <1>3
  <2> QED
    BY <1>2, <1>3, <1>4, <2>1, <2>2, Refreshed
<1>6. \A i \in 1 .. count : /\ statusInstance[i].ms \in Nat /\ statusInstance[i].age \in Nat
                            /\ statusInstance[i].ms > since /\ i \in Nat
  BY <1>3, Numbers DEF TypeOK, RefreshAsserts, Entries
<1>7. \A i \in 1 .. count : statusInstance[i].age < TIMEOUT
  BY <1>3, <1>6, Numbers DEF TableInv, Dated
<1>8. \A i \in 1 .. count' : i \in 1 .. count \/ i = count + 1
  BY <1>2, <1>3
<1>9. ASSUME NEW i \in 1 .. count' PROVE Dated(statusInstance[i], since)'
  <2>1. CASE i \in 1 .. count
    BY <1>3, <1>5, <1>6, <1>7, <2>1, Numbers DEF TableInv, Dated
  <2>2. CASE i = count + 1
    BY <1>3, <1>5, <2>2, Numbers DEF Dated
  <2> QED
    BY <1>8, <2>1, <2>2
<1>10. Ordered(statusInstance, count)'
  <2> SUFFICES ASSUME NEW i \in 1 .. count', NEW j \in 1 .. count', i < j
               PROVE  statusInstance'[i].age >= statusInstance'[j].age
    BY DEF Ordered
  <2>1. i \in 1 .. count
    BY <1>2, <1>3
  <2>2. CASE j \in 1 .. count
    BY <1>5, <2>1, <2>2 DEF TableInv, Ordered
  <2>3. CASE j = count + 1
    BY <1>3, <1>5, <1>6, <2>1, <2>3
  <2> QED
    BY <1>8, <2>2, <2>3
<1>11. TableInv'
  BY <1>9, <1>10 DEF TableInv
<1>12. MutexInv'
  <2>1. caller'.pc = "start" /\ app.pc # "start"
    BY <1>2 DEF MutexHeld, TypeOK
  <2>2. count' > 0
    BY <1>2, <1>3
  <2>3. statusInstance'[1].age < TIMEOUT
    <3>1. CASE count = 0
      BY <1>3, <1>5, <3>1, Numbers
    <3>2. CASE count # 0
      <4>1. 1 \in 1 .. count
        BY <1>3, <3>2
      <4> QED
        BY <1>5, <1>7, <4>1
    <3> QED
      BY <3>1, <3>2
  <2>4. ASSUME app.pc = "remove" PROVE EntriesOf(app.op)' # {}
    <3>1. PICK i \in 1 .. count : statusInstance[i].op = app.op
      BY <2>4 DEF MutexInv, EntriesOf
    <3>2. i \in 1 .. count' /\ statusInstance'[i].op = app.op
      BY <1>2, <1>3, <1>5, <3>1
    <3> QED
      BY <1>2, <3>2 DEF EntriesOf
  <2> QED
    BY <1>2, <1>5, <2>1, <2>2, <2>3, <2>4 DEF MutexInv
<1>13. TimerExact'
  BY <1>2 DEF TimerExact, MutexHeld, TypeOK
<1> QED
  BY <1>11, <1>12, <1>13

(* A supervision is taken out; the order of the others stays.              *)
LEMMA InvRemove ==
    ASSUME TypeOK, TableInv, MutexInv, TimerExact,
           app_bt_sync_remove_waiting_rsp_timeout_supervision
    PROVE  TableInv' /\ MutexInv' /\ TimerExact'
<1>1. /\ app.pc = "remove" /\ app' = [app EXCEPT !.pc = "start"] /\ ~MutexHeld
      /\ UNCHANGED <<since, caller, osTimer>>
  BY DEF app_bt_sync_remove_waiting_rsp_timeout_supervision
<1>2. PICK k \in 1 .. count :
        \A i \in 1 .. (count - 1) :
           statusInstance'[i] = IF k <= i THEN statusInstance[i + 1] ELSE statusInstance[i]
  BY Removed
<1>3. count' = count - 1 /\ count \in Nat
  BY Removed, Numbers
<1>4. ASSUME NEW i \in 1 .. (count - 1)
      PROVE  \E a \in 1 .. count : a \in i .. (i + 1) /\ (a = i + 1 <=> k <= i)
                                   /\ statusInstance'[i] = statusInstance[a]
  <2>1. i \in 1 .. count /\ i + 1 \in 1 .. count /\ k \in Nat
    BY <1>3
  <2>2. CASE k <= i
    BY <1>2, <2>1, <2>2
  <2>3. CASE ~ (k <= i)
    BY <1>2, <2>1, <2>3
  <2> QED
    BY <2>2, <2>3
<1>5. ASSUME NEW i \in 1 .. (count - 1) PROVE Dated(statusInstance'[i], since)
  BY <1>4 DEF TableInv
<1>6. ASSUME NEW i \in 1 .. (count - 1), NEW j \in 1 .. (count - 1), i < j
      PROVE  statusInstance'[i].age >= statusInstance'[j].age
  <2>1. PICK a \in 1 .. count : a \in i .. (i + 1) /\ (a = i + 1 <=> k <= i)
                                /\ statusInstance'[i] = statusInstance[a]
    BY <1>4
  <2>2. PICK b \in 1 .. count : b \in j .. (j + 1) /\ (b = j + 1 <=> k <= j)
                                /\ statusInstance'[j] = statusInstance[b]
    BY <1>4
  <2>3. a < b
    BY <1>3, <1>6, <2>1, <2>2
  <2> QED
    BY <2>1, <2>2, <2>3 DEF TableInv, Ordered
<1>7. TableInv'
  BY <1>1, <1>3, <1>5, <1>6 DEF TableInv, Ordered
<1>8. caller.pc # "start" /\ app'.pc = "start"
  BY <1>1 DEF MutexHeld, TypeOK
<1>9. MutexInv'
  BY <1>1, <1>8 DEF MutexInv
<1>10. TimerExact'
  BY <1>8 DEF TimerExact, MutexHeld
<1> QED
  BY <1>7, <1>9, <1>10

(* The timer is started for what the first entry has left.                 *)
LEMMA InvRestart ==
    ASSUME TypeOK, TableInv, MutexInv, TimerExact, RestartTimer, ~RefreshAsserts
    PROVE  TableInv' /\ MutexInv' /\ TimerExact'
<1>1. /\ app.pc = "start" /\ app' = NoMessage /\ UNCHANGED <<caller, count>>
      /\ caller.pc # "start" /\ app'.pc = "idle"
  BY DEF RestartTimer, NoMessage, MutexInv, count
<1>2. CASE count > 0
  <2>1. Refresh(statusInstance) /\ osTimer' = statusInstance'[1].ms
    BY <1>2 DEF RestartTimer
  <2>2. /\ since' = 0
        /\ \A i \in 1 .. count : /\ statusInstance'[i].ms = statusInstance[i].ms - since
                                 /\ statusInstance'[i].age = statusInstance[i].age
    BY <2>1, Refreshed DEF TypeOK, Entry
  <2>3. since \in Nat /\ count \in Nat /\ 1 \in 1 .. count
    BY <1>2, Numbers DEF TypeOK
  <2>4. \A i \in 1 .. count : /\ statusInstance[i].ms \in Nat /\ statusInstance[i].age \in Nat
                              /\ statusInstance[i].ms > since
    BY <2>3, Numbers DEF TypeOK, RefreshAsserts, Entries
  <2>5. \A i \in 1 .. count : statusInstance[i].age < TIMEOUT
    BY <2>3, <2>4, Numbers DEF TableInv, Dated
  <2>6. ASSUME NEW i \in 1 .. count PROVE Dated(statusInstance'[i], 0)
    BY <2>2, <2>3, <2>4, <2>5, Numbers DEF TableInv, Dated
  <2>7. Ordered(statusInstance', count)
    BY <2>2 DEF TableInv, Ordered
  <2>8. TableInv'
    BY <1>1, <2>2, <2>6, <2>7 DEF TableInv, Ordered
  <2>9. MutexInv'
    BY <1>1 DEF MutexInv
  <2>10. TimerExact'
    <3>1. statusInstance'[1].ms + statusInstance'[1].age = TIMEOUT
      BY <2>2, <2>3, <2>4, <2>5, <2>6, Numbers DEF Dated
    <3> QED
      BY <1>1, <1>2, <2>1, <3>1 DEF TimerExact
  <2> QED
    BY <2>8, <2>9, <2>10
<1>3. CASE ~(count > 0)
  <2>1. osTimer' = 0 /\ count = 0 /\ UNCHANGED statusInstance
    BY <1>3, Numbers DEF RestartTimer, TypeOK
  <2>2. TableInv'
    BY <1>1, <2>1 DEF TableInv, Ordered
  <2>3. MutexInv'
    BY <1>1 DEF MutexInv
  <2>4. TimerExact'
    BY <2>1 DEF TimerExact
  <2> QED
    BY <2>2, <2>3, <2>4
<1> QED
  BY <1>2, <1>3

LEMMA InvTick ==
    ASSUME TypeOK, TableInv, MutexInv, TimerExact, Tick
    PROVE  TableInv' /\ MutexInv' /\ TimerExact'
<1>1. /\ ~MutexHeld /\ UNCHANGED <<count, caller, app>>
      /\ since' = IF count > 0 THEN Later(since) ELSE 0
      /\ osTimer' = IF osTimer > 0 THEN osTimer - 1 ELSE 0
  BY DEF Tick, count
<1>2. \A i \in 1 .. count : /\ statusInstance'[i].ms = statusInstance[i].ms
                            /\ statusInstance'[i].op = statusInstance[i].op
                            /\ statusInstance'[i].age = Later(statusInstance[i].age)
  BY Ticked
<1>3. count \in Nat /\ since \in 0 .. (TIMEOUT + MAX_LATE)
  BY Numbers DEF TypeOK
<1>4. \A i \in 1 .. count : /\ statusInstance[i].age \in 0 .. (TIMEOUT + MAX_LATE)
                            /\ statusInstance[i].ms \in 0 .. TIMEOUT
  BY Numbers DEF TypeOK, Entries
<1>5. ASSUME NEW i \in 1 .. count PROVE Dated(statusInstance'[i], since')
  <2>1. PICK a \in 0 .. (TIMEOUT + MAX_LATE), m \in 0 .. TIMEOUT :
          a = statusInstance[i].age /\ m = statusInstance[i].ms
    BY <1>4
  <2>2. since' = Later(since)
    BY <1>1, <1>3
  <2>3. CASE a < TIMEOUT
    <3>1. m + a = TIMEOUT + since
      BY <2>1, <2>3 DEF TableInv, Dated
    <3>2. since < TIMEOUT
      BY <1>3, <2>3, <3>1, Numbers
    <3>3. Later(a) = a + 1 /\ Later(since) = since + 1
      BY <1>3, <2>3, <3>2, LaterCounts
    <3> QED
      BY <1>2, <1>3, <2>1, <2>2, <2>3, <3>1, <3>3, Numbers DEF Dated
  <2>4. CASE ~(a < TIMEOUT)
    <3>1. m <= since
      BY <2>1, <2>4 DEF TableInv, Dated
    <3>2. a >= TIMEOUT
      BY <2>4, Numbers
    <3>3. /\ Later(a) >= TIMEOUT /\ Later(a) \in 0 .. (TIMEOUT + MAX_LATE)
          /\ Later(since) >= since /\ Later(since) \in 0 .. (TIMEOUT + MAX_LATE)
      BY <1>3, <3>2, LaterCounts
    <3> QED
      BY <1>2, <1>3, <2>1, <2>2, <3>1, <3>3, Numbers DEF Dated
  <2> QED
    BY <2>3, <2>4
<1>6. Ordered(statusInstance', count)
  <2> SUFFICES ASSUME NEW i \in 1 .. count, NEW j \in 1 .. count, i < j
               PROVE  statusInstance'[i].age >= statusInstance'[j].age
    BY DEF Ordered
  <2>1. statusInstance[i].age >= statusInstance[j].age
    BY DEF TableInv, Ordered
  <2>2. PICK a \in 0 .. (TIMEOUT + MAX_LATE), b \in 0 .. (TIMEOUT + MAX_LATE) :
          a = statusInstance[i].age /\ b = statusInstance[j].age
    BY <1>4
  <2>3. Later(b) <= Later(a) /\ Later(a) \in Nat /\ Later(b) \in Nat
    BY <2>1, <2>2, LaterCounts, Numbers
  <2> QED
    BY <1>2, <2>2, <2>3
<1>7. TableInv'
  BY <1>1, <1>5, <1>6 DEF TableInv, Ordered
<1>8. MutexInv'
  <2>1. ASSUME app.pc = "remove" PROVE EntriesOf(app.op)' # {}
    BY <1>1, <1>2, <2>1 DEF MutexInv, EntriesOf
  <2> QED
    BY <1>1, <2>1 DEF MutexInv, MutexHeld
<1>9. TimerExact'
  <2> SUFFICES ASSUME osTimer' > 0 PROVE count > 0 /\ osTimer' + statusInstance'[1].age = TIMEOUT
    BY <1>1 DEF TimerExact
  <2>1. osTimer \in Nat /\ osTimer > 1 /\ osTimer' = osTimer - 1
    BY <1>1, Numbers DEF TypeOK
  <2>2. count > 0 /\ osTimer + statusInstance[1].age = TIMEOUT
    BY <1>1, <2>1 DEF TimerExact
  <2>3. 1 \in 1 .. count
    BY <1>3, <2>2
  <2>4. PICK a \in 0 .. (TIMEOUT + MAX_LATE) : a = statusInstance[1].age
    BY <1>4, <2>3
  <2>5. a < TIMEOUT
    BY <2>1, <2>2, <2>4, Numbers
  <2>6. Later(a) = a + 1
    BY <2>5, LaterCounts
  <2> QED
    BY <1>2, <2>1, <2>2, <2>3, <2>4, <2>6, Numbers
<1> QED
  BY <1>7, <1>8, <1>9

LEMMA InvNext == IInv /\ [Next]_vars => TableInv' /\ MutexInv' /\ TimerExact'
<1> SUFFICES ASSUME TypeOK, TableInv, MutexInv, TimerExact, [Next]_vars
             PROVE  TableInv' /\ MutexInv' /\ TimerExact'
  BY DEF IInv
<1> DEFINE Goal == TableInv' /\ MutexInv' /\ TimerExact'
<1>0. ASSUME Fail PROVE Goal
  BY <1>0, InvFrame DEF Fail, MutexInv
<1>1. ASSUME NEW op \in Ops, SendCommand(op) PROVE Goal
  BY <1>1, InvFrame DEF SendCommand, MutexInv, TypeOK
<1>2. ASSUME app_bt_sync_get_avaliable_trigger_channel PROVE Goal
  <2>1. caller.pc # "start" /\ caller'.pc # "start" /\ UNCHANGED <<tableVars, osTimer, app>>
    <3> DEFINE suited == IF VolumeChannels(caller.op) # {} THEN VolumeChannels(caller.op)
                                                           ELSE FreeChannels
    <3>1. PICK c : c = Min(suited)
      OBVIOUS
    <3>2. /\ caller.pc = "alloc" /\ UNCHANGED <<tableVars, osTimer, app>>
          /\ caller' = IF suited = {} THEN NoCaller ELSE [caller EXCEPT !.pc = "arm", !.idx = c]
      BY <1>2, <3>1 DEF app_bt_sync_get_avaliable_trigger_channel
    <3> HIDE DEF suited
    <3> QED
      BY <3>2 DEF NoCaller, TypeOK
  <2> QED
    BY <2>1, InvFrame DEF MutexInv
<1>3. ASSUME ArmTrigger PROVE Goal
  BY <1>3, InvFrame DEF ArmTrigger, MutexInv, TypeOK
<1>4. ASSUME app_bt_sync_add_waiting_irq_timeout_supervision PROVE Goal
  <2>1. CASE count >= CHANNEL_MAX \/ RefreshAsserts
    BY <1>0, <1>4, <2>1 DEF app_bt_sync_add_waiting_irq_timeout_supervision
  <2>2. CASE ~ (count >= CHANNEL_MAX \/ RefreshAsserts)
    BY <1>4, <2>2, InvAdd
  <2> QED
    BY <2>1, <2>2
<1>5. ASSUME StartTimer PROVE Goal
  <2>1. /\ caller.pc = "start" /\ caller'.pc = "idle" /\ osTimer' = statusInstance[1].ms
        /\ UNCHANGED <<statusInstance, count, since, app>>
    BY <1>5 DEF StartTimer, NoCaller, tableVars, count
  <2>2. count > 0 /\ since = 0 /\ statusInstance[1].age < TIMEOUT /\ app.pc # "start"
    BY <2>1 DEF MutexInv
  <2>3. 1 \in 1 .. count /\ 1 \in Entries
    BY <2>2, Numbers DEF TypeOK, Entries
  <2>4. statusInstance[1].ms + statusInstance[1].age = TIMEOUT
    BY <2>2, <2>3, Numbers DEF TableInv, Dated
  <2>5. TableInv'
    BY <2>1 DEF TableInv
  <2>6. MutexInv'
    BY <2>1, <2>2 DEF MutexInv, EntriesOf
  <2>7. TimerExact'
    BY <2>1, <2>2, <2>4 DEF TimerExact
  <2> QED
    BY <2>5, <2>6, <2>7
<1>6. ASSUME NEW c \in Channels, app_bt_sync_irq_handler(c) PROVE Goal
  <2>1. UNCHANGED <<tableVars, osTimer, caller, app>>
    BY <1>6 DEF app_bt_sync_irq_handler, Fail
  <2> QED
    BY <2>1, InvFrame DEF MutexInv
<1>7. ASSUME Tick PROVE Goal
  BY <1>7, InvTick
<1>8. ASSUME app_bt_sync_send_trigger_info_timeout_handler PROVE Goal
  <2>1. UNCHANGED <<tableVars, osTimer, caller, app>>
    BY <1>8 DEF app_bt_sync_send_trigger_info_timeout_handler, Fail
  <2> QED
    BY <2>1, InvFrame DEF MutexInv
<1>9. ASSUME app_bt_sync_handle PROVE Goal
  <2>1. /\ app.pc = "idle" /\ UNCHANGED <<tableVars, osTimer, caller>>
        /\ app' = app \/ (app'.pc = "remove" /\ EntriesOf(app'.op) # {})
    BY <1>9 DEF app_bt_sync_handle
  <2> QED
    BY <2>1, InvFrame
<1>10. ASSUME app_bt_sync_remove_waiting_rsp_timeout_supervision PROVE Goal
  BY <1>10, InvRemove
<1>11. ASSUME RestartTimer PROVE Goal
  <2>1. CASE RefreshAsserts
    BY <1>0, <1>11, <2>1 DEF RestartTimer
  <2>2. CASE ~RefreshAsserts
    BY <1>11, <2>2, InvRestart
  <2> QED
    BY <2>1, <2>2
<1>12. ASSUME Reboot PROVE Goal
  <2>1. Init'
    BY <1>12 DEF Reboot, Init
  <2>2. Init' => TableInv' /\ MutexInv' /\ TimerExact'
    BY InvInit, PTL
  <2> QED
    BY <2>1, <2>2
<1>13. CASE UNCHANGED vars
  BY <1>13, InvFrame DEF vars, MutexInv
<1> QED
  BY <1>1, <1>2, <1>3, <1>4, <1>5, <1>6, <1>7, <1>8, <1>9, <1>10, <1>11, <1>12, <1>13
  DEF Next, Running, Caller, AppThread

(* The invariant that ties the table's times to the entries' ages holds,    *)
(* whoever changes the table and whenever time passes.                      *)
THEOREM Invariance == Spec => []IInv
<1>1. Init => IInv
  BY TypeInit, InvInit DEF IInv
<1>2. IInv /\ [Next]_vars => IInv'
  BY TypeNext, InvNext DEF IInv
<1> QED
  BY <1>1, <1>2, PTL DEF Spec

(* The one timer of app_bt_sync_add_waiting_irq_timeout_supervision and     *)
(* app_bt_sync_remove_waiting_rsp_timeout_supervision expires exactly when  *)
(* the first supervision is due, for every number of channels.              *)
THEOREM TimerIsExact == Spec => []TimerExact
<1>1. IInv => TimerExact
  BY DEF IInv
<1> QED
  BY <1>1, Invariance, PTL

(* "the first entry is the most close one", for every number of channels.  *)
THEOREM FirstIsTheClosest == Spec => []FirstIsClosest
<1>1. IInv => FirstIsClosest
  BY DEF IInv, TableInv, Ordered, FirstIsClosest
<1> QED
  BY <1>1, Invariance, PTL
===============================================================================
