-------------------------------- MODULE BtSync --------------------------------
(***************************************************************************)
(* Synchronised triggers of the two earbuds (apps/bt_sync/app_bt_sync.cpp) *)
(* on the bud that is master of the link.                                  *)
(*                                                                         *)
(* A caller tells the peer at which tick of the Bluetooth clock both buds  *)
(* must act, arms one of the trigger channels and puts the operation under *)
(* timeout supervision.  The trigger interrupt, or the timeout, posts a    *)
(* message to the application thread, which ends the supervision.  All     *)
(* supervisions share one timer: each table entry keeps the time that was  *)
(* left at lastSysTicks, and the first entry is the one the timer is for.  *)
(*                                                                         *)
(* The caller, the application thread, the timer thread and the interrupt  *)
(* interleave; the mutex is held by the first two only.  A failed ASSERT   *)
(* stops the firmware, which then reboots.                                 *)
(***************************************************************************)
EXTENDS Naturals, Sequences, FiniteSetsExt

CONSTANTS
    CHANNEL_MAX,    \* APP_BT_SYNC_CHANNEL_MAX: channels, and table entries
    TIMEOUT,        \* APP_BT_SYNC_SENT_TRIGGER_INFO_TIMEOUT_IN_MS, in units
    MAILBOX_MAX,    \* APP_MAILBOX_MAX
    MAX_LATE,       \* bound: units counted past the timeout
    Ops             \* operation codes

ASSUME BtSyncAssumption ==
    /\ {CHANNEL_MAX, TIMEOUT, MAILBOX_MAX} \subseteq Nat \ {0}
    /\ MAX_LATE \in Nat
    /\ {"RETRIGGER", "VOLUME"} \subseteq Ops

Channels == 1 .. CHANNEL_MAX
Entries == 1 .. CHANNEL_MAX

VARIABLES
    statusInstance,         \* the table: op, ms left, channel (and real age)
    timeoutSupervisorCount, \* how many of its entries are in use
    since,                  \* units since lastSysTicks
    osTimer,                \* units to the expiry; 0: not running
    expired,                \* expiries the timer thread has not handled yet
    used, opCode,           \* locTriggerInfo
    armed,                  \* the trigger channel is enabled
    mailbox,                \* messages to the application thread
    caller,                 \* the thread in app_bt_sync_enable
    app,                    \* the application thread
    asserted

tableVars == <<statusInstance, timeoutSupervisorCount, since>>
chanVars == <<used, opCode, armed>>
vars == <<tableVars, osTimer, expired, chanVars, mailbox, caller, app, asserted>>

count == timeoutSupervisorCount

(* Whoever is between its change of the table and its start of the timer   *)
(* holds app_bt_sync_timer_mutex.                                          *)
MutexHeld == caller.pc = "start" \/ app.pc = "start"

NoCaller == [pc |-> "idle", op |-> "RETRIGGER", idx |-> 1]
NoMessage == [pc |-> "idle", op |-> "RETRIGGER"]
NoEntry == [op |-> "RETRIGGER", ms |-> 0, idx |-> 1, age |-> 0]

Init ==
    /\ statusInstance = [i \in Entries |-> NoEntry]
    /\ timeoutSupervisorCount = 0
    /\ since = 0
    /\ osTimer = 0 /\ expired = 0
    /\ used = [c \in Channels |-> FALSE]
    /\ opCode = [c \in Channels |-> "RETRIGGER"]
    /\ armed = [c \in Channels |-> FALSE]
    /\ mailbox = <<>>
    /\ caller = NoCaller /\ app = NoMessage
    /\ asserted = FALSE

-----------------------------------------------------------------------------
(* app_bt_sync_refresh_supervisor_env: take the time that has passed off   *)
(* every entry in use.  It asserts that none of them is due.               *)
RefreshAsserts == \E i \in 1 .. count : statusInstance[i].ms <= since

(* Mutant: lastSysTicks is not moved on.                                   *)
RefreshKeepsStamp(table) ==
    /\ statusInstance' =
          [i \in Entries |-> IF i <= count THEN [table[i] EXCEPT !.ms = @ - since] ELSE table[i]]
    /\ UNCHANGED since

Refresh(table) ==
    /\ statusInstance' =
          [i \in Entries |-> IF i <= count THEN [table[i] EXCEPT !.ms = @ - since] ELSE table[i]]
    /\ since' = 0

Fail == asserted' = TRUE /\ UNCHANGED <<tableVars, osTimer, expired, chanVars, mailbox, caller, app>>

(* app_mailbox_put: a full mailbox is a failed assertion.                  *)
Post(m) == mailbox' = Append(mailbox, m)

MailboxFull == Len(mailbox) >= MAILBOX_MAX

-----------------------------------------------------------------------------
(* The caller.  A refusal leaves everything as it was and is no step.      *)

(* app_bt_sync_enable up to the command to the peer: there must be room in *)
(* the table.                                                              *)
SendCommand(op) ==
    /\ caller.pc = "idle"
    /\ count < CHANNEL_MAX
    /\ caller' = [caller EXCEPT !.pc = "alloc", !.op = op]
    /\ UNCHANGED <<tableVars, osTimer, expired, chanVars, mailbox, app, asserted>>

(* A volume operation takes over the channel of one that is under way;     *)
(* otherwise the first free channel is taken.                              *)
VolumeChannels(op) ==
    {c \in Channels : used[c] /\ opCode[c] = "VOLUME" /\ op = "VOLUME"}
FreeChannels == {c \in Channels : ~used[c]}

app_bt_sync_get_avaliable_trigger_channel ==
    LET suited == IF VolumeChannels(caller.op) # {} THEN VolumeChannels(caller.op)
                                                    ELSE FreeChannels
        c == Min(suited)
    IN  /\ caller.pc = "alloc"
        /\ IF suited = {}
           THEN caller' = NoCaller /\ UNCHANGED chanVars
           ELSE /\ caller' = [caller EXCEPT !.pc = "arm", !.idx = c]
                /\ used' = [used EXCEPT ![c] = TRUE]
                /\ opCode' = [opCode EXCEPT ![c] = caller.op]
                /\ UNCHANGED armed
        /\ UNCHANGED <<tableVars, osTimer, expired, mailbox, app, asserted>>

(* bt_syn_set_tg_ticks, hal_cmu_bt_trigger_enable.                         *)
ArmTrigger ==
    /\ caller.pc = "arm"
    /\ caller' = [caller EXCEPT !.pc = "add"]
    /\ armed' = [armed EXCEPT ![caller.idx] = TRUE]
    /\ UNCHANGED <<tableVars, osTimer, expired, used, opCode, mailbox, app, asserted>>

NewEntry == [op |-> caller.op, ms |-> TIMEOUT, idx |-> caller.idx, age |-> 0]

(* Mutant: the new entry goes to the front of the table.                   *)
AddAtFront ==
    /\ caller.pc = "add" /\ ~MutexHeld
    /\ IF count >= CHANNEL_MAX \/ RefreshAsserts THEN Fail
       ELSE /\ Refresh([i \in Entries |-> IF i = 1 THEN NewEntry ELSE statusInstance[i - 1]])
            /\ timeoutSupervisorCount' = count + 1
            /\ caller' = [caller EXCEPT !.pc = "start"]
            /\ UNCHANGED <<osTimer, expired, chanVars, mailbox, app, asserted>>

app_bt_sync_add_waiting_irq_timeout_supervision ==
    /\ caller.pc = "add" /\ ~MutexHeld
    /\ IF count >= CHANNEL_MAX \/ RefreshAsserts THEN Fail
       ELSE /\ Refresh([statusInstance EXCEPT ![count + 1] = NewEntry])
            /\ timeoutSupervisorCount' = count + 1
            /\ caller' = [caller EXCEPT !.pc = "start"]
            /\ UNCHANGED <<osTimer, expired, chanVars, mailbox, app, asserted>>

(* osTimerStart for the first entry, and the end of app_bt_sync_enable.    *)
StartTimer ==
    /\ caller.pc = "start"
    /\ osTimer' = statusInstance[1].ms
    /\ caller' = NoCaller
    /\ UNCHANGED <<tableVars, expired, chanVars, mailbox, app, asserted>>

-----------------------------------------------------------------------------
(* Interrupt and timer thread.                                             *)

app_bt_sync_irq_handler(c) ==
    /\ armed[c]
    /\ IF MailboxFull THEN Fail
       ELSE /\ armed' = [armed EXCEPT ![c] = FALSE]
            /\ used' = [used EXCEPT ![c] = FALSE]
            /\ Post([op |-> opCode[c], result |-> TRUE])
            /\ UNCHANGED <<tableVars, osTimer, expired, opCode, caller, app, asserted>>

(* Time passes; counting stops MAX_LATE past the timeout.  A unit is long  *)
(* against what the mutex protects, and the timer thread has a higher      *)
(* priority than the other two: both are done within the unit.             *)
Later(t) == Min({t + 1, TIMEOUT + MAX_LATE})

Tick ==
    /\ expired = 0 /\ ~MutexHeld
    /\ statusInstance' = [i \in Entries |-> IF i <= count
                              THEN [statusInstance[i] EXCEPT !.age = Later(@)]
                              ELSE statusInstance[i]]
    /\ since' = IF count > 0 THEN Later(since) ELSE 0
    /\ osTimer' = IF osTimer > 0 THEN osTimer - 1 ELSE 0
    /\ expired' = IF osTimer = 1 THEN 1 ELSE 0
    /\ UNCHANGED <<timeoutSupervisorCount, chanVars, mailbox, caller, app, asserted>>

(* Mutant: the timeout frees the channel and tells nobody.                 *)
TimeoutTellsNobody ==
    /\ expired > 0
    /\ used' = [used EXCEPT ![statusInstance[1].idx] = FALSE]
    /\ expired' = expired - 1
    /\ UNCHANGED <<tableVars, osTimer, opCode, armed, mailbox, caller, app, asserted>>

(* The first entry is read without the mutex, in use or not.               *)
app_bt_sync_send_trigger_info_timeout_handler ==
    /\ expired > 0
    /\ IF MailboxFull THEN Fail
       ELSE /\ used' = [used EXCEPT ![statusInstance[1].idx] = FALSE]
            /\ Post([op |-> statusInstance[1].op, result |-> FALSE])
            /\ expired' = expired - 1
            /\ UNCHANGED <<tableVars, osTimer, opCode, armed, caller, app, asserted>>

-----------------------------------------------------------------------------
(* The application thread.                                                 *)

EntriesOf(op) == {i \in 1 .. count : statusInstance[i].op = op}

(* app_bt_sync_handle: an operation that is not supervised needs nothing   *)
(* but its callback, which is not part of the state.                       *)
app_bt_sync_handle ==
    /\ app.pc = "idle"
    /\ mailbox # <<>>
    /\ mailbox' = Tail(mailbox)
    /\ app' = IF EntriesOf(Head(mailbox).op) = {} THEN app
              ELSE [pc |-> "remove", op |-> Head(mailbox).op]
    /\ UNCHANGED <<tableVars, osTimer, expired, chanVars, caller, asserted>>

(* The first entry of the operation is taken out.  What memmove leaves in  *)
(* the last place is never read again, except in the first place, which    *)
(* the timeout handler reads without a look at the count.                  *)
app_bt_sync_remove_waiting_rsp_timeout_supervision ==
    /\ app.pc = "remove" /\ ~MutexHeld
    /\ LET k == Min(EntriesOf(app.op))
       IN  statusInstance' = [i \in Entries |->
              CASE i = count /\ count > 1 -> NoEntry
                [] k <= i /\ i < count    -> statusInstance[i + 1]
                [] i = count /\ count = 1 -> [statusInstance[i] EXCEPT !.age = 0]
                [] OTHER                  -> statusInstance[i]]
    /\ timeoutSupervisorCount' = count - 1
    /\ app' = [app EXCEPT !.pc = "start"]
    /\ UNCHANGED <<since, osTimer, expired, chanVars, mailbox, caller, asserted>>

(* The end of the removal: the timer is for the entry that is first now.   *)
RestartTimer ==
    /\ app.pc = "start"
    /\ IF RefreshAsserts THEN Fail
       ELSE /\ IF count > 0
               THEN Refresh(statusInstance) /\ osTimer' = statusInstance'[1].ms
               ELSE osTimer' = 0 /\ since' = 0 /\ UNCHANGED statusInstance
            /\ app' = NoMessage
            /\ UNCHANGED <<timeoutSupervisorCount, expired, chanVars, mailbox, caller, asserted>>

-----------------------------------------------------------------------------
Caller ==
    \/ app_bt_sync_get_avaliable_trigger_channel
    \/ ArmTrigger
    \/ app_bt_sync_add_waiting_irq_timeout_supervision
    \/ StartTimer

AppThread ==
    \/ app_bt_sync_handle
    \/ app_bt_sync_remove_waiting_rsp_timeout_supervision
    \/ RestartTimer

(* After a failed assertion nothing runs until the reboot.                 *)
Reboot ==
    /\ asserted
    /\ statusInstance' = [i \in Entries |-> NoEntry]
    /\ timeoutSupervisorCount' = 0 /\ since' = 0
    /\ osTimer' = 0 /\ expired' = 0
    /\ used' = [c \in Channels |-> FALSE]
    /\ opCode' = [c \in Channels |-> "RETRIGGER"]
    /\ armed' = [c \in Channels |-> FALSE]
    /\ mailbox' = <<>>
    /\ caller' = NoCaller /\ app' = NoMessage
    /\ asserted' = FALSE

Running ==
    /\ ~asserted
    /\ \/ \E op \in Ops : SendCommand(op)
       \/ Caller
       \/ \E c \in Channels : app_bt_sync_irq_handler(c)
       \/ Tick
       \/ app_bt_sync_send_trigger_info_timeout_handler
       \/ AppThread

Next == Running \/ Reboot

Spec == Init /\ [][Next]_vars

(* Time passes and the threads run on.  Nobody has to start a              *)
(* synchronisation and a trigger may never come: the link may be gone.     *)
Fairness ==
    /\ WF_vars(~asserted /\ Tick)
    /\ WF_vars(~asserted /\ Caller)
    /\ WF_vars(~asserted /\ app_bt_sync_send_trigger_info_timeout_handler)
    /\ WF_vars(~asserted /\ AppThread)
    /\ WF_vars(Reboot)

FairSpec == Spec /\ Fairness

-----------------------------------------------------------------------------
TypeOK ==
    /\ statusInstance \in [Entries -> [op : Ops, ms : 0 .. TIMEOUT, idx : Channels,
                                       age : 0 .. (TIMEOUT + MAX_LATE)]]
    /\ count \in 0 .. CHANNEL_MAX
    /\ since \in 0 .. (TIMEOUT + MAX_LATE)
    /\ osTimer \in 0 .. TIMEOUT
    /\ expired \in 0 .. 1
    /\ {used, armed} \subseteq [Channels -> BOOLEAN]
    /\ opCode \in [Channels -> Ops]
    /\ mailbox \in Seq([op : Ops, result : BOOLEAN]) /\ Len(mailbox) <= MAILBOX_MAX
    /\ caller \in [pc : {"idle", "alloc", "arm", "add", "start"}, op : Ops, idx : Channels]
    /\ app \in [pc : {"idle", "remove", "start"}, op : Ops]
    /\ asserted \in BOOLEAN

(* The timer expires exactly when the first supervision is due, although   *)
(* it is restarted from times that are kept relative to the last change    *)
(* and moved on by two threads.                                            *)
TimerExact ==
    ~MutexHeld /\ osTimer > 0 =>
        count > 0 /\ osTimer + statusInstance[1].age = TIMEOUT

(* The comment at both osTimerStart: "the first entry is the most close    *)
(* one".  The table is kept in the order of the entries' ages through      *)
(* every mix of additions and removals.                                    *)
FirstIsClosest ==
    /\ TypeOK
    /\ \A i, j \in 1 .. count : i < j => statusInstance[i].age >= statusInstance[j].age

(* A supervision whose time is up is ended, with a lost trigger too.       *)
Overdue == count > 0 /\ statusInstance[1].age >= TIMEOUT
OverdueEnds == Overdue ~> ~Overdue

(* The assertion of app_bt_sync_refresh_supervisor_env, "Supervisor timer  *)
(* missed": whoever refreshes the table finds no entry that is due.        *)
TimerNotMissed ==
    (caller.pc = "add" /\ ~MutexHeld) \/ app.pc = "start" => ~RefreshAsserts
===============================================================================
