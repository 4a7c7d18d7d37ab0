------------------------------ MODULE BtSyncPair ------------------------------
(***************************************************************************)
(* Synchronised triggers over two buds (apps/bt_sync/app_bt_sync.cpp): the *)
(* master and the slave of the link between them, and the commands that    *)
(* are on their way.  The master's timer and mutex are module BtSync's;    *)
(* here a supervision is ended by its trigger or times out.                *)
(*                                                                         *)
(* On the master two threads may be in app_bt_sync_enable: the one of the  *)
(* user's operation, and the one that receives the slave's requests.  The  *)
(* master chooses the trigger's tick, tells the slave and arms a channel.  *)
(* The slave arms one when the command arrives in time.                    *)
(*                                                                         *)
(* Bluetooth ticks are relative: the ticks left until a trigger, negative  *)
(* when it is past.  A tick is long against the steps of a thread and      *)
(* short against the timeout of a supervision.  The link may go down,      *)
(* which loses what is on its way; a trigger may then come or not.         *)
(***************************************************************************)
EXTENDS Integers, Sequences, FiniteSetsExt

CONSTANTS
    CHANNEL_MAX,    \* APP_BT_SYNC_CHANNEL_MAX: channels, and table entries
    DELAY,          \* ticks from the command to its trigger
    Ops,            \* operation codes
    CONCURRENT,     \* the two callers on the master are different threads
    MAX_CMDS,       \* bound: commands the master sends
    MAX_REQUESTS    \* bound: requests of the slave on their way

ASSUME PairAssumption ==
    /\ {CHANNEL_MAX, DELAY, MAX_CMDS} \subseteq Nat \ {0} /\ MAX_REQUESTS \in Nat
    /\ CONCURRENT \in BOOLEAN
    /\ "RETRIGGER" \in Ops

Buds == {"master", "slave"}
Callers == {"user", "relay"}
Channels == 1 .. CHANNEL_MAX

VARIABLES
    link,           \* the link between the buds is up
    toSlave,        \* commands on their way, by number
    toMaster,       \* requests on their way
    done,           \* commands that arrived and whose acknowledgement did not
    chan,           \* locTriggerInfo and the armed triggers of both buds
    table, count,   \* the master's supervisions
    mailbox,        \* to the master's application thread
    caller,         \* the threads in app_bt_sync_enable
    retrigger,      \* a2dp_audio_retrigger_is_on_process
    failed,         \* the assertion that has failed, or ""
    cmds            \* history: the commands sent, and what became of them

linkVars == <<link, toSlave, toMaster, done>>
vars == <<linkVars, chan, table, count, mailbox, caller, retrigger, failed, cmds>>

NoChannel == [used |-> FALSE, op |-> "RETRIGGER", id |-> 0, left |-> -1]
NoEntry == [op |-> "RETRIGGER", idx |-> 1, id |-> 0, sendDone |-> FALSE]
NoCall == [pc |-> "idle", op |-> "RETRIGGER", idx |-> 1, id |-> 0]

Init ==
    /\ link = TRUE /\ toSlave = <<>> /\ toMaster = <<>> /\ done = {}
    /\ chan = [b \in Buds |-> [c \in Channels |-> NoChannel]]
    /\ table = [i \in Channels |-> NoEntry] /\ count = 0
    /\ mailbox = <<>>
    /\ caller = [t \in Callers |-> NoCall]
    /\ retrigger = FALSE /\ failed = ""
    /\ cmds = <<>>

(* A command: its operation, the ticks left, the buds that acted, whether  *)
(* there is a reason why a bud may not act, and whether it began while the *)
(* master supervised, or set up, one with the same code, or took a channel *)
(* that was still armed for another one.                                   *)
Command(op) ==
    [op |-> op, left |-> DELAY, acted |-> {}, excused |-> FALSE,
     overlaps |-> \/ \E i \in 1 .. count : table[i].op = op
                  \/ \E t \in Callers : caller[t].op = op /\ caller[t].pc \notin {"idle", "send"}]
Excuse(ids) ==
    [i \in DOMAIN cmds |-> [cmds[i] EXCEPT !.excused = @ \/ i \in ids]]

Fail(what) ==
    /\ failed' = what
    /\ UNCHANGED <<linkVars, chan, table, count, mailbox, caller, retrigger, cmds>>

-----------------------------------------------------------------------------
(* Channels.  A volume operation takes over the channel of another one.    *)
Suited(b, op) ==
    LET volume == {c \in Channels : chan[b][c].used /\ chan[b][c].op = "VOLUME" /\ op = "VOLUME"}
    IN  IF volume # {} THEN volume ELSE {c \in Channels : ~chan[b][c].used}

(* The command whose trigger is replaced when channel c is armed.          *)
Replaced(b, c) == IF chan[b][c].left >= 0 THEN {chan[b][c].id} ELSE {}

-----------------------------------------------------------------------------
(* app_bt_sync_enable on the master, by caller t.                          *)
Call(t, from, to) ==
    /\ caller[t].pc = from
    /\ caller' = [caller EXCEPT ![t].pc = to]
    /\ UNCHANGED <<toMaster, link>>

MayCall(t) == caller[t].pc = "idle" /\ (CONCURRENT \/ \A u \in Callers : caller[u].pc = "idle")

UserCalls(op) ==
    /\ link /\ MayCall("user") /\ count < CHANNEL_MAX
    /\ caller' = [caller EXCEPT !["user"].pc = "send", !["user"].op = op]
    /\ UNCHANGED <<linkVars, chan, table, count, mailbox, retrigger, failed, cmds>>

(* app_bt_sync_tws_cmd_handler on the master.  A retriggering that is not  *)
(* over makes it ignore all requests; the flag is set before it is known   *)
(* whether app_bt_sync_enable does anything.                               *)
RelayCalls ==
    LET op == Head(toMaster)
    IN  /\ link /\ toMaster # <<>> /\ MayCall("relay")
        /\ toMaster' = Tail(toMaster)
        /\ retrigger' = (retrigger \/ op = "RETRIGGER")
        /\ caller' = IF retrigger \/ count >= CHANNEL_MAX THEN caller
                     ELSE [caller EXCEPT !["relay"].pc = "send", !["relay"].op = op]
        /\ UNCHANGED <<link, toSlave, done, chan, table, count, mailbox, failed, cmds>>

(* The command goes out before the master has a channel.                   *)
SendCommand(t) ==
    /\ Len(cmds) < MAX_CMDS
    /\ IF link
       THEN /\ caller[t].pc = "send"
            /\ caller' = [caller EXCEPT ![t].pc = "find", ![t].id = Len(cmds) + 1]
            /\ cmds' = Append(cmds, Command(caller[t].op))
            /\ toSlave' = Append(toSlave, Len(cmds) + 1)
       ELSE caller[t].pc = "send" /\ caller' = [caller EXCEPT ![t] = NoCall]
            /\ UNCHANGED <<cmds, toSlave>>
    /\ UNCHANGED <<link, toMaster, done, chan, table, count, mailbox, retrigger, failed>>

FindChannel(t) ==
    LET suited == Suited("master", caller[t].op)
    IN  /\ caller[t].pc = "find"
        /\ IF suited = {}
           THEN /\ caller' = [caller EXCEPT ![t] = NoCall]
                /\ cmds' = Excuse({caller[t].id})
           ELSE /\ caller' = [caller EXCEPT ![t].pc = "check", ![t].idx = Min(suited)]
                /\ UNCHANGED cmds
        /\ UNCHANGED <<linkVars, chan, table, count, mailbox, retrigger, failed>>

CheckChannel(t) ==
    IF caller[t].pc = "check" /\ chan["master"][caller[t].idx].used /\ caller[t].op # "VOLUME"
    THEN Fail("reuse channel")
    ELSE /\ Call(t, "check", "take")
         /\ UNCHANGED <<toSlave, done, chan, table, count, mailbox, retrigger, failed, cmds>>

TakeChannel(t) ==
    /\ Call(t, "take", "arm")
    /\ chan' = [chan EXCEPT !["master"][caller[t].idx].used = TRUE,
                            !["master"][caller[t].idx].op = caller[t].op]
    /\ cmds' = [cmds EXCEPT ![caller[t].id].overlaps =
                                @ \/ chan["master"][caller[t].idx].left >= 0]
    /\ UNCHANGED <<toSlave, done, table, count, mailbox, retrigger, failed>>

ArmFor(t, ticks) ==
    LET c == caller[t].idx
    IN  /\ Call(t, "arm", "add")
        /\ chan' = [chan EXCEPT !["master"][c].id = caller[t].id, !["master"][c].left = ticks]
        /\ cmds' = Excuse(Replaced("master", c))
        /\ UNCHANGED <<toSlave, done, table, count, mailbox, retrigger, failed>>

(* Mutant: the trigger is armed a tick late.                               *)
ArmLate(t) == caller[t].pc = "arm" /\ ArmFor(t, cmds[caller[t].id].left + 1)

(* When the trigger of an earlier volume operation came since the channel  *)
(* was taken, the channel that is armed here is not marked as used.        *)
ArmTrigger(t) == caller[t].pc = "arm" /\ ArmFor(t, cmds[caller[t].id].left)

(* The flag twsCmdSendDone of the new entry is left as it is.              *)
AddSupervision(t) ==
    IF caller[t].pc = "add" /\ count >= CHANNEL_MAX THEN Fail("supervisor is full")
    ELSE /\ caller[t].pc = "add" /\ caller' = [caller EXCEPT ![t] = NoCall]
         /\ table' = [table EXCEPT ![count + 1] =
                         [@ EXCEPT !.op = caller[t].op, !.idx = caller[t].idx, !.id = caller[t].id]]
         /\ count' = count + 1
         /\ UNCHANGED <<linkVars, chan, mailbox, retrigger, failed, cmds>>

app_bt_sync_enable ==
    \/ \E op \in Ops : UserCalls(op)
    \/ \E t \in Callers : \/ SendCommand(t) \/ FindChannel(t) \/ CheckChannel(t)
                          \/ TakeChannel(t) \/ ArmTrigger(t) \/ AddSupervision(t)

-----------------------------------------------------------------------------
(* The slave.  app_bt_sync_enable asks the master.                         *)
SlaveAsks(op) ==
    /\ link /\ Len(toMaster) < MAX_REQUESTS
    /\ toMaster' = Append(toMaster, op)
    /\ UNCHANGED <<link, toSlave, done, chan, table, count, mailbox, caller, retrigger,
                   failed, cmds>>

(* Mutant: a command that comes late is taken.                             *)
InTimeAlways(left) == TRUE

InTime(left) == left > 0

(* app_bt_sync_tws_cmd_handler on the slave: a command that comes too late *)
(* is dropped; without a free channel the trigger unit refuses.            *)
CommandArrives ==
    LET id == Head(toSlave)
        suited == Suited("slave", cmds[id].op)
        c == Min(suited)
    IN  /\ toSlave # <<>>
        /\ toSlave' = Tail(toSlave) /\ done' = done \cup {id}
        /\ IF InTime(cmds[id].left) /\ suited # {}
           THEN /\ chan' = [chan EXCEPT !["slave"][c] = [used |-> TRUE, op |-> cmds[id].op, id |-> id,
                                                         left |-> cmds[id].left]]
                /\ cmds' = Excuse(Replaced("slave", c))
           ELSE /\ cmds' = Excuse({id})
                /\ UNCHANGED chan
        /\ UNCHANGED <<link, toMaster, table, count, mailbox, caller, retrigger, failed>>

-----------------------------------------------------------------------------
(* A trigger: app_bt_sync_irq_handler on either bud.                       *)
Triggered(b, c) ==
    /\ chan[b][c].left = 0
    /\ chan' = [chan EXCEPT ![b][c].used = FALSE, ![b][c].left = -1, ![b][c].id = 0]
    /\ cmds' = [cmds EXCEPT ![chan[b][c].id].acted = @ \cup {b}]
    /\ mailbox' = IF b = "master" THEN Append(mailbox, chan[b][c].op) ELSE mailbox
    /\ UNCHANGED <<linkVars, table, count, caller, retrigger, failed>>

TriggerLost(b, c) ==
    /\ ~link /\ chan[b][c].left = 0
    /\ chan' = [chan EXCEPT ![b][c].left = -1, ![b][c].id = 0]
    /\ cmds' = Excuse({chan[b][c].id})
    /\ UNCHANGED <<linkVars, table, count, mailbox, caller, retrigger, failed>>

(* Mutant: the channel of a supervision that timed out stays in use.       *)
TimedOutKeeps ==
    /\ count > 0 /\ mailbox = <<>> /\ cmds[table[1].id].left < 0
    /\ mailbox' = Append(mailbox, table[1].op)
    /\ UNCHANGED <<linkVars, chan, table, count, caller, retrigger, failed, cmds>>

(* The timer of the first supervision.  Its channel is free again.         *)
TimedOut ==
    /\ count > 0 /\ mailbox = <<>> /\ cmds[table[1].id].left < 0
    /\ chan' = [chan EXCEPT !["master"][table[1].idx].used = FALSE]
    /\ mailbox' = Append(mailbox, table[1].op)
    /\ UNCHANGED <<linkVars, table, count, caller, retrigger, failed, cmds>>

(* Mutant: the entry taken out is the oldest, not that of the operation.   *)
SupervisedAny(op) == 1 .. count

(* The places app_bt_sync_get_status_instance may return: the first one.   *)
Supervised(op) == {i \in 1 .. count : table[i].op = op}

(* app_bt_sync_handle: the first entry of the operation is taken out by    *)
(* moving the later ones; twsCmdSendDone is read after that, from the      *)
(* place where the entry was.  Of the place behind the last entry only     *)
(* twsCmdSendDone is ever read.                                            *)
app_bt_sync_handle ==
    LET found == Supervised(Head(mailbox))
        k == Min(found)
    IN  /\ mailbox # <<>> /\ mailbox' = Tail(mailbox)
        /\ IF found = {} THEN UNCHANGED <<table, count>>
           ELSE /\ table' = [i \in Channels |->
                               IF i >= count THEN [NoEntry EXCEPT !.sendDone = table[i].sendDone]
                               ELSE IF i >= k THEN table[i + 1] ELSE table[i]]
                /\ count' = count - 1
        /\ UNCHANGED <<linkVars, chan, caller, retrigger, failed, cmds>>

(* app_bt_sync_send_tws_cmd_done.                                          *)
SendDone(id) ==
    LET found == Supervised(cmds[id].op)
    IN  /\ id \in done /\ done' = done \ {id}
        /\ table' = IF found = {} THEN table ELSE [table EXCEPT ![Min(found)].sendDone = TRUE]
        /\ UNCHANGED <<link, toSlave, toMaster, chan, count, mailbox, caller, retrigger,
                       failed, cmds>>

-----------------------------------------------------------------------------
(* Around them: ticks, the link, the end of a retriggering.                *)
Due == \E b \in Buds, c \in Channels : chan[b][c].left = 0

Tick ==
    /\ ~Due /\ mailbox = <<>> /\ \A t \in Callers : caller[t].pc \in {"idle", "send"}
    /\ chan' = [b \in Buds |-> [c \in Channels |->
                   IF chan[b][c].left > 0 THEN [chan[b][c] EXCEPT !.left = @ - 1] ELSE chan[b][c]]]
    /\ cmds' = [i \in DOMAIN cmds |->
                   IF cmds[i].left >= 0 THEN [cmds[i] EXCEPT !.left = @ - 1] ELSE cmds[i]]
    /\ UNCHANGED <<linkVars, table, count, mailbox, caller, retrigger, failed>>

LinkDown ==
    /\ link /\ link' = FALSE
    /\ cmds' = Excuse({toSlave[i] : i \in DOMAIN toSlave})
    /\ toSlave' = <<>> /\ toMaster' = <<>> /\ done' = {}
    /\ UNCHANGED <<chan, table, count, mailbox, caller, retrigger, failed>>

LinkUp ==
    /\ ~link /\ link' = TRUE
    /\ UNCHANGED <<toSlave, toMaster, done, chan, table, count, mailbox, caller, retrigger,
                   failed, cmds>>

RetriggerEnds ==
    /\ retrigger /\ retrigger' = FALSE
    /\ UNCHANGED <<linkVars, chan, table, count, mailbox, caller, failed, cmds>>

Next ==
    /\ failed = ""
    /\ \/ app_bt_sync_enable
       \/ RelayCalls
       \/ \E op \in Ops : SlaveAsks(op)
       \/ CommandArrives
       \/ \E b \in Buds, c \in Channels : Triggered(b, c) \/ TriggerLost(b, c)
       \/ TimedOut
       \/ app_bt_sync_handle
       \/ \E id \in done : SendDone(id)
       \/ Tick \/ LinkDown \/ LinkUp \/ RetriggerEnds

Spec == Init /\ [][Next]_vars

(* Time passes, a thread that has sent its command runs on, and triggers   *)
(* that are due come or are lost: one of these steps is always taken in    *)
(* the end.  The link need not come up again.                              *)
GoesOn ==
    \/ Tick
    \/ \E t \in Callers : \/ FindChannel(t) \/ CheckChannel(t) \/ TakeChannel(t)
                          \/ ArmTrigger(t) \/ AddSupervision(t)
    \/ \E b \in Buds, c \in Channels : Triggered(b, c) \/ TriggerLost(b, c)
    \/ TimedOut
    \/ app_bt_sync_handle

FairSpec == Spec /\ WF_vars(GoesOn)

-----------------------------------------------------------------------------
Numbers == 0 .. MAX_CMDS
TypeOK ==
    /\ link \in BOOLEAN /\ toSlave \in Seq(1 .. MAX_CMDS) /\ toMaster \in Seq(Ops)
    /\ done \subseteq 1 .. MAX_CMDS
    /\ chan \in [Buds -> [Channels -> [used : BOOLEAN, op : Ops, id : Numbers, left : -1 .. DELAY]]]
    /\ table \in [Channels -> [op : Ops, idx : Channels, id : Numbers, sendDone : BOOLEAN]]
    /\ count \in 0 .. CHANNEL_MAX
    /\ mailbox \in Seq(Ops)
    /\ caller \in [Callers -> [pc : {"idle", "send", "find", "check", "take", "arm", "add"},
                               op : Ops, idx : Channels, id : Numbers]]
    /\ retrigger \in BOOLEAN /\ failed \in {"", "reuse channel", "supervisor is full"}

(* A bud acts on a command at its tick and at no other time, whichever     *)
(* channel and whatever earlier or later command it shares it with.        *)
ActsOnTime ==
    [][\A i \in DOMAIN cmds : cmds'[i].acted # cmds[i].acted => cmds[i].left = 0]_vars

(* Once the tick of a command is past, both buds have acted on it, or      *)
(* there is one of the known reasons: the command or a trigger was lost    *)
(* with the link, the command came late or is still on its way, a bud had  *)
(* no free channel, or a later operation took the channel with its trigger *)
(* still armed.  Nothing else keeps a bud from acting.                     *)
BothActOrExcused ==
    \A i \in DOMAIN cmds :
        cmds[i].left < 0 => \/ cmds[i].acted = Buds
                            \/ cmds[i].excused
                            \/ \E k \in DOMAIN toSlave : toSlave[k] = i

(* Triggers of operations with the same code, or on the same channel, were *)
(* under way together.                                                     *)
Overlapped(op) == \E i \in DOMAIN cmds : cmds[i].op = op /\ cmds[i].overlaps

(* A channel the master is using is used for a trigger that will come, or  *)
(* there is a supervision that will free it: the table finds supervisions  *)
(* by operation code and channels by index, and the two stay matched as    *)
(* long as no two operations with one code, or on one channel, overlap.    *)
NoLeak ==
    /\ TypeOK
    /\ \A c \in Channels :
           chan["master"][c].used =>
               \/ chan["master"][c].left >= 0
               \/ \E i \in 1 .. count : table[i].idx = c
               \/ \E t \in Callers : caller[t].idx = c /\ caller[t].pc \in {"arm", "add"}
               \/ Overlapped(chan["master"][c].op)

(* The master's channels come free, also when triggers are lost with the   *)
(* link and it never comes up again, as long as no two operations with one *)
(* code, or on one channel, overlap.                                       *)
MasterFree ==
    \A c \in Channels :
        chan["master"][c].used ~> \/ ~chan["master"][c].used
                                 \/ Overlapped(chan["master"][c].op)

-----------------------------------------------------------------------------
(* What the code's comments and assertions say and the model refutes (see  *)
(* Observations in the README).                                            *)

(* The assertion of app_bt_sync_add_waiting_irq_timeout_supervision.       *)
NeverFull == failed # "supervisor is full"

(* The assertion of app_bt_sync_get_avaliable_trigger_channel.             *)
NeverReused == failed # "reuse channel"

(* A channel that is taken as free has no trigger to come.                 *)
FreeUnarmed ==
    [][\A t \in Callers :
         caller[t].pc = "take" /\ caller'[t].pc = "arm" /\ ~chan["master"][caller[t].idx].used =>
             chan["master"][caller[t].idx].left < 0]_vars

(* triInfoSentStatus of statusNotify, read from the place of the entry     *)
(* after it was taken out: it does not say sent for a command that is      *)
(* still on its way or whose sending is not done.                          *)
SentStatusGenuine ==
    [][count' < count =>
         LET k == Min(Supervised(Head(mailbox)))
         IN  table'[k].sendDone =>
                 /\ table[k].id \notin done
                 /\ \A i \in DOMAIN toSlave : toSlave[i] # table[k].id]_vars
===============================================================================
