--------------------------------- MODULE AppKey --------------------------------
(***************************************************************************)
(* Key events on their way to the application (apps/key/app_key.cpp) and   *)
(* the mailbox and thread that carry them (apps/common/app_thread.c).      *)
(*                                                                         *)
(* The key driver's timer interrupt calls key_event_process, which drops   *)
(* an event when too many are on their way and otherwise counts it and     *)
(* puts it in the mailbox, where messages are sorted by the level of their *)
(* module.  The application thread takes the first message, calls the      *)
(* handler of its module and gives the message back to the pool.  The      *)
(* handler of the keys takes the event off the count and looks for the     *)
(* function registered for it; the main thread replaces these when the bud *)
(* has started, or closes the keys when it is not to start.                *)
(*                                                                         *)
(* The count is a plain byte: what the interrupt does to it is one step,   *)
(* what the thread does is a load and a store, with interrupts between.    *)
(* An event stands for a key code and its event.                           *)
(***************************************************************************)
EXTENDS Naturals, Sequences, SequencesExt, FiniteSets

CONSTANTS
    BootEvents,         \* events registered by app_poweron_key_init
    UiEvents,           \* events registered by app_key_init
    Battery, BtSync,    \* messages of modules of a lower and of a higher level
    KEY_EVENT_CNT_LIMIT,
    APP_MAILBOX_MAX,
    POOL_SIZE,          \* entries of app_key_handle_mempool
    MAX_LOST            \* bound: so many updates of the count are lost

AppEvents == BootEvents \cup UiEvents
Others == {Battery, BtSync}

(* APP_MOD_LEVEL_E.                                                        *)
Level(m) == CASE m = Battery -> 0 [] m \in AppEvents -> 1 [] m = BtSync -> 4

ASSUME AppKeyAssumption ==
    /\ IsFiniteSet(AppEvents) /\ AppEvents \cap Others = {} /\ Battery # BtSync
    /\ KEY_EVENT_CNT_LIMIT \in 0 .. 254
    /\ {APP_MAILBOX_MAX, POOL_SIZE, MAX_LOST} \subseteq Nat

VARIABLES
    key_event_cnt,
    mailbox,        \* messages queued
    current,        \* the message the application thread has in hand, a sequence
    mod_handler,    \* modules with a handler
    key_list,       \* events with a function
    app_pc, loaded, \* application thread: next step; the count it has read
    todo,           \* main thread: events it has still to register
    stage,          \* main thread: how far it has got
    failed,         \* the assertion of app_mailbox_put has failed
    called,         \* event of the last step's callback, as a set
    lost            \* history: updates of the count that were overwritten

appVars == <<key_event_cnt, mailbox, current, mod_handler, key_list, app_pc, loaded,
             todo, stage, failed, called, lost>>

countVars == <<key_event_cnt, loaded, lost>>
mailVars == <<mailbox, current, failed>>
mainVars == <<mod_handler, key_list, todo, stage>>

AppInit ==
    /\ key_event_cnt = 0 /\ loaded = 0 /\ lost = 0
    /\ mailbox = <<>> /\ current = <<>> /\ failed = FALSE
    /\ mod_handler = Others /\ key_list = {}
    /\ app_pc = "get"
    /\ todo = BootEvents /\ stage = "start"
    /\ called = {}

-----------------------------------------------------------------------------
(* Mutant: before the messages of its own level.                           *)
PutBeforeEqual(m) ==
    InsertAt(mailbox, 1 + Max({0} \cup {i \in 1 .. Len(mailbox) : Level(mailbox[i]) > Level(m)}), m)

(* MessageQueuePut: behind the last message that is not of a lower level.  *)
PutWithPrio(m) ==
    InsertAt(mailbox, 1 + Max({0} \cup {i \in 1 .. Len(mailbox) : Level(mailbox[i]) >= Level(m)}), m)

(* app_mailbox_put: a message keeps its place in the pool until the thread *)
(* has handled it.                                                         *)
app_mailbox_put(m) ==
    IF Len(mailbox \o current) < APP_MAILBOX_MAX
    THEN mailbox' = PutWithPrio(m) /\ UNCHANGED <<current, failed>>
    ELSE failed' = TRUE /\ UNCHANGED <<mailbox, current>>

(* The key driver's callback, in its interrupt.                            *)
key_event_process(e) ==
    /\ ~failed /\ stage \in {"boot", "ui"}
    /\ app_pc = "store" => lost + (key_event_cnt - loaded) < MAX_LOST
    /\ IF key_event_cnt > KEY_EVENT_CNT_LIMIT
       THEN UNCHANGED <<key_event_cnt, mailVars>>
       ELSE /\ key_event_cnt' = key_event_cnt + 1
            /\ app_mailbox_put(e)
    /\ called' = {}
    /\ UNCHANGED <<loaded, lost, mainVars, app_pc>>

(* Another module's message, from a thread or an interrupt.                *)
OtherPut(m) ==
    /\ ~failed /\ m \notin Range(mailbox \o current)
    /\ app_mailbox_put(m)
    /\ called' = {}
    /\ UNCHANGED <<countVars, mainVars, app_pc>>

-----------------------------------------------------------------------------
(* app_thread.                                                             *)
AppStep(from, to) == ~failed /\ app_pc = from /\ app_pc' = to /\ UNCHANGED <<mainVars, failed>>

app_mailbox_get ==
    /\ mailbox # <<>>
    /\ AppStep("get", IF Head(mailbox) \in AppEvents /\ "key" \in mod_handler
                      THEN "load" ELSE "free")
    /\ current' = <<Head(mailbox)>> /\ mailbox' = Tail(mailbox)
    /\ called' = {}
    /\ UNCHANGED countVars

LoadCount ==
    /\ AppStep("load", "store")
    /\ loaded' = key_event_cnt
    /\ called' = {}
    /\ UNCHANGED <<key_event_cnt, lost, mailbox, current>>

(* Mutant: the event is never taken off the count.                         *)
StoreNothing ==
    /\ AppStep("store", "find")
    /\ called' = {}
    /\ UNCHANGED <<countVars, mailbox, current>>

StoreCount ==
    /\ AppStep("store", "find")
    /\ key_event_cnt' = (loaded + 255) % 256
    /\ lost' = lost + (key_event_cnt - loaded)
    /\ called' = {}
    /\ UNCHANGED <<loaded, mailbox, current>>

(* The main thread may have freed the list meanwhile: then it is undefined *)
(* what is found.                                                          *)
app_key_handle_find ==
    /\ AppStep("find", "free")
    /\ called' \in IF stage = "freed" THEN {{}, Range(current)} ELSE {Range(current) \cap key_list}
    /\ UNCHANGED <<countVars, mailbox, current>>

app_mailbox_free ==
    /\ AppStep("free", "get")
    /\ current' = <<>>
    /\ called' = {}
    /\ UNCHANGED <<countVars, mailbox>>

app_thread == app_mailbox_get \/ LoadCount \/ StoreCount \/ app_key_handle_find \/ app_mailbox_free

-----------------------------------------------------------------------------
(* The main thread: it opens the keys and registers what they do while the *)
(* bud starts; when it has started it registers the functions of the user  *)
(* interface instead.                                                      *)
MainStep == ~failed /\ called' = {} /\ UNCHANGED <<countVars, mailVars, app_pc>>

app_key_open ==
    /\ stage = "start" /\ stage' = "boot"
    /\ mod_handler' = mod_handler \cup {"key"}
    /\ MainStep /\ UNCHANGED <<key_list, todo>>

app_key_handle_registration(e) ==
    /\ e \in todo /\ todo' = todo \ {e}
    /\ stage \in {"boot", "ui"}
    /\ key_list' = IF Cardinality(key_list) < POOL_SIZE THEN key_list \cup {e} ELSE key_list
    /\ MainStep /\ UNCHANGED <<mod_handler, stage>>

app_key_handle_clear ==
    /\ stage = "boot" /\ todo = {}
    /\ stage' = "ui" /\ todo' = UiEvents
    /\ key_list' = {}
    /\ MainStep /\ UNCHANGED mod_handler

(* app_key_close, called when the power key was not pressed long enough:   *)
(* hal_key_close, list_free, and the handler is taken away.                *)
app_key_close ==
    /\ \/ stage = "boot" /\ todo = {} /\ stage' = "closed" /\ UNCHANGED <<key_list, mod_handler>>
       \/ stage = "closed" /\ stage' = "freed" /\ key_list' = {} /\ UNCHANGED mod_handler
       \/ stage = "freed" /\ "key" \in mod_handler /\ mod_handler' = mod_handler \ {"key"}
          /\ UNCHANGED <<key_list, stage>>
    /\ MainStep /\ UNCHANGED todo

AppNext ==
    \/ \E e \in AppEvents : key_event_process(e)
    \/ \E m \in Others : OtherPut(m)
    \/ app_thread
    \/ app_key_open
    \/ \E e \in AppEvents : app_key_handle_registration(e)
    \/ app_key_handle_clear
    \/ app_key_close

AppSpec == AppInit /\ [][AppNext]_appVars

(* The application thread runs when it has a message.                      *)
FairAppSpec == AppSpec /\ WF_appVars(app_thread)

-----------------------------------------------------------------------------
AppTypeOK ==
    /\ key_event_cnt \in 0 .. 255 /\ loaded \in 0 .. 255 /\ lost \in 0 .. MAX_LOST
    /\ mailbox \in Seq(AppEvents \cup Others) /\ current \in Seq(AppEvents \cup Others)
    /\ Len(mailbox \o current) <= APP_MAILBOX_MAX
    /\ mod_handler \subseteq Others \cup {"key"} /\ key_list \subseteq AppEvents
    /\ app_pc \in {"get", "load", "store", "find", "free"}
    /\ todo \subseteq AppEvents /\ stage \in {"start", "boot", "ui", "closed", "freed"}
    /\ failed \in BOOLEAN /\ called \subseteq AppEvents

(* Key events on their way: those in the mailbox, and the one in hand      *)
(* until it is taken off the count.                                        *)
OnTheirWay ==
    Cardinality({i \in 1 .. Len(mailbox) : mailbox[i] \in AppEvents})
        + (IF app_pc \in {"load", "store"} THEN 1 ELSE 0)

(* What the count is worth: it is the number of events on their way less   *)
(* the updates that were overwritten by the thread's store, modulo 256.    *)
(* Nothing else moves the two apart until the keys are closed.             *)
CountDrift ==
    /\ AppTypeOK
    /\ ~failed /\ stage # "freed" => (key_event_cnt + lost) % 256 = OnTheirWay % 256

(* Whatever is put in the mailbox gets to the application thread, unless   *)
(* messages of a higher level keep coming: no message waits for later ones *)
(* of its own level, or of a lower one.                                    *)
Overtaken(m) == current # <<>> /\ Level(Head(current)) > Level(m)
Delivered ==
    \A m \in AppEvents \cup Others :
        []<>Overtaken(m) \/ ((m \in Range(mailbox)) ~> (current = <<m>> \/ failed))

-----------------------------------------------------------------------------
(* What the code's comments and assertions say and the model refutes (see  *)
(* Observations in the README).                                            *)

(* Events are dropped only when too many are on their way: with none left  *)
(* the next key event is taken.                                            *)
NotStuck == OnTheirWay = 0 => key_event_cnt <= KEY_EVENT_CNT_LIMIT
===============================================================================
