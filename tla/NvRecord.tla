------------------------------ MODULE NvRecord ------------------------------
(***************************************************************************)
(* The user-data record store of the earbud firmware                       *)
(* (apps/nv_section/userdata_section/nvrecord_extension.c).                *)
(*                                                                         *)
(* One record (pairings, volumes, environment ...) lives in RAM, in a      *)
(* mirror that every writer changes with the interrupts locked, and in two *)
(* flash sectors, "main" and "bak".  A flush erases and programs main,     *)
(* waits until the flash driver's buffer is empty, and then does the same  *)
(* for bak.  It is run one step per call by the sleep hook                 *)
(* (nv_record_flash_flush_in_sleep), or to the end by a thread that calls  *)
(* nv_record_flash_flush, from whatever step the hook had reached.  Power  *)
(* can go at any step; nv_record_extension_init rebuilds the mirror from   *)
(* the sectors.                                                            *)
(*                                                                         *)
(* The flash driver (norflash_api) is a library without source: it is      *)
(* modelled as a FIFO of erase and program operations that are carried out *)
(* some time after they are accepted, in order.                            *)
(***************************************************************************)
EXTENDS Naturals, Sequences

CONSTANTS
    Values,     \* the records a writer can produce: header, data, matching CRC
    Default,    \* the record nv_record_set_default builds
    Erased,     \* content of a sector after an erase
    Torn,       \* content that fails nv_record_data_is_valid: half done work
    MaxTouch    \* bound: writers that are between their write and their touch

ASSUME ValuesAssumption == Default \in Values
ASSUME SectorAssumption == /\ Erased \notin Values /\ Torn \notin Values
                           /\ Erased # Torn
ASSUME TouchAssumption == MaxTouch \in Nat

Sectors == {"main", "bak"}
Contents == Values \cup {Erased, Torn}

VARIABLES
    on,         \* nvrec_init: the mirror is loaded, the firmware runs
    ram,        \* the mirror, *nvrecord_extension_p
    is_update,  \* nv_flush_state.is_update
    state,      \* nv_flush_state.state
    burn,       \* _nv_burn_buf, shared by both halves of a flush
    sync,       \* the thread that holds the mutex for a synchronous flush
    touches,    \* writers that released the lock and have yet to set is_update
    expired,    \* nv_record_is_timer_expired_to_check()
    flash,      \* the two sectors
    queue,      \* operations norflash_api has accepted and not finished
    formatted   \* history: a whole record was stored and not cleared on purpose

mirrorVars == <<ram, touches>>
flushVars == <<is_update, state, burn>>
vars == <<on, mirrorVars, flushVars, sync, expired, flash, queue, formatted>>

(* NV_STATE; BAK_WRITTING and BAK_DONE never outlive the call that sets    *)
(* them and MAIN_WRITTING is never set.                                    *)
NV_STATE == {"IDLE", "MAIN_ERASING", "MAIN_ERASED", "MAIN_WRITE_PENDING",
             "MAIN_WRITTEN", "MAIN_DONE", "BAK_ERASING", "BAK_ERASED",
             "BAK_WRITE_PENDING", "BAK_WRITTEN"}

(* Where the thread in nv_record_flash_flush or nv_record_sector_clear is: *)
(* "flush" at the head of the loop's next test, "drain" in the loop that   *)
(* waits for the bak sector, "clear_*" in one erase of sector_clear.       *)
SYNC == {"none", "flush", "drain", "clear_main", "clear_bak"}
Clearing == sync \in {"clear_main", "clear_bak"}

-----------------------------------------------------------------------------
(* The flash driver, from how nvrecord_extension.c uses it.                *)

Erase(s) == [op |-> "erase", sec |-> s, data |-> Erased]
Program(s, v) == [op |-> "program", sec |-> s, data |-> v]
Ops == [op : {"erase", "program"}, sec : Sectors, data : Contents]

(* What a sector holds after an operation: programming can only clear      *)
(* bits, so it is right on an erased sector or over the same data.         *)
Result(o, old) ==
    CASE o.op = "erase" -> Erased
      [] o.op = "program" /\ old \in {Erased, o.data} -> o.data
      [] OTHER -> Torn

(* norflash_api_read: the buffered data of the sector, else the flash.     *)
norflash_api_read(s) ==
    LET hits == {i \in DOMAIN queue : queue[i].sec = s}
    IN  IF hits = {} THEN flash[s]
        ELSE queue[CHOOSE i \in hits : \A j \in hits : j <= i].data

(* The driver finishes the oldest operation.                               *)
NorflashProgress ==
    /\ on /\ queue # <<>>
    /\ LET o == Head(queue)
       IN  /\ flash' = [flash EXCEPT ![o.sec] = Result(o, flash[o.sec])]
           /\ formatted' = (formatted \/ (o.sec = "main" /\ flash'["main"] \in Values))
    /\ queue' = Tail(queue)
    /\ UNCHANGED <<on, mirrorVars, flushVars, sync, expired>>

-----------------------------------------------------------------------------
(* Start-up.                                                               *)

nv_record_data_is_valid(s) == flash[s] \in Values

(* Mutants: the flush that repairs bak starts at IDLE and so erases main   *)
(* first; bak is loaded although main is valid.                            *)
InitIgnoresBadBak ==
    LET main_is_valid == nv_record_data_is_valid("main")
        bak_is_valid  == nv_record_data_is_valid("bak")
    IN  /\ ~on
        /\ on' = TRUE
        /\ ram' = IF main_is_valid THEN flash["main"]
                  ELSE IF bak_is_valid THEN flash["bak"] ELSE Default
        /\ is_update' = ~(main_is_valid /\ bak_is_valid)
        /\ state' = "IDLE"
        /\ sync' = IF is_update' THEN "flush" ELSE "none"
        /\ expired' = FALSE
        /\ formatted' = (formatted \/ main_is_valid \/ bak_is_valid)
        /\ UNCHANGED <<burn, touches, flash, queue>>

InitPrefersBak ==
    LET main_is_valid == nv_record_data_is_valid("main")
        bak_is_valid  == nv_record_data_is_valid("bak")
    IN  /\ ~on
        /\ on' = TRUE
        /\ ram' = IF bak_is_valid THEN flash["bak"]
                  ELSE IF main_is_valid THEN flash["main"] ELSE Default
        /\ is_update' = ~(main_is_valid /\ bak_is_valid)
        /\ state' = IF main_is_valid /\ ~bak_is_valid THEN "MAIN_DONE" ELSE "IDLE"
        /\ sync' = IF is_update' THEN "flush" ELSE "none"
        /\ expired' = FALSE
        /\ formatted' = (formatted \/ main_is_valid \/ bak_is_valid)
        /\ UNCHANGED <<burn, touches, flash, queue>>

nv_record_extension_init ==
    LET main_is_valid == nv_record_data_is_valid("main")
        bak_is_valid  == nv_record_data_is_valid("bak")
    IN  /\ ~on
        /\ on' = TRUE
        /\ ram' = IF main_is_valid THEN flash["main"]
                  ELSE IF bak_is_valid THEN flash["bak"] ELSE Default
        /\ is_update' = ~(main_is_valid /\ bak_is_valid)
        /\ state' = IF main_is_valid /\ ~bak_is_valid THEN "MAIN_DONE" ELSE "IDLE"
        /\ sync' = IF is_update' THEN "flush" ELSE "none"
        /\ expired' = FALSE
        /\ formatted' = (formatted \/ main_is_valid \/ bak_is_valid)
        /\ UNCHANGED <<burn, touches, flash, queue>>

(* The sectors an operation is at work on, and what a power cut can leave. *)
Busy(s) == \/ queue # <<>> /\ Head(queue).sec = s
           \/ sync = "clear_main" /\ s = "main"
           \/ sync = "clear_bak" /\ s = "bak"

PowerCut ==
    /\ on
    /\ on' = FALSE
    /\ \E cut \in {"before", "during"} :
         flash' = [s \in Sectors |-> IF Busy(s) /\ cut = "during" THEN Torn ELSE flash[s]]
    /\ queue' = <<>>
    /\ is_update' = FALSE /\ state' = "IDLE" /\ sync' = "none" /\ touches' = 0
    /\ UNCHANGED <<ram, burn, expired, formatted>>

-----------------------------------------------------------------------------
(* Writers of the mirror.                                                  *)

(* The write and nv_record_update_runtime_userdata both inside             *)
(* pre/post_write_operation; nv_record_rebuild does the same and then      *)
(* calls nv_record_flash_flush.                                            *)
WriteLocked(v) ==
    /\ on
    /\ ram' = v
    /\ is_update' = TRUE
    /\ UNCHANGED <<on, state, burn, sync, touches, expired, flash, queue, formatted>>

(* The writers that call nv_record_update_runtime_userdata only after      *)
(* post_write_operation has released the lock.                             *)
WriteThenTouch(v) ==
    /\ on /\ touches < MaxTouch
    /\ ram' = v
    /\ touches' = touches + 1
    /\ UNCHANGED <<on, flushVars, sync, expired, flash, queue, formatted>>

nv_record_extension_update ==
    /\ on /\ touches > 0
    /\ touches' = touches - 1
    /\ is_update' = TRUE
    /\ UNCHANGED <<on, ram, state, burn, sync, expired, flash, queue, formatted>>

-----------------------------------------------------------------------------
(* The steps of a flush, common to both ways of running it.                *)

RequestErase(s, from, to) ==
    /\ state \in from
    /\ state = "IDLE" => is_update
    /\ state' = to
    /\ queue' = Append(queue, Erase(s))
    /\ UNCHANGED <<is_update, burn>>

RequestProgram(s, from, to) ==
    /\ state = from
    /\ state' = to
    /\ queue' = Append(queue, Program(s, burn))
    /\ UNCHANGED <<is_update, burn>>

(* Snapshot of the mirror and reset of is_update, with interrupts locked.  *)
SnapshotMirror ==
    /\ state = "MAIN_ERASED"
    /\ burn' = ram
    /\ state' = "MAIN_WRITE_PENDING"
    /\ is_update' = FALSE
    /\ UNCHANGED queue

(* Mutant: bak is programmed with the mirror of the moment, not with main. *)
CopyMirrorToBurn(from) ==
    /\ state \in from
    /\ burn' = ram
    /\ state' = "BAK_WRITE_PENDING"
    /\ UNCHANGED <<is_update, queue>>

CopyMainToBurn(from) ==
    /\ state \in from
    /\ burn' = norflash_api_read("main")
    /\ state' = "BAK_WRITE_PENDING"
    /\ UNCHANGED <<is_update, queue>>

(* Mutant: is_update is cleared when a flush ends instead of when the      *)
(* mirror is copied.                                                       *)
ClearUpdateAtEnd(from, to) ==
    /\ state = from
    /\ queue = <<>>
    /\ state' = to
    /\ is_update' = (is_update /\ to # "IDLE")
    /\ UNCHANGED <<burn, queue>>

Drained(from, to) ==
    /\ state = from
    /\ queue = <<>>
    /\ state' = to
    /\ UNCHANGED <<is_update, burn, queue>>

flush_main ==
    \/ RequestErase("main", {"IDLE", "MAIN_ERASING"}, "MAIN_ERASED")
    \/ SnapshotMirror
    \/ RequestProgram("main", "MAIN_WRITE_PENDING", "MAIN_WRITTEN")
    \/ Drained("MAIN_WRITTEN", "MAIN_DONE")

-----------------------------------------------------------------------------
(* The asynchronous flush: one step per call of the sleep hook.            *)

(* Mutant: the timer is never asked.                                       *)
HookNeverStarts ==
    /\ on /\ sync = "none"
    /\ state # "IDLE"

nv_record_flash_flush_in_sleep ==
    /\ on /\ sync = "none"
    /\ state # "IDLE" \/ expired

AsyncFrame == UNCHANGED <<on, mirrorVars, sync, flash, formatted>>

(* A step that succeeds also resets the checkpoint of the 20 minute timer. *)
AsyncStep ==
    /\ nv_record_flash_flush_in_sleep
    /\ \/ flush_main
       \/ RequestErase("bak", {"MAIN_DONE", "BAK_ERASING"}, "BAK_ERASED")
       \/ CopyMainToBurn({"BAK_ERASED"})
       \/ RequestProgram("bak", "BAK_WRITE_PENDING", "BAK_WRITTEN")
       \/ Drained("BAK_WRITTEN", "IDLE")
    /\ expired' = FALSE
    /\ AsyncFrame

(* norflash_api has no buffer left (other modules use it too): the request *)
(* is repeated by the next call.                                           *)
AsyncBufferFull ==
    /\ nv_record_flash_flush_in_sleep
    /\ \/ state = "IDLE" /\ is_update /\ state' = "MAIN_ERASING"
       \/ state = "MAIN_DONE" /\ state' = "BAK_ERASING"
    /\ UNCHANGED <<is_update, burn, queue, expired>>
    /\ AsyncFrame

(* A call that finds nothing to do, or operations still in the buffer.     *)
AsyncNothing ==
    /\ nv_record_flash_flush_in_sleep
    /\ \/ state = "IDLE" /\ ~is_update
       \/ state \in {"MAIN_WRITTEN", "BAK_WRITTEN"} /\ queue # <<>>
    /\ expired' = FALSE
    /\ UNCHANGED <<flushVars, queue>>
    /\ AsyncFrame

(* NV_RECORD_FLUSH_EXECUTION_INTERVAL_MS have passed; the two erases of    *)
(* nv_record_sector_clear take milliseconds of the first second after boot.*)
TimerExpires ==
    /\ on /\ ~expired /\ ~Clearing
    /\ expired' = TRUE
    /\ UNCHANGED <<on, mirrorVars, flushVars, sync, flash, queue, formatted>>

-----------------------------------------------------------------------------
(* The synchronous flush: a thread holds the mutex until IDLE and clean.   *)

SyncFrame == UNCHANGED <<on, mirrorVars, expired, flash, formatted>>

nv_record_flash_flush ==
    /\ on /\ sync = "none"
    /\ sync' = "flush"
    /\ UNCHANGED <<flushVars, queue>>
    /\ SyncFrame

(* A buffer that is full only makes the thread wait, so it is no step.     *)
SyncMain ==
    /\ on /\ sync = "flush"
    /\ flush_main
    /\ UNCHANGED sync
    /\ SyncFrame

(* The test admits BAK_WRITTEN: a program request the hook already made is *)
(* made again.                                                             *)
SyncBak ==
    /\ on /\ sync = "flush"
    /\ \/ /\ RequestErase("bak", {"MAIN_DONE", "BAK_ERASING"}, "BAK_ERASED")
          /\ UNCHANGED sync
       \/ CopyMainToBurn({"BAK_ERASED", "BAK_WRITTEN"}) /\ UNCHANGED sync
       \/ RequestProgram("bak", "BAK_WRITE_PENDING", "BAK_WRITTEN") /\ sync' = "drain"
    /\ SyncFrame

SyncBakDrained ==
    /\ on /\ sync = "drain"
    /\ Drained("BAK_WRITTEN", "IDLE")
    /\ sync' = "flush"
    /\ SyncFrame

(* Mutant: the loop ends when the state is IDLE, pending update or not.    *)
SyncReturnsDirty ==
    /\ on /\ sync = "flush" /\ state = "IDLE"
    /\ sync' = "none"
    /\ expired' = FALSE
    /\ UNCHANGED <<on, mirrorVars, flushVars, flash, queue, formatted>>

SyncReturn ==
    /\ on /\ sync = "flush" /\ state = "IDLE" /\ ~is_update
    /\ sync' = "none"
    /\ expired' = FALSE
    /\ UNCHANGED <<on, mirrorVars, flushVars, flash, queue, formatted>>

(* Called by app_nvrecord_rebuild (apps/main/apps.cpp) in the              *)
(* engineering-mode boot right after init, when the checkpoint has not     *)
(* expired: both sectors are erased outright, the mirror is updated and a  *)
(* synchronous flush stores it.                                            *)
nv_record_sector_clear ==
    /\ on /\ sync = "none" /\ state = "IDLE" /\ ~expired
    /\ sync' = "clear_main"
    /\ formatted' = FALSE
    /\ UNCHANGED <<on, mirrorVars, flushVars, expired, flash, queue>>

SectorClearMain ==
    /\ on /\ sync = "clear_main"
    /\ flash' = [flash EXCEPT !["main"] = Erased]
    /\ sync' = "clear_bak"
    /\ UNCHANGED <<on, mirrorVars, flushVars, expired, queue, formatted>>

SectorClearBak(v) ==
    /\ on /\ sync = "clear_bak"
    /\ flash' = [flash EXCEPT !["bak"] = Erased]
    /\ ram' = v
    /\ is_update' = TRUE
    /\ sync' = "flush"
    /\ UNCHANGED <<on, state, burn, touches, expired, queue, formatted>>

-----------------------------------------------------------------------------
Init ==
    /\ on = FALSE
    /\ ram = Default /\ touches = 0
    /\ is_update = FALSE /\ state = "IDLE" /\ burn = Erased
    /\ sync = "none" /\ expired = FALSE /\ queue = <<>>
    /\ flash \in [Sectors -> Contents]
    /\ formatted = (\E s \in Sectors : flash[s] \in Values)

Writers == \E v \in Values : WriteLocked(v) \/ WriteThenTouch(v)
Async == AsyncStep \/ AsyncBufferFull \/ AsyncNothing
Sync == SyncMain \/ SyncBak \/ SyncBakDrained \/ SyncReturn
Clear == SectorClearMain \/ \E v \in Values : SectorClearBak(v)

Next ==
    \/ nv_record_extension_init
    \/ PowerCut
    \/ Writers
    \/ nv_record_extension_update
    \/ Async
    \/ TimerExpires
    \/ nv_record_flash_flush
    \/ Sync
    \/ nv_record_sector_clear
    \/ Clear
    \/ NorflashProgress

Spec == Init /\ [][Next]_vars

(* The device wakes and sleeps, so the hook runs again and again and the   *)
(* 20 minutes pass; a thread that holds the mutex is scheduled; the driver *)
(* works its buffer off, so a request is not refused for ever (hence the   *)
(* strong fairness of the step that succeeds); a writer touches.           *)
Fairness ==
    /\ WF_vars(nv_record_extension_init)
    /\ SF_vars(AsyncStep)
    /\ WF_vars(TimerExpires)
    /\ WF_vars(Sync)
    /\ WF_vars(Clear)
    /\ WF_vars(NorflashProgress)
    /\ WF_vars(nv_record_extension_update)

FairSpec == Spec /\ Fairness

-----------------------------------------------------------------------------
TypeOK ==
    /\ on \in BOOLEAN /\ is_update \in BOOLEAN
    /\ expired \in BOOLEAN /\ formatted \in BOOLEAN
    /\ ram \in Values
    /\ state \in NV_STATE
    /\ burn \in Contents
    /\ sync \in SYNC
    /\ touches \in Nat
    /\ flash \in [Sectors -> Contents]
    /\ queue \in Seq(Ops)

(* Once a whole record has been stored, and until nv_record_sector_clear   *)
(* clears it on purpose, one of the two sectors passes                     *)
(* nv_record_data_is_valid, at every step of a flush and after a power cut *)
(* at any point: a start-up never falls back to nv_record_set_default.     *)
OneGoodCopy == formatted => \E s \in Sectors : nv_record_data_is_valid(s)

(* A change of the mirror is never forgotten: when is_update is clear and  *)
(* no writer has yet to set it, the mirror is what the flush under way     *)
(* carries (the burn buffer until it is programmed, main afterwards).      *)
Carried == IF state \in {"MAIN_WRITE_PENDING", "MAIN_WRITTEN"} THEN burn
           ELSE flash["main"]

NoLostUpdate ==
    (on /\ ~is_update /\ touches = 0 /\ ~Clearing) => ram = Carried

(* The two sectors are never at work in one flush step: bak is erased and  *)
(* programmed only while main holds a whole record that no queued          *)
(* operation touches, and main only while bak is not being written.        *)
OneSectorAtATime ==
    \A i \in DOMAIN queue :
        /\ queue[i].sec = "bak" => nv_record_data_is_valid("main")
        /\ \A j \in DOMAIN queue : queue[i].sec = queue[j].sec

(* A flush that ends (the state returns to IDLE with the power on) leaves  *)
(* the same whole record in both sectors, whatever mix of hook calls and   *)
(* nv_record_flash_flush ran its steps.                                    *)
FlushEndsEqual ==
    [][(on /\ on' /\ state # "IDLE" /\ state' = "IDLE")
         => /\ flash["main"] = flash["bak"]
            /\ nv_record_data_is_valid("main")]_vars

(* nv_record_flash_flush returns only when main holds the mirror's record, *)
(* but for writers that have not touched yet.                              *)
SyncFlushDurable ==
    [][(on /\ on' /\ sync = "flush" /\ sync' = "none" /\ touches = 0)
         => flash["main"] = ram]_vars

(* A pending update is taken into a flush, unless the power goes first.    *)
UpdateFlushed == is_update ~> (~is_update)

-----------------------------------------------------------------------------
(* The inductive invariant: what the driver's buffer and the sectors can   *)
(* hold at each state of the flush.                                        *)

ErasePhase(s) ==
    \/ queue = <<Erase(s)>>
    \/ queue = <<>> /\ flash[s] = Erased

ProgramPhase(s) ==
    \/ queue = <<Erase(s), Program(s, burn)>>
    \/ queue = <<Program(s, burn)>> /\ flash[s] \in {Erased, burn}
    \/ queue = <<>> /\ flash[s] = burn

(* The synchronous flush requested the program operation a second time.    *)
AgainPhase(s) ==
    \/ queue = <<Erase(s), Program(s, burn), Program(s, burn)>>
    \/ queue = <<Program(s, burn), Program(s, burn)>> /\ flash[s] \in {Erased, burn}

BufferInv ==
    /\ state \in {"IDLE", "MAIN_ERASING", "MAIN_DONE", "BAK_ERASING"} => queue = <<>>
    /\ state \in {"MAIN_ERASED", "MAIN_WRITE_PENDING"} => ErasePhase("main")
    /\ state = "MAIN_WRITTEN" => ProgramPhase("main")
    /\ state = "BAK_ERASED" => ErasePhase("bak")
    /\ state = "BAK_WRITE_PENDING" =>
          \/ ErasePhase("bak")
          \/ sync = "flush" /\ ProgramPhase("bak")
    /\ state = "BAK_WRITTEN" =>
          \/ ProgramPhase("bak")
          \/ sync = "drain" /\ AgainPhase("bak")

ThreadInv ==
    /\ ~on => state = "IDLE" /\ sync = "none"
    /\ sync = "drain" => state = "BAK_WRITTEN"
    /\ Clearing => state = "IDLE" /\ ~formatted
    /\ sync = "clear_main" => flash["bak"] \in Values \/ flash["main"] \notin Values
    /\ sync = "clear_bak" => flash["main"] = Erased

BurnInv ==
    /\ state \in {"MAIN_WRITE_PENDING", "MAIN_WRITTEN"} => burn \in Values
    /\ state \in {"MAIN_DONE", "BAK_ERASING", "BAK_ERASED", "BAK_WRITE_PENDING",
                  "BAK_WRITTEN"} => flash["main"] \in Values
    /\ state \in {"BAK_WRITE_PENDING", "BAK_WRITTEN"} => burn = flash["main"]

(* While main can be lost, bak is whole: a flush starts at IDLE only when  *)
(* bak is, and a start-up that finds bak damaged repairs it first.         *)
CopyInv ==
    /\ formatted =>
         \/ flash["bak"] \in Values
         \/ /\ flash["main"] \in Values
            /\ on => \/ state = "MAIN_WRITTEN" /\ queue = <<>>
                     \/ state \in {"MAIN_DONE", "BAK_ERASING", "BAK_ERASED",
                                   "BAK_WRITE_PENDING", "BAK_WRITTEN"}
    /\ (on /\ ~Clearing /\ ~formatted) => \A s \in Sectors : flash[s] \notin Values

UpdateInv ==
    /\ state \in {"MAIN_ERASING", "MAIN_ERASED"} => is_update
    /\ NoLostUpdate

IInv == TypeOK /\ BufferInv /\ ThreadInv /\ BurnInv /\ CopyInv /\ UpdateInv

-----------------------------------------------------------------------------
(* What a start-up now would load, and what it would load if main failed.  *)
Durable == IF flash["main"] \in Values THEN flash["main"]
           ELSE IF flash["bak"] \in Values THEN flash["bak"] ELSE Default
Spare == IF flash["bak"] \in Values THEN flash["bak"] ELSE Durable
InFlight == IF state \in {"MAIN_WRITE_PENDING", "MAIN_WRITTEN"} THEN burn ELSE Erased

(* The abstract store: NvStore.                                            *)
Store == INSTANCE NvStore WITH
            up <- on, live <- ram, snap <- InFlight, durable <- Durable,
            spare <- Spare, erasing <- Clearing, None <- Erased

(* The two-sector store with its flush steps, driver buffer and power cuts *)
(* implements NvStore: a start-up loads the last record flushed or the one *)
(* before it, and nothing else.                                            *)
StoreRefined == Store!Spec
=============================================================================
