# TLA+ verification of the best1307 earbud firmware

The repository is the SDK of a true-wireless earbud on the BES best1307 chip:
C and C++ over the RTX5 kernel, with a large share of closed libraries (the
Bluetooth stack, the flash service, the audio engine) of which only headers are
present. This directory models the parts whose control is in the repository and
is hard to test: the record store that has to survive power cuts, the frequency
and sleep managers that every thread and interrupt handler goes through, the
link to the core of the Bluetooth controller, the synchronised triggers of the
two buds, and the way of a key press, a battery sample and a charger's plug from
the interrupt to the application thread.

All models follow the default build (`config/best1307/target.mk`,
`config/common.mk`): `ULTRA_LOW_POWER=1` (which sets `FLASH_LOW_SPEED`),
`PMU_CTRL_ENABLE`, `CORE_SLEEP_POWER_DOWN=1`, `NEW_NV_RECORD_ENABLED=1`,
`FLASH_SUSPEND=1` with the flush in the sleep hook, `IBRT=1`,
`USE_BASIC_THREADS=1`, `HAS_BT_SYNC=1`, `CHIP_INTERSYS_VER=2`. Build options that a model keeps as a
constant are named below.

## How to run

In this directory, for a run of the table below:

    tlc -workers 2 -config MCNvRecord.cfg MCNvRecord
    tlapm SleepProofs.tla

The modules `BtSync`, `BtSyncPair`, `Key`, `AppKey`, `Charger`, `Battery` and
`Intersys` need no definitions of their own for TLC and are run as they are.

## Inventory

| Part | State it keeps | Operations | Interacts with | What is hard |
|---|---|---|---|---|
| Record store `apps/nv_section/userdata_section/nvrecord_extension.c` | RAM mirror, `is_update`, flush state, burn buffer, two flash sectors | write, touch, background flush step, synchronous flush, start-up, sector clear | flash service (closed), sleep hook, every module with a record | power cuts, writers during a flush, two flush paths, a full driver buffer |
| Frequency manager `platform/hal/hal_sysfreq.c` | request per user, `top_user`, floor | request, set or raise the floor | clock unit, power unit, PLL, sleep | the maximum is kept incrementally, writes are skipped, order of writes |
| Application requests `apps/common/app_utils.c` | wish of each quality-of-service user | request | frequency manager | sums over a table with a hole, release in any order |
| Sleep manager `platform/hal/hal_sleep.c`, idle thread `rtos/rtx5/rtx_config/RTX_Config.c` | three lock maps, handler table, power-down flag | lock, register, light sleep, deep sleep | frequency manager, drivers, interrupts | decision made twice with interrupts open in between, partial stop, order of units |
| Synchronised triggers `apps/bt_sync/app_bt_sync.cpp` | trigger channels, supervision table, shared timer | enable, trigger interrupt, timeout, end of supervision | application thread, timer thread, Bluetooth link | four actors, one mutex not everybody takes, relative times |
| Link to the Bluetooth controller `platform/hal/hal_intersys.c` | send records, shown and waiting lists, what a receiver left over, busy flags | open, close, start and stop receiving, send, two interrupts, power-down | controller core, sleep manager, the host stack (closed) | two processors and no common lock, close with interrupts open, masks lost in a power-down |
| Application thread `apps/common/app_thread.c` | mailbox sorted by level | put, dispatch | all modules | bounded, posted to from interrupts, overtaking |
| Key driver `platform/hal/hal_key.c` | pins under debouncing and down, gesture, timer | key interrupts, timer, open, close | key events | interrupts that turn themselves off, a timer that starts itself |
| Key events `apps/key/app_key.cpp` | count of events on their way, handlers | event in the interrupt, dispatch in the thread, registration | key driver, application thread | a counter without a lock |
| Battery and charger `apps/battery/app_battery.cpp` | samples, level, charging state, debounce state | periodic measurement, charger interrupt, debouncing | application thread, power-off | counters that wrap, hand-over between interrupt, thread and timer |
| Timers `platform/hal/hal_timer.c`, `apps/common/app_spec_ostimer.cpp` | list of timers over one counter | start, stop, expiry | drivers, sleep | wrap-around |
| Calls between cores `apps/app_rpc`, `platform/hal/hal_rmt_ipc.c`, `hal_ipc_msg.c`, `hal_mcu2cp.c` | rings in shared memory, queue | send, doorbell, receive thread | other core | two processors, no common lock |
| Log and dump sections `apps/nv_section/log_section` | ring in flash | append, flush, dump after a crash | flash service | cuts in the middle of a ring |
| Prompts `apps/common_ui/app_media_player.cpp` | prompt list | push, pop, merge over two buds | audio, Bluetooth | both buds queue at once |
| TOTA `apps/tota_v2` | connection, buffers | connect, command, stream | Bluetooth | disconnect during a transfer |
| IBRT services `services/ux/common/ibrt/app_ibrt/src` | OTA state of two buds | commands between buds | closed libraries | loss, role switch |
| Audio players, sound path, noise cancelling, detectors | pipelines, coefficients | signal processing | closed audio engine | numerical, not a state machine |
| Drivers, factory test, serial service | registers | I/O | hardware | pure I/O |
| RTX5, closed libraries | - | - | - | vendored, or headers only |

`PROJECT.json` lists every part with its status, and under `hazards` the line at
which each difficulty bites and the properties aimed at it.

What makes each part correct, in one line: the record store never loses both
copies and never forgets a write; the clock is never slower than anybody's
request, and never ahead of its power and PLL; the core is asleep only while
nobody needs it, and finds everything as it was; a supervised operation ends, in
time, whether its trigger comes or not, and both buds act on it or there is a
known reason; a message to or from the controller is delivered once and in
order; a press that lasts is seen, and with all keys up the driver comes to
rest; an empty battery turns the bud off, and a charger that stays is noticed.

## Modules

| Module | Role |
|---|---|
| `NvRecord` | record store, driver buffer, power cuts |
| `NvStore` | abstract store of a live, a durable and a spare record; `NvRecord` implements it |
| `NvRecordProofs` | proofs about `NvRecord`, the refinement included |
| `SysFreq` | frequency manager with its hardware writes |
| `AppSysFreq` | `SysFreq` plus the requests of the applications |
| `Sleep` | `SysFreq` plus sleep manager and idle thread |
| `SleepProofs` | proofs about `SysFreq`, and about `AppSysFreq` and `Sleep` on top of them |
| `BtSync` | trigger channels, supervision and the application thread's mailbox, on the initiator |
| `BtSyncProofs` | proofs about the supervision table and its timer |
| `BtSyncPair` | the same triggers on two buds, and the link between them |
| `BtSyncPairProofs` | proofs about the two buds |
| `Intersys` | link to the controller's core, with the peer and power-downs |
| `IntersysProofs` | proofs about `Intersys` |
| `Key` | key driver: debouncing and gestures |
| `AppKey` | key events, mailbox and application thread |
| `KeyProofs` | proofs about `Key` and `AppKey` |
| `Charger` | plugging in and out, debounced |
| `Battery` | measurement, level, end of charge, power-off |
| `BatteryProofs` | proofs about `Charger` and `Battery` |
| `ArithmeticTheorems` | least elements, remainders and sums, for the proofs |
| `MC...` | constants of the runs |

Operators that a comment calls a *mutant* are deliberate mistakes: replacing the
definition after them by the mutant makes TLC report the property that is meant
to catch it. They are not part of any specification.

### NvRecord

`ram` is the mirror (`nvrecord_extension_p`), `is_update`, `state` and `burn`
are `nv_flush_state` and `_nv_burn_buf`, `flash` the two sectors. A record is a
model value; a sector can also be `Erased` or `Torn`, the two contents for which
`nv_record_data_is_valid` fails (magic, version, length, CRC). `queue` is the
buffer of the flash service, which is closed: `norflash_api_erase` and
`norflash_api_write` append to it, `NorflashProgress` carries out its head,
`norflash_api_read` answers from queue and sector. A synchronous call of the
service waits for the queue to drain.

Writers come in the two styles found in the repository: write and touch under one
lock (`WriteLocked`), or touch after the unlock (`WriteThenTouch`, then
`nv_record_extension_update`; `touches` counts the delayed ones, bounded by
`MaxTouch`). The background flush is one step per call of the sleep hook
(`AsyncStep`, `AsyncBufferFull`, `AsyncNothing`), gated by the 20-minute
checkpoint (`TimerExpires`). The synchronous flush of a thread (`SyncMain`,
`SyncBak`, `SyncBakDrained`, `SyncReturn`) can take over at any state; `sync` is
its program counter. `nv_record_sector_clear` and its two erases are the
rebuild in the engineering-mode boot. `PowerCut` may happen in every state and
leaves a sector that was being written in any of the contents it can have.

A window the model shows to be harmless but worth knowing: a cut after main was
written and before the backup is erased leaves two valid records that differ,
and start-up does not equalise them; the next flush's erase of main followed by
a second cut then rolls back to the older one. `NvStore` allows it
(`Fallback`); the code offers no more.

### SysFreq

`sysfreq_per_user`, `top_user`, `min_sysfreq` are the code's; a frequency is its
position in `HAL_CMU_FREQ_T`. The functions run with the interrupts locked, so
they are atomic with respect to each other; the writes a request makes to the
power unit, the PLL and the clock are steps of their own (`phase`), because the
hardware exists between them. `real_cur_freq` is the request's local. The five
disjuncts of `Serve` are the branches of `hal_sysfreq_req`. Floors are at most
52M, which is all that `hal_sleep.c`, `hal_cmu_common.c` and `hal_norflash.c`
ever ask for; with a higher floor the clock would need a PLL that nobody
switches on. Boot is as in `hal_cmu_setup`: clock at 26M, PLL off.

Requests for 6.5M and 13M, which only the sensor core makes, are in: they go
down by the branch that is ordered for going up, as the comments at
`hal_sysfreq.c:127` and `:162` say. That is why "the clock never exceeds what
the power unit is set for" is stated in `Sleep`, for the main core.

### AppSysFreq

`qos_freqs_map` holds the wishes; `freq_map`, with its missing entry for 144M,
and the scan over it are as in `app_qosfreq_req`. `DriverNext` lets the other users
of the frequency manager make their requests and the floor move in between. The frequencies are those of
the chip (`ChipAssumption`). Of the two caveats in the source, a user number of
32 or more for `1 << user` is outside the enum and not modelled.

### Sleep

`pc` follows the idle thread: `hal_sleep_light_sleep` (first decision),
`suspended` (kernel tick stopped, interrupts open), `hal_sleep_enter_sleep`
(second decision), `stop`, `asleep`, `wake`. Stopping and waking are one unit a
step (`StopList`, `WakeList`); `irq` can become pending at each. Threads and
handlers act only while the interrupts are open (`Open`). Transfers (`dma`) start
while awake and end at any time. Sleep hooks and the trace driver may refuse a
sleep at will (`EnterRefused`). `SLEEP_SYS_FREQ_52M` and `IDLE_SYS_FREQ_52M` are
build options, off by default. The run switches the first on and leaves the second
off: every deep sleep then moves the floor from 32K to 52M and has to put it back
(with both on the floor is 52M anyway and no sleep would move it). The proofs are for
all four builds. `BootRequest`, `BootWrite` and `BootMin` are the end of
`hal_cmu_setup`.

### BtSync

Actors: the caller in `app_bt_sync_enable`, the trigger interrupt, the timer
thread, the application thread. The mutex is held from the change of the table
to the start of the timer (`MutexHeld`); the timeout handler does not take it and
reads the first entry as it is, in use or not. Time is counted in units of which
`TIMEOUT` make the supervision time; an entry's `age` is the real time since it
was added and is not part of the code: it is what the code's relative times are
compared with. `Tick` waits for the mutex and for a pending expiry, since a unit
is long against both and the timer thread has a higher priority (40) than the
application thread (32). A failed `ASSERT` stops everything until `Reboot`. What
the other bud does is in `BtSyncPair`.

### BtSyncPair

Two buds and the link. The master's two callers of `app_bt_sync_enable` (a user's
operation, and the relay of a request of the slave) go through its steps one at a
time: send the command, find a channel, look whether it is free, take it, arm the
trigger, add the supervision. `CommandArrives` is the slave's receive handler,
`Triggered` the interrupt, `SendDone` the acknowledgement, `TimedOut` and
`app_bt_sync_handle` the end of a supervision; timer and mutex are left to
`BtSync`. `LinkDown` loses what is on its way, and a trigger may then be lost.
`cmds` is history: the commands, who acted on them, whether there is one of the
reasons the code accepts for a bud that does not, and whether the command overlaps
another one: another operation of its code is under way when it starts, or the
channel it takes still has a trigger to come. The second case needs five commands
on three channels to do harm and was found by the proof of `NoLeak`, which fails
without it: a volume trigger frees a channel that a second volume operation has
taken and not armed yet; it is armed while it counts as free, is given to a third
operation, and the old trigger then ends that one's supervision.

### Intersys

The owner thread opens, closes, starts and stops a channel, a sending thread (one
for each channel) looks whether the channel is open (`SendCheck`) and puts its
message later (`SendPut`), the two interrupts (`hal_intersys_tx_irq_handler`,
`hal_intersys_rx_irq_handler`) run to their end, `RxDone` is the clearing of the
indication by a user with flow control. The peer core (`Peer...`) takes a step
between any two of these. Flags and masks of the hardware are sets of channels. A
record holds the number of a message; what the peer sends is counted in bytes,
because a handler may take a part. The peer takes the list as it finds it when it
begins to read (`reads`), and the records as they are when it ends.

`hal_intersys_open` takes no lock, so it is five steps: masks (`OpenBegin`),
clearing of indication and done (`OpenClear`), lists (`OpenLists`), records
(`OpenRecords`), flag and handler (`OpenEnd`). A sender that found the channel open
before it was closed can put its message between any two of them; the lists are
linked through the records, and `Linked` says what becomes of them when a record
that a list still holds is taken again. `hal_intersys_close` is two steps;
`CloseEnd` says why the second may be one.

`PowerDown` is the decision of `hal_sleep_proc` as far as the link takes part in it:
the wake lock of `hal_intersys_busy`, and no interrupt pending. The masks are lost,
and `hal_intersys_pm_notif_handler` sets them for all open channels. Nothing in the
code keeps the core up while a user owes a clearing, and nothing does so in the
model; `MAX_NAPS` bounds how often it happens. A user clears once for a list, also
for one that it was handed twice.

History: what was sent and read, due and got; `tainted`, sessions whose opening
cleared the indication while the peer was still reading the list of the one before;
`late`, sessions in whose opening a sender of the previous one put its message
between that clearing and the freeing of the records; `rewoken`, sessions in which a
wake-up unmasked the channel while its user owed the clearing; `leaked`, channels
closed while busy. The first three are the excuses of `SendFifo`, `InUseExact`
and `RecvFifo`, and the Observations show that each of them is needed.

### Key

`irq` and `pending` are the key interrupts; `pwr_key`, `gpio_key`, `key_status`
the code's structures. `hal_key_debounce_handler` is one step made of `PwrScan`,
`GpioScan` and `Gesture` (`Ups`, `Clicks`, `Downs`, `Holds`, in the order of the
code); `hal_key_boot_handler` replaces it while the power key is looked at during
boot. `hal_key_close` is seven steps. Stored times are kept as ages up to
`MAX_AGE`.

### AppKey

The interrupt's `key_event_process` and the two halves of the thread's decrement
(`LoadCount`, `StoreCount`) work on the same byte; `lost` is history, the updates
that the store overwrote. `PutWithPrio` is the sorted insertion into the mailbox.
The main thread registers the events of the boot, replaces them by those of the
user interface and may close the keys (`app_key_close`).

### Charger

The hand-over of a change of the charger: `app_battery_charger_handler` in the
interrupt, `app_battery_pluginout_debounce_start` in the application thread, the
debounce handler in the timer thread (`DebounceExpires`, `DebounceArm`,
`DebounceStop`), and the main thread's `app_battery_open`; `HandleMessage` is the part
of `app_battery_handle_process` that is about the charger. What the power unit does
with a change while it has no handler is not in the repository: `latches` is
chosen at the start, and `ChargerFollowed` is claimed for a unit that remembers it.

### Battery

`app_battery_irqhandler` takes a sample, `app_battery_handle_process` is the
application thread's part for both states. A conversion gives any of `Volts`. The
level is computed as the code does, in unsigned arithmetic; `voltage` and `index`
are the ring and its index, which is never reset; `charging` holds the counters
that are `static` in the code and outlive a charge.

## Runs

| Run | Module, cfg | Checks | Bounds |
|---|---|---|---|
| `nvrecord` | `MCNvRecord` | `OneGoodCopy`, `NoLostUpdate`, `FlushEndsEqual`, `SyncFlushDurable`, `StoreRefined`, `UpdateFlushed` | three records, one delayed touch |
| `sysfreq` | `MCAppSysFreq` | `ClockServesAll`, `PllMatches`, `QosLeast` | two QoS users (symmetric), three users of the manager, the chip's nine frequencies |
| `sleep` | `MCSleep` | `AsleepSafe`, `PmuCovers`, `FloorRestored`, `NothingLeftDown`, `MirrorOrder`, `IrqWakes` | one locker of each kind, two frequency users, four handlers for a table of three |
| `btsync` | `BtSync`, `MCBtSync.cfg` | `TimerExact`, `FirstIsClosest`, `OverdueEnds` | two channels, two units of timeout, a mailbox of two |
| `btsync_missed` | `BtSync`, `MCBtSyncMissed.cfg` | `TimerNotMissed`, violated | as above |
| `pair` | `BtSyncPair` | `BothActOrExcused`, `NoLeak`, `ActsOnTime`, `MasterFree` | two channels, two commands, one request, two ticks |
| `intersys_safety` | `Intersys`, `MCIntersys.cfg` | `SendFifo`, `InUseExact`, `BusyExact`, `AsleepSafe` | one channel opened twice, the driver's three records, four messages out, none in |
| `intersys_receive` | `Intersys`, `MCIntersysLive.cfg` | `RecvFifo`, `Acknowledged`, `Received` | one channel opened once, two records, two messages out, three of two bytes in, one power-down while a clearing is owed |
| `key` | `Key` | `LongPressHeld`, `ClosedQuiet`, `PressSeen`, `ComesToRest` | power key and one pin, thresholds of two to four ticks |
| `appkey` | `AppKey` | `CountDrift`, `Delivered` | three events, limit two, mailbox of five, one lost update |
| `charger` | `Charger` | `NeverDeaf`, `ChargerFollowed` | three readings to debounce, six at start, three messages |
| `battery` | `Battery` | `MeanOfLast`, `FullGenuine`, `EmptyTurnsOff` | three voltages, two samples to a mean, index modulo five, counters modulo two |

The cfg is named `MC` and the module's name where the table does not say. Where a
run checks a type invariant, it is the first conjunct of one of the invariants:
`QosLeast`, `AsleepSafe` (with the order of the handler table), `FirstIsClosest`,
`NoLeak`, `LongPressHeld` (with the assertion "Bad gpio_key pin map"),
`CountDrift`, `NeverDeaf`, `MeanOfLast`. Of `NvRecord`, `SysFreq` and `Intersys` it
is only proved. All the others are proved too.

What the runs show, beyond that the properties hold on these instances, is in
`PROJECT.json`, one sentence a run.

Why the bounds are enough. Three records distinguish old, carried and newly
written; the flush handles one record at a time, so a fourth adds no case. Three
users are the served one, the one that takes over and a bystander; the proofs
remove the bound. A table of three with four handlers of three levels reaches
full, equal levels and every insertion point. Two channels and two units reach
an entry that is due next to one that is not, removal of the first and of the
second, both channels taken, and a full mailbox; with one more of either the
state space grows past what is run here without a new branch of the code being
reached. The three wake-lock maps are used as "empty or not" only, so one locker
stands for all.

- `BtSyncPair`: `MAX_CMDS` and `MAX_REQUESTS` bound what the master and the slave
  start; two commands of the same or of different codes meet on two channels.
  `CONCURRENT` is FALSE in the run: on the master the two callers are then one
  thread; with TRUE two assertions fail (see Observations).
- `Intersys`: `TX_MSGS` is one more than the records, so that a sender finds none
  free; `MAX_OPENS` is two, for the messages of a closed session that reach the
  next one; `LEN` is two, so that a handler can take half a message. `MAX_NAPS` is
  one in the run that receives: a second power-down while a clearing is owed finds
  the session excused already.
- `Key`: `INTERVAL` is one tick and the thresholds keep the order they have in the
  code; `MAX_AGE` is the largest of them, and an age is only compared with
  thresholds. `MAX_CLICK` of two gives single clicks and the limit.
- `AppKey`: `MAX_LOST` bounds the updates that are overwritten; one is enough to
  wrap the byte.
- `Charger`, `Battery`: `MAX_CHARGER_MAIL` and `MAX_MAIL` bound the module's messages;
  posts wait when they are reached. `INDEX_WRAP` and `CNT_WRAP` stand for 2^16 and
  2^8. Where the index starts again the start-up branch is taken again. As 2^16 is no
  multiple of the code's five samples a place is then also written twice in a row;
  nor is `INDEX_WRAP`, five, of the two samples of the run, and the property's mutant
  fails only there. One overvoltage and one slope make the battery full in the run;
  several in a row and the vote of several slopes are left to the proof, where their
  numbers are parameters (with two of each `MeanOfLast` and `FullGenuine` pass as well,
  on an instance too large for `EmptyTurnsOff`).

## Fairness

- Record store: the sleep hook is called again and again by the idle thread, so a
  background step that is possible again and again is taken (strong fairness of
  `AsyncStep`: the hook also runs at moments when it has nothing to do or meets
  a full buffer); the checkpoint timer expires; the flash service works through
  its buffer; a thread in the synchronous flush runs to its end. Neither power
  cuts nor writers are fair. Leads-to properties are also satisfied by the power
  going, which sets the state back.
- Sleep: boot runs to its end, WFI ends on an interrupt, and the code between
  locking and unlocking the interrupts runs to its end. Nothing makes the idle
  thread start a sleep or an interrupt come.
- Synchronised triggers: time passes, the caller, the timer thread and the
  application thread run on, a failed assertion reboots. No trigger has to come
  and nobody has to start a synchronisation: the link may be gone. With two buds
  the same (`GoesOn`); the link need not come up again.
- Link to the controller: interrupts, and a user that is told to start receiving
  or to clear an indication, get their turn (strong: a power-down may come in
  between, any number of times); threads run on and the peer answers. Nobody has
  to send, close or power down.
- Keys: interrupts are taken, the timer expires, time passes. Nobody has to touch
  a key. In `AppKey` the application thread runs when it has a message.
- Battery and charger: interrupts, timers, conversions and the application
  thread. The charger may change for ever; the properties are about one that stays.

## Proofs

Proved for every value of the constants that satisfies the named assumptions
(`TLAPS`, all obligations checked):

*Record store* (`NvRecordProofs`): `OneGoodCopy`, `NoLostUpdate`,
`OneSectorAtATime`, `FlushEndsEqual`, `SyncFlushDurable` and `StoreRefined`,
for any set of records and any number of delayed touches. None of the invariants is
inductive: that a copy survives the erase of main depends on what the driver's
buffer still holds at each flush state. `IInv` says just that:
`BufferInv` gives the buffer and the sector at each state (`ErasePhase`,
`ProgramPhase`, and `AgainPhase` for the program operation a synchronous flush
that takes over requests twice), `ThreadInv` where the synchronous thread can be, `BurnInv`
what the burn buffer holds, `CopyInv` which sector is whole while the other is
being written, `UpdateInv` that a flush with an erased main still has
`is_update` set. The refinement maps `durable` to what a start-up would load
now, `spare` to what it would load without main, and `snap` to the burn buffer
while it is on its way; each action is shown to be one step of `NvStore` or a
stutter.

*Frequency manager* (first part of `SleepProofs`): `TopIsMax`, `ClockServesAll`,
`PllMatches`, for any number of users and frequencies, from `QtyAssumption` and
`FreqAssumption` (0 < 26M < 52M < number of frequencies). The scan is a
`CHOOSE`; `TopOfIsMax` shows that what it looks for exists, from `LeastNat`, the
least-element principle taken from the well-foundedness of the naturals.
`WriteInv` is the strengthening: what the clock, the PLL and `real_cur_freq` are
at each write of a request, and that a request crosses 52M only in the direction
its writes are ordered for (`ReviseKeepsSide`: no floor moves a frequency across
52M).

*Sleep* (second part of `SleepProofs`): `AsleepSafe`, `PmuCovers`, `FloorRestored`,
`NothingLeftDown` and `MirrorOrder`, for any users, frequencies, lockers and
handlers, any size of the handler table and both values of the two build options.
The first result is `SleepImplementsFrequency`: every step of boot, threads and
idle thread is a step of `SysFreq` or leaves its variables alone, so the frequency
manager's `IInv` holds here as well. On top of it `SleepIInv` says who can have
asked for what (`RequestInv`), where the floor is at each point of the idle thread
(`FloorInv`), that in a sleep the power unit is set for the clock the wake-up
returns to and not for the one it finds (`PmuInv`, without which `PmuCovers` is not
inductive: the sleep moves the floor past the power unit), that the stopped units
are a beginning of `StopList` (`UnitInv`; `Lists` shows that `WakeList` is
`StopList` backwards), and that what the entry has found under the interrupt lock
still holds when the core stops (`EntryInv`). Assumptions: those of the frequency
manager, `OptionAssumption`, `PmAssumption`, and `HandlerAssumption`: a registered
handler is not one of the units `hal_sleep.c` stops by name.

*Synchronised triggers, initiator* (`BtSyncProofs`): `TimerExact` and
`FirstIsClosest`, for any number of channels, any timeout, any latency and any set
of operations (`BtSyncAssumption`). Neither is inductive. The table keeps what was
left of each entry's time when `lastSysTicks` was last moved on; `TableInv` ties
that to the real age of the entry for as long as it is not due, and keeps the
entries in the order of age. `MutexInv` is what the mutex is for: two threads are
never between a change and the start of the timer, and whoever is there finds the
entry it went by. That the timer thread looks at the first entry without the mutex
needs no exception in the invariant.

*Synchronised triggers, two buds* (`BtSyncPairProofs`): `BothActOrExcused`,
`NoLeak` and `ActsOnTime`, for any number of channels, commands, requests and
ticks, and for `CONCURRENT` TRUE as well as FALSE (`PairAssumption`). `RefInv` says
that every number on its way is a command's, that a caller is through within the
tick in which it sent its command and that a trigger is armed for its command's
tick. `ActInv` says where a command is that a bud has neither acted on nor is
excused for: with a caller that has yet to arm it, armed, or on the link.
`MatchInv` ties, for each operation code that does not overlap, the three tables
the code finds by different keys: the operation is set up or supervised once
(`OneMember`), behind a channel in use or armed there is that one (`ChanInv`), a
caller about to arm a channel does it for the one that holds it (`ArmInv`), and a
message to the application thread stands for a supervision that is due and a
channel that is free (`MailInv`).

*Link to the controller* (`IntersysProofs`): `TypeOK`, `BusyExact`, `AsleepSafe`,
`InUseExact`, `SendFifo`, `RecvFifo` and `RepeatsOnlyWoken`, for any set of channels,
any number of records, messages, sessions and power-downs and messages of any length
(`IntersysAssumption`). That nothing is under way when the core powers down is not
inductive: the busy flag is kept by this core, the indication, the done and the
reading are the peer's. `ChannelInv` ties them: outside a spoilt session (`tainted`,
`late`) each of the three stands for a message whose channel is busy, and in a live
channel (open, or being opened or closed) a reading needs its indication, and
indication and done exclude each other. While the owner is between two steps of an
opening it also says what that step has cleared and, unless a late send spoils the
session, is still clear: that is what makes the unlocked steps harmless. `LinkInv` is
that for every channel, with the wake lock as the union of the busy flags.
`SendingInv` adds the lists: the records in use are those of the two lists, each
once, and what was read, what is shown and what waits make up what was sent
(`RecordInv`, `ReadInv`); what the peer reads is the list that is shown, so that a
record is never overwritten under its hands. `ReceivingInv` is the same for the other
direction: `PeerInv` about the peer's lists, `OwesInv` (what is owed for is still
shown), `TakeInv` about what was handed over, for a session that no wake-up spoilt,
`LeftInv` (nothing is left over when a session begins). `RepeatsOnlyWoken` follows from
them: a list is handed over again only where a wake-up unmasked it; no run checks
it.

*Key driver* (`KeyProofs`): `LongPressHeld`, with the driver's assertion "Bad gpio_key
pin map", and `ClosedQuiet`, for any pins and any values of the times and counts
(`KeyAssumption`). `IrqInv`: a pin that is being looked at has its interrupt off,
which is what keeps it out of two maps. `DownInv`: while a gesture says DOWN it is of
exactly the keys that are down, the timer runs, and the scans have seen each key for
the age of the gesture up to the time since the last scan; the four stages of a scan
have a lemma each (`UpsEffect` to `HoldsEffect`), `GestureEffect` puts them together.
`CloseInv` says what is off after each step of the close. It rests on a fact about
time: no tick passes during a close and a scan sets the timer to `INTERVAL`, so one
scan comes between its steps at most, and that one finds nothing old enough to turn
an interrupt on (`PwrQuiet`, `GpioQuiet`). `BootInv` is what makes the end of the
check at boot, which turns everything on, the only exception.

*Key events* (second part of `KeyProofs`): `CountDrift`, for any events, any length
of the mailbox and any number of overwritten updates (`AppKeyAssumption`). The count
is a byte, the events on their way are the places of a sorted mailbox and the message
in hand: `InsertCounts` and `TailCounts` (bijections between finite sets) say how
their number changes, `HandInv`, `StoreInv` and `StageInv` what the thread has in
hand, what it has loaded and how far the main thread is.

*Charger* (first part of `BatteryProofs`): `NeverDeaf`, for any number of readings, at
least two of which debounce a change, and any number of messages
(`ChargerAssumption`). Being able to notice a change is a token that goes from the
interrupt handler to the message, the timer, the step that arms the handler again,
and back: `TokenInv` says where it is, `PostedOnce` that there is no second message,
`CountInv` that a running timer is below its limit.

*Battery* (second part of `BatteryProofs`): `MeanOfLast` and `FullGenuine`, for any
voltages of 16 bits, any number of samples in a mean and any width of the index and
of the counts (`BatteryAssumption`; the index holds more than the samples of a mean).
`MeanOfLast` is not inductive: `RingInv` says, slot by slot, which sample is in the
ring. A slot has an age, counted from the index modulo the size of the ring; a slot
whose age is at most the index holds the sample of that age. When the index wraps,
every age but that of the slots written since is larger than the index, and nothing
is said of these: that is all that holds when the wrap is no multiple of the size.
From `STABLE_COUNT` on the ages number all slots once each (`AgeRange`,
`AgeOneToOne`), and `SumRenumbered` makes the sum over the ring the sum over the last
samples. `FullGenuine` is an action property and follows from the types and from what
each step does with the indication (`Charged` sets it at the timeout, or at the
voltage that is current in the same step).

*Application frequency requests* (middle part of `SleepProofs`): `QosLeast`, for any
finite number of QoS users and however their requests are mixed with those of the
others, and `AppImplementsFrequency`: every step of the applications is a step of
`SysFreq`, so that what is proved of the frequency manager holds under them.
`AppIInv` adds to its `IInv` that the pseudo user's entry is what the scan gives for
the sum of the wishes (`Asked`). The scan goes over a table with holes (144M and the
slow ones have no entry, so they count as 0); `SumIsReal` and `ScanIsLeast` show that
the holes do no harm for the frequencies an application can name: the sum is the real
one, and what is found is the least such frequency that covers it. This part alone
uses the chip's table (`ChipAssumption`, `UserAssumption`).

*Sums* (`ArithmeticTheorems`). `SumFunction` and `FoldSeq` are recursive functions on
the subsets of a finite set. The library's induction theorems take an operator as a
parameter, which the provers cannot instantiate, so induction is made first-order
here: a property is a set, and a set of sizes at which it fails would have a least
element (`LeastNat`, from the well-foundedness of the naturals). That gives
`SetInduction` and `SubsetInduction`, then that the fold exists and has one value
(`SumsExist`, `SumsAgree`), then what the proofs use: `SumTakeOut` (any element may
be taken out, not only the one the `CHOOSE` takes), `SumCongruence`, `SumBound`,
`SumRenumbered` (a bijection keeps the sum).

All invariants and action properties that the runs check are proved. Only
model-checked is liveness, which is outside the prover's reach: `UpdateFlushed`,
`IrqWakes`, `OverdueEnds`, `MasterFree`, `Acknowledged`, `Received`, `PressSeen`,
`ComesToRest`, `Delivered`, `ChargerFollowed`, `EmptyTurnsOff`. The proofs say nothing
of the fairness these need, nor of the bounds of the runs that check them.

## Finding

`app_bt_sync.cpp:98` asserts "Supervisor timer missed": whoever refreshes the
supervision table finds no entry that is due. Run `btsync_missed` shows that it
can fail. The timer thread only posts a message when an entry is due; the entry
stays in the table until the application thread has handled it. A second
`app_bt_sync_enable` that reaches its refresh in between, or the removal of the
first of two entries that fall due within the application thread's latency,
fails the assertion.

## Observations

Formulas at the end of their modules that state what one expects of the code, and
that TLC refutes with the constants of the cfg named and the changes given. They
are in no run.

| Formula | Module, cfg | What happens |
|---|---|---|
| `NotStuck` | `AppKey`, `MCAppKey` | `app_key.cpp:105`: an event counted between the thread's load and its store is overwritten; the next decrement takes the byte from 0 to 255, and with the limit exceeded every later key event is dropped |
| `NoStaleClick` | `Key`, `MCKey` | `hal_key.c:1079`: a click followed by a long press stays counted and joins a click made much later |
| `LevelFollows` | `Battery`, `MCBattery` | `app_battery.cpp:259`: below the power-off voltage the unsigned difference wraps, and an empty battery can be given the top level |
| `ReportIsLevel` | `Battery`, `MCBattery` | `app_battery.cpp:444`: the message's voltage is reported where a level is meant |
| `NeverFull` | `BtSyncPair`, `MCBtSyncPair` with `CONCURRENT` TRUE, `MAX_CMDS` 3 | `app_bt_sync.cpp:166`: the room that was found at `:567` is gone when the entry is added |
| `NeverReused` | `BtSyncPair`, the same with `MAX_CMDS` 2 | `app_bt_sync.cpp:511`: two callers find the same channel free |
| `FreeUnarmed` | `BtSyncPair`, `MCBtSyncPair` with `MAX_CMDS` 3, `MAX_REQUESTS` 0 | `app_bt_sync.cpp:501`: a channel counts as free and is given away while its trigger is still to come, after a volume trigger freed it under a second volume operation |
| `SentStatusGenuine` | `BtSyncPair`, `MCBtSyncPair` | `app_bt_sync.cpp:232`: the status is read from the place the entry was taken out of, and is that of the one that moved there |
| `HandlerAlways` | `Intersys`, `MCIntersys` with `Ids` {0, 1}, `MAX_SEND_RECORD_COUNT` 1, `TX_MSGS` 0, `RX_MSGS` 1, `MAX_OPENS` 1 | `hal_intersys.c:642`: closing takes the handler away before it masks the indication, and the interrupt of the other channel serves both |
| `NotWhileStopped` | `Intersys`, the same | `hal_intersys.c:607`: the interrupt of one channel hands over the messages of another one that is stopped |
| `NewMessage`, `RecvFifoWoken` | `Intersys`, `MCIntersysLive` | `hal_intersys.c:703`: waking up unmasks a channel whose list was handed over and not yet cleared, and the list is handed over again |
| `SendFifoLate` | `Intersys`, `MCIntersys` | `hal_intersys.c:761`: a sender that passed the check at `:895` before the channel was closed puts its message after the indication was cleared; the list is then emptied with the indication up, and what is sent next is acknowledged without having been read |
| `InUseLate` | `Intersys`, `MCIntersys` | `hal_intersys.c:765`: the same after the lists were emptied: the record is listed and then marked as free, and the next message is put into it |
| `SendFifoReopened` | `Intersys`, `MCIntersys` | `hal_intersys.c:759`: the channel is closed and opened again while the peer reads; its done then acknowledges the first message of the new session, which it has not read |

Two limits of properties that hold: `PressSeen` needs all GPIO keys to keep still,
since they share the time of debouncing and one that bounces keeps the others
from being seen; `ClosedQuiet` excludes a close during the check at boot, where a
scan between two steps turns the interrupts on.

## Not modelled

Within the modelled parts: the wrap-around of the 20-minute timer and the
branch of `nv_record_rebuild` that keeps sections (record store); statistics;
floors above 52M and the non-default builds without `ULTRA_LOW_POWER`
(frequency manager); the contents of sleep hooks and power-management handlers
(sleep); a change of roles, the conversion of Bluetooth clocks and
`app_bt_sync_release_trigger_channel` (triggers); a second message type on a
channel, which the code refuses, and the microphone and sensor-hub variants of the
link; ADC, touch and function keys and the trace of a key held too long (keys);
the temperature sensor, the external charger pin and the reset on plugging, none
of which is in this build (battery).

Left out altogether, with the reason in `PROJECT.json`: what is closed (Bluetooth
stack, flash service, audio engine: only headers), what is numerical (audio
processing, noise cancelling, detectors), what is pure register access (the other
drivers, factory test) or data (patterns, tones and patches, which are most of the
repository's lines), and the vendored kernel and libraries.

## Plan

Done, in this order: record store with its abstract specification and proofs;
frequency manager with proofs; application requests; sleep composed with the
frequency manager; synchronised triggers, on the initiator and over two buds; link
to the controller with proofs; key driver, key events and application thread;
charger; battery.

Then the proofs of `Sleep` on top of the frequency manager's, of the supervision
table, of the two buds, of the key driver, the key events and the charger, of the
order of messages on the link, and of the sums: the applications' requests and the
battery.

Next: the trace driver's ring, `hal_timer` with its wrap-around, and the log section's
ring in flash. The calls between cores (`apps/app_rpc`) are not in this build.
