# Verification of the crane-hook controller

The repository is the firmware of a safety controller on a crane's hook: an STM32H743 under FreeRTOS that drives a
sound-light alarm unit and reads a battery management system over Modbus, receives GPS, takes its orders from a host
over a 4G serial link (and over a Modbus slave port), powers itself down at night, cuts the alarm unit's supply when the
host goes silent, and updates its own firmware. This directory models the parts of it in which the order of events matters,
checks them with TLC on small instances, and proves the main safety results for every value of the constants with TLAPS.

Paths below are relative to `src/`.

## 1. Inventory

### Threads

| thread | priority | period | code |
|---|---|---|---|
| `relay_heartbeat` | AboveNormal | 1 s | `application/app_relay.c` |
| `led_sound_master`, `app_4g` | Normal1 | 10 ms / on data | `application/app_bms_alarm.c`, `application/app_4g.c` |
| `bms_master`, Modbus tasks, heartbeat keep-alive | Normal | 10 s / on data / 1 h | `application/app_bms_alarm.c`, `component/am_modbus/Modbus.c` |
| `sys_supervisor`, `work_mode` | BelowNormal1 | ms | `application/app_sys_supervisor.c` |
| `gps_standby` | BelowNormal | 1 s | `application/gps_app.c` |
| OTA confirm task | Low | once, after 30 min | `Core/Src/freertos.c`, `application/ota_flash_service.c` |
| UART interrupts (run the AT commands and the Modbus receive path) | interrupt | on data | `component/uart_manage/`, `application/uart_manage_port.c`, `application/ota_manage_port.c` |

The scheduler is preemptive. A thread is interrupted at any statement by a thread of a higher priority and runs to its
next blocking call against threads of a lower one.

### Components

| component | state | operations | talks to | hard behaviour | what makes it correct |
|---|---|---|---|---|---|
| register bank and error word | registers, `REG_ERROR_CODE` | `MB_Reg_Get/Set`, read-modify-write under `taskENTER_CRITICAL` | every thread, host | three authors of one word; a value read before a wait is used after it | a bit changes only at its author's hand |
| heartbeat relay | `last_heartbeat_val`, `recv_heartbeat_time`, `relay_is_on`, two pins | `process_relay_logic` | bank, supply pins, `last_volume`, `is_soft_standby` | timeout against a late heartbeat, standby in the middle | a dead host cuts the supply; the flag agrees with the supply |
| soft-standby schedule, RTC, hard standby | `is_soft_standby`, `s_gps_synced`; in the backup domain the RTC, its mark `0x5AA5` and alarm B | `rtc_power_schedule_check`, entry, exit, `gps_sync_rtc_once`, `rtc_power_init`, `MX_RTC_Init`, `set_alarm_b`, `enter_standby` | bank, supply pins, all other threads | a long entry at the lowest priority; resets and power cuts between two steps; an alarm that rings before sleep begins | no error shown in standby; standby ends; no heartbeat breaks it; the clock judged by was set; sleep lasts for the night |
| sound-light master | `last_volume`, `led_timeout_count`, buzzer state | `power_on_self_test`, `modbus_alarm_handle`, `buzzer_logic`, `led_logic` | Modbus master, bank | answers lost or late; supply cut during a query | status follows the command; three failures before the offline error |
| battery master | averages, status registers | `modbus_bms_handle` | Modbus master, bank | shares the error word | its bit is its own |
| host protocol (4G) | parser state | `parser_process_byte`, nine handlers, acknowledgements | bank, UART manager | cut frames, no timeout between bytes | what is executed was sent, once and in order; damage costs a bounded number of frames |
| OTA control area | three flash words of a record, running slot | AT+OTABOOT, OTAREQUEST, OTALOCK, OTACANCEL, confirm task | bootloader (external), flash | power loss between two words; an interrupt's write inside the task's | the bootloader finds a sound request or none; an acknowledged request is not taken back |
| AT dispatch | - | prefix table | UART manager, OTA, RTC | runs in an interrupt | - |
| Modbus master stack | `i8state`, telegram queue, ring, two timers, notifications | `ModbusQuery`, `SendQuery`, `getRxBuffer`, `validateAnswer` | UART, timers, callers | late answers, notifications that outlive their wait, queue full | an answer belongs to its question |
| Modbus slave stack | `u8state`, exception, ring with an 8-bit count, T35 timer | `getRxBuffer`, `validateRequest`, FC1-FC6, FC15, FC16 | bank, timer task | a notification that comes while the slave is not waiting is lost; a block written register by register | accesses stay in the bank; the slave is in step again after an upset, unless an overrun has made it deaf |
| UART transmit path, FIFO | `is_sending`, DMA buffer, FIFO | `uart_manage_dma_send`, completion and error hooks | AT, 4G, HAL | completion interrupt or a reply between test and put | bytes leave whole, once and in order |
| UART receive path, ring | lwrb's two indices, DMA buffer | `uart_4g_recv_callback`, `lwrb_write`, `lwrb_read` | HAL, 4G thread | the interrupt writes while the thread copies; a full ring; topics cut or joined by the idle line | the ring is a queue |
| NMEA parser | last fix | checksum, field split, sentence parsers | GPS thread | a sentence without a fix still yields a time | - |
| supervisor, work mode, board LED | mode, LED step | `sys_supervisor_logic`, `work_mode_logic` | bank | reads at several moments | mode of one moment |
| log, board support, start-up, tests | - | - | - | - | not modelled |

Everything in this code that a test would hardly reach is listed, at the line where it bites, under `hazards` in
`PROJECT.json`, with the properties that would catch it.

### How the parts meet

The controller's threads exchange almost everything through the register bank: the host writes commands, the alarm and battery
threads read commands and write statuses, the relay and the schedule withdraw commands and set error bits. Besides
the bank they share two pins (`FLASH_LIGHT_POWER_EN`, `PWD_LED`), `is_soft_standby` (written by the schedule, read by relay
and alarm), and `last_volume` (written by the relay to force the alarm thread to send the volume again). The OTA area is
shared by the interrupt that runs AT commands, the confirm task, and, across a reset, the bootloader.

## 2. Modules

| module | models | lines of interest |
|---|---|---|
| `HookBank` | registers, pins, standby flag, `last_volume`; critical sections; the host's writes | `application/system_def.h`, `application/app_4g.c:114-296`, `component/am_modbus/Modbus.c:2124-2144` |
| `RelayTask` | `process_relay_logic`; one pass is one action | `application/app_relay.c` |
| `StandbyTask` | the soft schedule of `rtc_power_schedule_check`, one statement an action | `application/gps_app.c:250-312` |
| `NightClock` | RTC, mark and alarm in the backup domain, start-up, synchronisation, the window, hard standby and its wake | `application/gps_app.c:78-381`, `Core/Src/rtc.c:30-109` |
| `BmsTask` | the battery poll as an author of the error word | `application/app_bms_alarm.c:321-482` |
| `AlarmTask` | self-test, volume, buzzer and lamp of the alarm thread, and the unit's lamp | `application/app_bms_alarm.c:20-320` |
| `HookPower` | host + relay + schedule + battery: who powers the unit | composition |
| `HookAlarm` | host + relay + schedule + alarm thread: what the unit is told and reports | composition |
| `OtaMeta` | the OTA control area, its two writers, power loss, and the bootloader | `application/ota_manage_port.c`, `application/ota_flash_service.c` |
| `OtaCell` | abstract specification: one record or none, replaced only by losing it first | promised to the bootloader |
| `UartTx` | the transmit path of one UART: task, replies in the interrupt, completion, errors, FIFO, DMA | `component/uart_manage/uart_manage.c:238-437`, `fifo.c:212-433`, `application/uart_manage_port.c:121-144` |
| `ModbusMaster` | one Modbus line: the thread that asks, the telegram queue, the master task, both timers, the interrupts, the unit | `component/am_modbus/Modbus.c:829-1862`, `application/uart_manage_port.c:121-162` |
| `RxRing` | one receive ring: DMA chunks and errors, the topic test, `lwrb_write` and `lwrb_read` byte by byte against each other | `component/uart_manage/uart_manage.c:441-520`, `lwrb.c`, `application/uart_manage_handler.c` |
| `ByteQueue` | abstract specification: a bounded queue of one writer and one reader | promised by `RxRing` |
| `HostLine` | the host's messages, the line that splits and joins them, `RxRing`, the frame parser byte by byte, handlers and replies | `application/app_4g.c` |
| `ModbusSlave` | the slave: reception, ring count, T35, task, request checks, all functions as register accesses, answers; the 4G thread and `gps_standby` on two registers | `component/am_modbus/Modbus.c:120-190, 640-830, 1370-2150` |
| `HookPowerProofs`, `HookAlarmProofs`, `OtaMetaProofs`, `UartTxProofs`, `ModbusMasterProofs`, `HostLineProofs`, `ModbusSlaveProofs`, `NightClockProofs` | theorems | - |
| `MC...` | constants for TLC | - |

### How state and actions correspond to the code

* **A register is a field of `reg`.** `MB_Reg_Get` and `MB_Reg_Set` mask interrupts, so one access is one step. Only the
  registers that the threads exchange are there. The error word is a set of bit names. Its read-modify-write is two
  actions, `ReadErrors` and `WriteErrors`, with the thread's copy in `copy` and the critical section in `crit`; while `crit`
  is taken, no other action is enabled (`Schedulable`). `ReadErrorsUnlocked` is the same without the critical section and serves
  as a mutant.
* **The relay's pass is one action**, because its thread has the highest priority and does not block within a pass. Time
  is counted in passes: `hbAge` is the number of passes since `recv_heartbeat_time`.
  It stops one past `Timeout`, which is the model's own bound: the code's tick difference goes on, and no comparison tells the two apart.
  `Silence` and `Timeout` stand for `HEARTBEAT_SILENCE_MS` and `HEARTBEAT_TIMEOUT_MS`.
* **The schedule runs at the lowest priority**, so each statement of the entry and of the exit is an action (`gpc`); its adjacent
  writes to the three command registers are one action, and so are those to the two statuses, because every step of another thread
  commutes with all but one of them. Its decision reads
  enable, window and flag once, at the start of the pass. The time window is one Boolean that may move at any time, which covers
  the passing of time and a host that moves the window.
* **The alarm thread's queries are a send, a wait, and one of answered / unanswered.** "Unanswered" for the lamp covers both a
  unit that did not hear and a unit that obeyed while its answer was lost (`lamp` changes, the status does not). What the thread read
  before the wait (`aCmd`, `aErr`, `aMode`) is kept across it, as in the code. Only while the thread blocks may the schedule run
  (`AlarmBlocked`); the relay and the host's thread may run at any step.
* **The host** writes one register a step with any value of the instance's sets, which is what its handlers and the
  Modbus slave do to the bank. It writes at any time and in any order.
* **A flash word is a value of `words`** (32 bytes are programmed at once): the record's head, the images' states, the CRC word. Programming a
  word that is not erased leaves the same bits if they agree, or damage. An operation that reports an error has
  done nothing, all, or damage. `Slice` says what each word of a record holds, and `MetaIsValid` is the CRC test. AT commands run in the
  UART interrupt, therefore the confirm task makes no step while one is under way (`Interrupted`); the interrupt arrives
  between any two of the task's flash operations.
* **The task's send is split at every access to what it shares with the interrupts**: the flag, the transmitter's state, the
  buffer, the start, the FIFO. A copy into the buffer is one step, and so is a call of the HAL; `fifo_s_puts` masks interrupts and
  is one step by the code. All interrupts have priority 5 and do not nest, so the send in the receive interrupt (`Reply`) and the completion are
  one step each. The DMA reads one byte of the buffer a step (`DmaReads`), which makes an overwritten buffer visible on the wire. The HAL starts a
  transmission exactly when `gState` is ready. `upset` records which of four things has happened that are known to break the order, so that the
  properties can say that nothing else does; the code has no such variable. Restarting the receive DMA succeeds, as the
  receiver is ready when the HAL calls back.
* **A Modbus line has one thread that asks** (`led_sound_master` on UART7, `bms_master` on USART6), so the two lines are two instances of one
  module and share only the timer task. A telegram is the number of its query, a frame is whose answer it is and whether it is whole: `ring` is a
  sequence of pieces (an answer, an exception, the head or the tail of an answer that a pause of more than 5 ms cut in two, noise). `Starts` says
  where `mb_trim_sticky_packet` finds a frame with the right length and CRC. A notification value is a variable (`notified` of the master, `result`
  of the thread) that outlives its wait; `ulTaskNotifyTake` blocks exactly when it is 0, and a completion (`eNoAction`) wakes a waiting master
  without leaving a value. `mpc` is where the master stands; everything between two blocking calls, or between two points at which an
  interrupt or a timer callback changes what it sees, is one action.
* **Timer callbacks run in FreeRTOS's timer task**, which has the lowest priority (`Core/Inc/FreeRTOSConfig.h`), so a callback finds the master blocked
  (`MasterBlocked`). Its command queue has ten places; a command that finds none is refused and nobody looks at the result: `Commanded` is the
  choice between the effect and a counted refusal.
* **Time on the line** enters through one guard. `CallerGivesUp` is the end of the thread's 1000 ms, and `Served` says when it cannot come: when the
  telegram has reached the master and the master will return, since 3 ms of silence, at most 250 ms of transmission (9 ms for 8 bytes at 9600
  baud) and the 500 ms of the timeout are less than 1000. A timeout, an answer and the T35 pause come in any order.
* **`stale`** records that bytes of an answer came when the master did not wait for them, or were left when it gave up; the code has no
  such variable. It separates what an answer in time guarantees from what finding 3 shows. The answers and absences of answers in `AlarmTask` and
  `BmsTask` are those of a line on which it is false.
* **A byte on the host's line** is its value, the message it belongs to and its position there (`of`, `at`). The parser sees only the value; the
  other two say in the properties what was lost or mixed. A CRC agrees exactly with the bytes of one whole frame: accidental agreements of
  CRC16 are left out. `lwrb_read` is split at every byte it copies and at the moment it gives the places back (`CopyByte`,
  `ReleasePlaces`), between which the interrupt may write. Arming the DMA again is taken as gapless. The line may fall idle behind,
  between or within messages; a receive error drops what the DMA holds; a full ring drops the end of a chunk. The parser's seven states are the
  code's (`WaitStart` to `ReadCrc`); a handler is its register writes and the kind of its reply: read, acknowledged, length error,
  CRC error, or none, which is what a heartbeat, a `sleep_time` of one to three bytes, a `time` of one byte and a written `sys_error` get.
* **The slave's ring** holds bytes of requests; its count goes back to 0 at `MaxBuffer` as the 8-bit `u8available` does at 256, so the byte that would fill
  the ring empties it and the overflow branch of the code is never taken. The timer task has the lowest priority: T35 expires only while the
  slave is blocked, and its notification of value 0 (or the completion's `eNoAction`) wakes a slave that waits and is lost on one that waits for something else. A
  function is its sequence of register accesses (`Accessed`, `Steps`), and only a block write is cut between two of them, because the 4G thread has a higher
  priority than the slave and `gps_standby` a lower one. The values read are left out; the two times carry the number of the write they come from, so that a
  mixed pair is seen. `upsets` counts what goes wrong on the line or in time: a gap within a frame, noise, a master that gives up, a transmission not over in
  its time, a byte lost to an overrun, and a master that speaks while the slave still works or answers. The last is one since a frame of at least twice the minimal size may be cut by a gap into
  two that are each refused: the master has its answer with the first, and a request sent during the second refusal would be a third one spoiled by one gap.
  An overrun may end the reception (`listening`), since `HAL_UART_ErrorCallback` arms it on the lines of the UART manager only (`uart_manage_port.c:121-125`). `getRxBuffer`
  arms it again, but the slave comes there only after a T35; when none runs and the slave has not been woken yet, it hears nothing any more (`Deaf`).
* **The clock has two times**, the true one (`real`) and the RTC's, in minutes of a day of `Hours * Minutes`. Times of day are packed as in the
  registers, `(hour << 8) | minute`, and compared that way. The backup domain (`rtc`, `mark`, `alarm`) outlives resets and, with a coin cell, power cuts; RAM outlives
  nothing. `source` records whose time the RTC shows and `refused` whether `HAL_RTC_SetTime` failed since; the code has no such variables. An alarm rings throughout its minute, as its
  mask ignores the seconds, so `Tick` may not end a minute over a sleeping controller whose alarm it is. The 300 ms between the
  decision and sleep contain at most one change of minute (`dozing`, `dozed`). `StandbyTask` and `NightClock` share no state: the one takes
  the window as a Boolean that moves at any time and follows every statement among the other threads, the other computes the window and makes a
  soft check two steps.
* **The bootloader** is not part of the repository. `Boot` is derived from the record's fields and their description in
  `Docs/ota_business_integration.md`; it is marked external in the map.

## 3. Runs

| run | module, cfg | distinct states, time | question |
|---|---|---|---|
| `power` | `MCHookPower` | 376,704, 95 s | does the supply follow the heartbeat and the schedule, whatever their order? |
| `lamp` | `MCHookAlarm`, `MCHookAlarm.cfg` | 347,744, 165 s | does the lamp's status and the offline error follow the unit through supply cuts and lost answers? |
| `buzzer` | `MCHookAlarm`, `MCHookBuzzer.cfg` | 246,272, 135 s | is a withdrawn or a nearer alarm acted on in spite of the 5.3 s during which a clip plays? |
| `clock` | `MCNightClock` | 1,411,072, 30 s | can the schedule ever go by a wrong clock, and does hard standby last for the night and no longer? |
| `host_line` | `MCHostLine` | 168,709, 15 s | which of the host's frames are executed, and what does a damaged one cost? |
| `modbus_slave` | `MCModbusSlave` | 907,715, 55 s | do accesses stay in the bank, do times stay paired, is the slave in step again after an upset, overruns included? |
| `ota` | `MCOtaMeta` | 3,148, 1 s | what can the bootloader find after any interleaving of writers, failures and power losses, and does an acknowledged request stay? |
| `uart_tx` | `MCUartTx` | 445,231, 45 s | do bytes leave whole, once and in order, whoever sends and whatever interrupts? |
| `modbus_master` | `MCModbusMaster` | 475,368, 35 s | whose are the answer, the timeout and the notification, when answers are late, cut, stuck together or missing? |
| `timeout_after_standby` | `TimeoutCutsSupply.cfg` | violated | finding 1 |
| `lamp_status` | `StatusReportsLamp.cfg` | violated | finding 2 |
| `late_answer` | `LateAnswer.cfg` | violated | finding 3 |

### Properties

`HookPower`
* `StandbyHidesHeartbeatError`: after the entry is complete no heartbeat error shows until standby ends, although the
  relay may raise it between any two statements of the entry.
* `FlagKnowsSupplyOff`: awake, `relay_is_on` never says "on" over a cut supply.
* `ErrorBitsKeepTheirAuthors`: no read-modify-write of the error word revives or loses another task's bit.
* `OnlyTheHostBreaksStandby`: during standby only `HEARTBEAT_ENABLE = 0` powers the unit.
* `DeadHostCutsSupply`: a monitored host that dies, on a controller that never was in standby, ends with the supply cut and
  the error raised. The precondition "never in standby" is what finding 1 is about.
* `StandbyEnds`: outside the window, or with the schedule disabled, standby ends for good, and the unit is supplied again, unless the heartbeat error
  tells why not.

`HookAlarm`
* `OfflineMeansThreeFailures`: the offline error is shown only over three unanswered queries in a row, through every window in which
  another thread clears the bit.
* `ErrorBitsKeepTheirAuthors`: as above, for the alarm thread's bit.
* `StatusFollowsCommand`: in the end the lamp's status is the host's wish and the offline error is gone.
* `BuzzerFallsSilent`, `NearAlarmPrevails`: in the end the buzzer's status follows the commands.

`NightClock`
* `ClockTrusted`: the schedule goes by a clock that nobody has set since its power was last lost only if the RTC refused a setting, which `gps_sync_rtc_once`
  does not look at; and a clock set from a fix shows the right time: through resets, power cuts with and without the coin cell, and a synchronisation
  cut short at any step. A time told without a fix counts as a setting, as it does to the code (section 5).
* `SleepsOnlyAtNight`: a controller in hard standby that went by a right clock and whose alarm was taken sleeps only between the two times it was sent
  to sleep with. The zone of the alarm is right, and an alarm that rings in the 300 ms before sleep is followed by another. Equal times are
  excepted: if the minute ends within the 300 ms, the controller sleeps for a day.

`HostLine`
* `ExecutedOnceInOrder`: what is executed was sent, at most once and in order, whatever is lost, cut or joined.
* `CleanLineExecutesAll`: as long as no byte is lost, every frame is executed however the line splits and joins the messages, even one whose bytes look
  like topics or the start of a frame.
* `DamageIsBounded`: since the last execution at most so many whole frames were missed as fit into the length that a damaged one seems to announce, for each frame
  damaged so far. The length may be any byte that was sent, hence the greatest of them; and no byte but the first looks like the start of a frame, since a
  parser that looks for the start would fall for it again and again. In the code's numbers a cut frame may swallow 255 bytes, about 37 heartbeats at one a second, against `HEARTBEAT_TIMEOUT_MS` of 60 s.
* `RingIsQueue`: the ring implements `ByteQueue`, although neither side waits for the other.

`ModbusSlave`
* `BankBound`: what a request found right accesses is in the bank, but for a run of coils that does not begin with a register's first coil, which may
  reach the one register behind it.
* `TimesStayPaired`: the two times of the window part only when the 4G thread writes within the slave's block; `gps_standby` may besides read an older
  time to switch off with a newer one to switch on. This is about a master that sets both times with one block, as the 4G command does, and neither in
  another way (`PairAssumption`): one that writes them one by one parts them itself.
* `UpsetsSpoilFew`: each upset on the line or in time, overruns included, costs at most two requests: so many at most are not answered, or not with the
  verdict they deserve, when the master has stopped waiting. It says nothing of a slave that is deaf for good (`Deaf`, section 2), which every request after that
  finds without an answer; this is a flaw of the code (section 5), and in the model the only one by which an upset costs more.
* `RequestsAnswered`: without an upset every request to this slave is answered with the verdict it deserves, but for 2001 to 2008 coils.

`OtaMeta`
* `AcknowledgedRequestStays`: a request answered OK while the confirm task is not in its write stands in the area, for the slot that does not run, until the next
  OTA command or reset: the confirm task, whose half hour may end later, does not take it back. It holds because the request marks the running image
  valid, which the documentation does not provide for (section 5). A request answered within that write is overwritten.
* `ActiveIsRunning`: the confirm task may trust the record's active slot where the AT commands ask the program counter.
* `OkMeansStored`: an OK is only sent over a record that is stored, although nothing reads it back.
* `CellSpec`: the area implements `OtaCell`.

`UartTx`
* `QueueInOrder`: what left, what is in flight and what waits is what was accepted, in order, until one of the four upsets: a put after the
  last completion, a reply between the task's decision for the buffer and its start, a receive error over a transmission, a
  DMA error.
* `NothingLostNorTwice`: a late put costs the order and nothing else.
* `FlagFollowsTransmitter`: `is_sending` is up over every transmission and over none but one that is about to start.
* `FifoFollowsTransmission`: what waits behind a transmission leaves the FIFO.

`ModbusMaster`
* `OneQueryOutstanding`: as long as the timer task takes its commands, what is queued, worked on or told is the one query that the thread waits
  for. It rests on 1000 ms being more than the master ever takes, and is what makes one notification value and a small queue enough.
* `TimeoutBelongsToQuery`: under the same condition no timeout is left over for the next query.
* `OwnAnswer`: a success is the query's own answer, unless bytes of an answer ever came when nobody waited for them.
* `AnswersServeOnce`: whatever happens, no answer serves two queries and none serves after a later one.
* `MasterReturns`: every wait for an answer ends, unless a command to a timer was refused.

`TypeOK` of `HookPower` and of `ModbusMaster` is not an invariant of their runs, since the theorems `TypeCorrect` establish both for all instances.

Every property of a passing run has a mutant of the code's translation, listed in `PROJECT.json`, that violates it under the same
configuration: a dropped guard, a forgotten reset, a missing critical section.

### Bounds, and why they are enough

* `Heartbeats = {0, 1}`: the relay compares the register with one earlier value, so two values give every outcome.
* `Silence = 1`, `Timeout = 2` (`0`, `1` for the alarm runs): the thread tests "age > Silence" before "age > Timeout". Both edges, the
  pass in which only the first holds and the pass after the timeout all occur. The proofs hold for every pair with `Silence < Timeout`.
* `Volumes = {30}`: with `Unsent` and the initial 0 the volume is known, unknown or never sent.
* `SoftValues = {0, 1, 2}` in `power` (2: any value that is neither 0 nor 1); `{1}` in the alarm runs, where the schedule
  moves by its window.
* `lamp` writes only the lamp's command and `buzzer` only the buzzers': the two functions share nothing but the thread and the
  supply, and both keep the other's path through the pass.
* `BatteryLevels = {100}`: the level is not read by the modelled tasks.
* `MaxAttempts = 2` (`OTA_FLASH_CONFIRM_MAX_ATTEMPTS` is 10): the count is compared with the maximum only; there is a boot below
  it, one at it and the rollback. The proofs hold for every value.
* `BufferSize = FifoSize = 2`, messages of 1 and 3 bytes, three sends: a message that fits, one that fills the buffer and part of the FIFO, one
  that is cut, and a put that finds too little room. Three sends suffice for one in flight, one waiting and one that overtakes. The application's
  buffers are 512 bytes and its messages never longer. The proofs hold for all
  sizes, lengths and numbers of sends.
* `MaxTelegrams = 2` (`MAX_TELEGRAMS` is 6), `MaxQueries = 4`: one query in the hands of a master that does not return, two in the queue, one
  dropped by it; and an answer that is two queries late. `MaxNoise = MaxOverruns = MaxRefused = 1`: one piece of noise or one cut answer, one overrun,
  one refused command, in any combination and at any point; each of them alone leads to the states the properties distinguish (a line without
  a timer, a deaf line, a frame after noise). The proofs hold for every value. The received bytes have no limit in this model; the ring's 8-bit
  count is in `ModbusSlave`, whose code the master shares.
* `Hours = 4`, `Minutes = 2`, `Zone = 3`: every hour of the zone differs from UTC's and from what the wrong direction gives, and midnight falls within
  the day of both. The four schedules are a night of one minute, one across midnight, an empty one, and one whose end is no time of day. The
  theorems about `NightClock` hold for every day, zone and set of schedules.
* `RingSize = 7`, `ReadMax = DmaSize = 8`, byte values 0 to 7, six sessions of three or four messages, `MaxFaults = 1`: the ring is smaller than a message, so
  it wraps and overflows; a length read in the wrong place runs out within the session; a heartbeat's bytes look like a topic and like the first
  byte of a frame. One fault (a pause within a message or a receive error) at any point is enough for each way to damage a frame, and overflows are not
  bounded; two faults take more than five minutes. The theorems about `HostLine` hold for every size of ring, read and DMA and for any number of faults and sessions.
* `MaxBuffer = 7`, frames of three and four bytes and one of six: two requests in the ring fill it, as the 256th byte does, and a gap may make two frames of the long one. The bank has its 256 registers; the requests stand at the
  boundaries of the checks (125 and 126 registers, the last coil, a run behind it, 2001 coils). `MaxUpsets = MaxWrites = 2`: two upsets in a row, two writes around one block.
* `hbAge` stops at `Timeout + 1`, where the code's comparisons no longer change; `ledFails` stops at 3 as the code's own count does.

### Fairness, and what justifies it

`HookPower`: strong fairness of the relay and of the schedule, weak fairness of the battery task. The scheduler is preemptive
and each of these threads sleeps between two passes, so each of them gets the processor again and again; other threads' critical
sections disable them for moments, hence strong. The host, the clock and the satellites are not fair.

`HookAlarm`: weak fairness of the alarm thread and of the clip's end; strong fairness of `BuzzerStarts` (time passes, so the 500 ms
round falls due again and again) and of the unit's answers: a powered unit that is asked again and again answers again and again. Without the
last a dead unit would be a counterexample to every liveness property about it.

`OtaMeta`, `NightClock`, `HostLine`: none; every property is a safety property.

`ModbusSlave`: weak fairness of the bytes of a request begun, of T35's expiry, of the slave task and of the completion: an expired timer is served as
soon as no thread is ready, and no thread runs without blocking. The master is not obliged to ask.

`ModbusMaster`: weak fairness of the master, of the end of a transmission, of both timers' callbacks, and of the thread's wait: the timer task has the
lowest priority, but no thread of a higher one runs without blocking. Nobody is obliged to ask, and the unit is not obliged to answer.

`UartTx`: weak fairness of a task inside the function, of the DMA and of its completion interrupt; nobody is obliged to send.

## 4. Proofs

All theorems hold for every value of the constants under the named assumptions `BankAssumption`, `RelayAssumption`,
`PowerAssumption` (`HookPower`), `AlarmAssumption` (`HookAlarm`), `OtaAssumption`, `FlashAssumption` (`OtaMeta`), `UartAssumption`,
`MasterAssumption`, `LineAssumption` (`HostLine`), `ClockAssumption`, `SlaveAssumption` and `PairAssumption` (`ModbusSlave`), which TLC evaluates in the
runs. They say of which set a constant is and little more: `Silence < Timeout`; hosts write commands and flags that the code distinguishes; a
frame's first byte is no comma and no digit of a topic, as 0x7E is none; and, for `PairsHold` alone, that a master sets both times with one block.

`HookPowerProofs`
* `TypeCorrect`: `Spec => []TypeOK`.
* `InvariantHolds`: the inductive invariant. `StandbyHidesHeartbeatError` and `FlagKnowsSupplyOff` are not inductive: what the schedule's
  thread has done so far depends on where it stands. The invariant says, per value of `gpc`, what flag, pin and error word may be, that a
  copy of the error word taken in a critical section is still the word when it is written (`crit` and `copy`), and that the heartbeat error
  and `relayOn` exclude each other where they must.
* `HeartbeatErrorStaysHidden`, `RelayKnowsSupply`: the two invariants of the run.
* `AuthorsKeepTheirBits`: `ErrorBitsKeepTheirAuthors`, an action property, from the same invariant.
* `StandbyKeepsSupplyOff`: `OnlyTheHostBreaksStandby`.

`HookAlarmProofs` (from `BankAssumption`, `RelayAssumption`, `AlarmAssumption`)
* `InvariantHolds`: the inductive invariant. `OfflineMeansThreeFailures` is not inductive: between the third failure and the bit there are a critical
  section and a copy of the word. The invariant says who holds the critical section (`CritHolder`), that his copy is still the word (`CopiesAreFresh`),
  and that the failures are counted from the decision to raise the bit to its clearing; and that a query sent over a word without the bit is
  answered over one, because only the alarm thread raises it (`FailuresCounted`).
* `TypeCorrect`, `OfflineIsEarned` (`OfflineMeansThreeFailures`), `AuthorsKeepTheirBits` (`ErrorBitsKeepTheirAuthors`): from it.

`OtaMetaProofs`
* `TypeCorrect`: `Spec => []TypeOK`.
* `InvariantHolds`: the inductive invariant. While a writer stands in the middle of its words, the words before its position are its
  own or damaged; and whatever either writer holds in hand is a sound record whose active slot is the running one. The confirm
  task's record stays sound although AT commands replace the area under it, because its record is composed of
  what it read and never of what it finds later.
* `RequestStays`: `AcknowledgedRequestStays`. The invariant `RequestKept` adds that an acknowledged request, and one on its way into the area, has the running image
  marked valid, so that a confirm task that begins later finds nothing to confirm, and that none is acknowledged to a task in its write.
* `ActiveSlotRuns`, `AcknowledgedIsStored`: the two other invariants of the run.
* `AreaIsCell`: `Spec => Cell!Spec`, the refinement of `OtaCell`: initial states map to initial states, and every step to a step
  or a stutter.

`UartTxProofs` (from `UartAssumption`)
* `TypeCorrect`: with `PartsFit` (what the task carries to the buffer fits in it), no copy exceeds the buffer and no put the FIFO.
* `FlagTellsTransmission`: `FlagFollowsTransmitter`. It is not inductive; the invariant adds that the task holds the buffer only while the
  transmitter is ready and that its start is never refused.
* `TransmitIsQueue`: `QueueInOrder`. The invariant adds that nothing waits behind a ready transmitter, that the task puts only behind a
  transmission, and that what it copied is still in the buffer when it starts. The lemmas before it say what the helpers on sequences keep.
* `EveryByteOnce`: `NothingLostNorTwice`. The invariant `FreshInvariant` adds that what the task holds, in the part for the buffer and in the rest for the
  FIFO, is in neither twice and is not yet among what was handed over, and that no byte is of a message still to be sent; so a new message, the
  task's or a reply's, is new wherever it is put, also in front of older bytes. The lemmas before it split and insert sequences without repetitions.

`ModbusMasterProofs` (from `MasterAssumption`)
* `TypeCorrect`: `Spec => []TypeOK`; with it, that the master has a telegram wherever it works on one and transmits only between the start
  and the end of a frame (`AtWork`).
* `OneQuery`, `TimeoutBelongs`: neither is inductive. The invariant `Outstanding` adds that a waiting thread's query is always queued, worked on
  or told (`Handled`), which is what keeps the thread from giving up, and that the timeout runs exactly while the answer is awaited and
  `i8state` waits only then (`Timed`), which is what keeps `SendQuery` from refusing.
* `ServeOnce`: `AnswersServeOnce`. The invariant `InOrder` follows a query through queue, master, unit and ring: the numbers rise from the answer taken
  last, over what the ring holds and the unit still has to send, to the telegram and to what is queued.
* `AnswerIsOwn`: `OwnAnswer`, from `InOrder` (a frame that ends an answer is somebody's) and from whose the pieces in the ring are while nothing is stale.

`HostLineProofs` (from `LineAssumption`)
* `InvariantHolds`: the inductive invariant, in six parts. `RingInv`: what the two indices enclose is the queue, and the thread's copy is its beginning
  until the places are given back, although the interrupt may write between any two steps of the copy. `BytesAreGenuine`: every byte held or to be
  parsed is a byte of the session. `LineInOrder`: thread, ring and line hold them in the order sent. `ParserInShape`: the number of bytes held and the
  length in the header fit the parser's state. `ExecutedIsOver`: what was executed lies before all that is still to come. `NothingMissing`:
  while no byte of a frame was lost, what is held is the beginning of a frame, and every frame not executed is held or to come with all its bytes but its
  topic's two, which are cut off or passed over.
* `TypeCorrect`, `OnceInOrder` (`ExecutedOnceInOrder`), `CleanLine` (`CleanLineExecutesAll`): from it.
* `DamageBounded`: `DamageIsBounded`. The invariant `DamageInvariant` counts what is paid for: the damaged frames whose start is over (`Past`), each with `Swallowed(length)`.
  Between two frames what was missed is paid for, and so is a whole frame whose beginning was taken for data and whose end is still to come (`BetweenFrames`). Within a whole frame
  the parser is in step with it (`InFrame`). Within a damaged one it has swallowed `n` whole ones and the first bytes of another, which need six bytes each
  and do not overlap (`Astray`, `Swallows`), so that at its end `n` is at most what that frame pays (`SwallowedCovers`). A frame may lose its rest while the parser holds its
  beginning: it starts to pay in that step (`LineMovesBound`). `LineAccounted` says of a whole frame that each byte is either still to come or over.
* `RingImplementsQueue`: `RingIsQueue`, the refinement of `ByteQueue` under `INSTANCE ... WITH`: a write appends (`WriteAppends`), a byte copied changes
  nothing (`CopyKeeps`), giving back moves the copy from the queue to the hand (`ReleaseMoves`), parsing takes from the hand (`UseTakes`).

`NightClockProofs` (from `ClockAssumption`)
* `WindowIsCyclic`: for all 16-bit times the test with its two orders is the cyclic one: the time has come less far from the power-off time than
  the power-on time lies.
* `TypeCorrect`: `Spec => []TypeOK`; with it, that alarm B always has an hour of the day.
* `ClockIsTrusted`: `ClockTrusted`. The invariant `MarkMeansSet` adds that the mark, which outlives the reset that clears the flag, stands only over a clock
  that somebody set or that refused to be set, and already from the step before it is written.
* `StandbyKeepsToTheNight`: `SleepsOnlyAtNight`. The invariant `NightInvariant` says that from the decision to the wake the alarm is the end of the
  night and the RTC shows one of its minutes, the first one until the minute changes. A minute that passes in sleep is not the last, because in
  that one the alarm rings (`TickStaysInNight`). Its lemmas are arithmetic modulo a day: packed times and minutes (`PackedParts`, `TimesApart`), local time and
  UTC advance together (`LocalAdvances`), and the alarm, an hour of UTC, rings in the minute of the on-time (`AlarmRingsAtOnTime`).

`ModbusSlaveProofs` (from `SlaveAssumption`)
* `TypeCorrect`: `Spec => []TypeOK`; with it, that the ring's 8-bit count stays below the ring's size.
* `AccessesStayInBank`: `BankBound`. The invariant `RunIsRight` adds that the slave comes to the loops only with a request that was asked for and that
  `validateRequest` found right; `VerdictBounds` is the arithmetic behind it: for every 16-bit start and count, what the loops access is below the size of
  the bank, but for the register behind it that a run of coils may reach when it begins inside a register (`CoilsFit`).
* `PairsHold` (with `PairAssumption`): `TimesStayPaired`. `PairInvariant` says what halfway through a block stands for the pair, the time set and the one
  about to be set; `ReadInvariant` what `gps_standby` holds when it has read one of the two. `BlockSetsBoth` is the arithmetic: a block that comes to
  the second time has set the first and does not end between them.
* `UpsetCostsTwo`: `UpsetsSpoilFew`. The invariant `UpsetsPay` has three cases, for a slave that is in step with the master (`InStep`), one to which another request may
  be lost (`OneAtRisk`: the one being sent, or the one that comes behind bytes left in the ring), and any other, with 0, 1 and 2 requests paid for in advance. A step
  without an upset spoils nothing in the first case and leads from the second to the first when it spoils one (`NextPays`); an upset spoils none itself, or one that
  it pays for, and adds two. `LineInvariant` says when the last bytes in the ring may be those of an earlier request. The argument needs that a slave whose reception
  has ended is woken once more, and arms it before the master asks again; without a T35 to come it stays deaf (`DeafStays`), hence the invariant is `Deaf \/ UpsetsPay`. The
  statement was false while a master that speaks too early was no upset (section 2), which the attempt to prove it showed; TLC finds it with the frame of six bytes.

Only model-checked: the liveness properties (`DeadHostCutsSupply`, `StandbyEnds`, `StatusFollowsCommand`, `BuzzerFallsSilent`,
`NearAlarmPrevails`, `FifoFollowsTransmission`, `MasterReturns`, `RequestsAnswered`), since fairness, ENABLED and temporal reasoning with it are beyond
the prover. Every invariant and action property and both refinements that a passing run checks are theorems.

## 5. Findings

Each is a violation run with one property.

1. `timeout_after_standby`: the timeout no longer cuts the supply after a standby. `process_relay_logic` sets `relay_is_on = 0` in
   standby, the schedule restores the supply without touching the flag, and the timeout branch asks for `relay_is_on`. A
   host that died during the night leaves the unit powered and the error unset.
2. `lamp_status`: the answer to "on" is lost, the host withdraws the command before the retry; command and status agree
   on "off" while the lamp flashes, and nobody asks again.
3. `late_answer`: the comment at `Modbus.c:1242` announces a validation of the id, the CRC and the function; neither the id nor the function is
   compared with the question. An answer that comes after the timeout is told to the next query as `OP_OK_QUERY`, "to acknowledge a correct
   operation" (`Modbus.h:109`), although the unit has not answered that one; its own answer then serves the query after it.

Seen while modelling and not made into runs:

* Power and alarm: the schedule clears `ERR_LED_OFFLINE` on entering standby, but an alarm thread that was waiting for the lamp's answer raises it
  afterwards until standby ends; `HEARTBEAT_ENABLE = 0` during standby powers the unit (`app_relay.c:33-43`); it never
  clears an `ERR_HEARTBEAT_TIMEOUT` that is already raised; `PWD_LED` is not restored on leaving standby; `last_volume` is not reset on
  leaving standby, so a unit that lost its volume is not told again until the volume changes or the host returns.
* OTA: AT+OTABOOT and AT+OTAREQUEST mark the running image VALID (`ota_manage_port.c:254`), where `Docs/ota_business_integration.md:143` has the request keep
  `image_confirmed` as it is (or clear it) and :278 allows AT+OTALOCK, the command for that, only after the new image's self-test: a request during
  the trial period confirms an untested image, which the bootloader then no longer rolls back. Done as the document says, the
  confirm task would clear the request half an hour later: `AcknowledgedRequestStays` rests on the deviation.
* OTA: `Docs/ota_business_integration.md:279` asks for a lock around the writes of the control area; there is none, and a request acknowledged between the
  confirm task's read and its write is overwritten with the older copy. AT+OTABOOT resets before its reply; AT+OTALOCK over an unreadable area writes a default record instead of refusing.
* Clock: a setting that `HAL_RTC_SetTime` refuses is taken for done: mark and `s_gps_synced` are set over an RTC that nobody has set (`gps_app.c:201-212`), and the schedule
  goes by it, also after resets (`ClockTrusted` names the case). A time from a sentence without a fix sets the RTC and its mark, although `gps_app.c:211` says that a lock must come first; a reset or the next
  synchronisation after a start corrects it. After a wake `s_gps_synced` stays 0 until the receiver tells a time, although the RTC kept its own. Every start puts
  the schedule's registers back to their defaults and disables hard standby, so the host's settings last until the first wake. A failed setting of alarm B, or
  an on-time with a minute from 60 to 79, is slept through until power is cut (a minute from 80 on spills into the alarm's masks, which is not modelled).
* Slave: an overrun that ends the reception when no T35 is to come, for example on the first byte of a request, leaves UART8 deaf until a reset (`Deaf`,
  `uart_manage_port.c:121-125`). A T35 during the wait for a transmission's end leaves the request unannounced in the ring, to be glued to the next; the comment at `Modbus.c:1400`
  promises `ERR_BUFF_OVERFLOW`, which cannot occur; FC16 does not compare its byte count with the bytes received.
* UART: an overrun on a Modbus line before its first byte is stored leaves the line deaf, because the error callback arms only the UART manager's
  lines and `getRxBuffer` is reached only by bytes received (`uart_manage_port.c:121`); a timeout that the timer task refuses to start blocks a
  line for good (`Modbus.c:1714`). Bytes that the task puts after the last completion, having decided for the FIFO before it, stay until
  somebody sends again.

## 6. Plan

Done: `HookPower` with its tasks, `HookAlarm`, `OtaMeta` with `OtaCell`, `UartTx`, `ModbusMaster`, `HostLine` with `RxRing` and `ByteQueue`,
`ModbusSlave`, `NightClock`, and the proofs named above, the last two of them `UpsetCostsTwo` and `DamageBounded`. No step of the plan is left.

Not modelled and why: text (NMEA sentences, AT prefixes, log lines) has no state that the properties tell apart; the supervisor, the work mode and the
board LED only read the bank, at several moments, and nothing is derived from what they show; torn accesses to a register (the slave
reads its two bytes apart) and its unlocked read-modify-write of single coils (`Modbus.c:1991`) are left out, so what a master that writes coils of a register which a
thread writes may undo is not examined; the bytes lost while a
receive DMA is stopped and armed again are below the steps of the model; HAL, FreeRTOS, start-up and generated code are third-party and enter as the semantics of queues,
notifications, timers, flash and DMA; bench tests are not part of the firmware. `ota_flash_service_init` and `ota_flash_request_ota`
have no caller in the application.
