# T8208 BLE SDK: a TLA+ verification project

The repository is the Telink TLSR8208 ("B80") BLE SDK as used for a dual-mode
mouse: drivers, a small common library and vendor services in C, with the BLE
stack as a binary library of which only the headers are there. The application
(`vendor/8208_dual_mouse`) is not part of the tree and there are no tests. The
modules here model the parts that keep state of their own and can go wrong in ways a
board test would hardly show: the software timer table, the bit-banged UART, the
indicator LED, the flash driver with its protection and the device address kept through it, the
queue between main loop and interrupts, and the drivers of the timers, the SPI and I2C masters,
the UART's baud rate, the key scanner, the ADC, the firmware check and the pins.

Paths below are relative to `src/b80_ble_sdk/`.

## 1. Inventory

| Component | State | Operations | Interacts with | What is hard | What makes it correct |
|---|---|---|---|---|---|
| Software timer, `vendor/common/blt_soft_timer.c/.h` | table of events ordered by expiry, `currentNum`; the power manager's wake-up time | add, delete, delete by index, sort, process | main loop, power manager's wake-up callback, the callbacks it calls, which call back into it | walk of a table that callbacks change; wrapping 32-bit time; late polls; stale wake-up | order between calls; wake-up of the head; no timer skipped for good |
| Soft UART, `drivers/ext_driver/software_uart.c` | state flags, bit and idle counters, byte and packet buffer, `mutex_flag`; timer0 and pin interrupt registers | put character, send; interrupt handler; dis, en, init; set buffer | main program, interrupt, the line | edge, tick and register writes in any order; 8-bit counters; boundaries of packets | bytes in order, packets cut only by timeout or full buffer, never deaf |
| Indicator LED, `vendor/common/blt_led.c/.h` | phase times, repeat count, priority, start tick, on/off | setup, clear, process | application, main loop | late polls, displacement in mid-phase, degenerate patterns | flashes as asked, ends on time, ends off |
| Device address, `vendor/common/blt_common.c` | eight bytes in flash | `blc_initMacAddress` | flash driver, random numbers | loss of power between and within writes | one address for the life of the device |
| Flash driver, `drivers/flash.c` | the flash chip | read, page program, erase, status, OTP, identification | interrupts (off during a command), everything that persists | page boundaries, power loss, busy timeout | programs what it was given, and nothing else |
| Flash protection, `drivers/flash/flash_mid*.c` | status register of the chip | read/write status, lock, unlock | flash driver | read-modify-write, per-chip masks | only the protection bits change |
| Queue `my_fifo`, `common/utility.c/.h` | `wptr`, `rptr` (8 bits), slots | init, wptr/next, push, get/pop, reset | main loop and interrupts | pointer moved before the data is there; wrap of the indices | a bounded FIFO |
| Firmware check and signature, `vendor/common/flash_fw_check.c`, `blt_fw_sign.c` | running CRC | check | flash, OTA | block and remainder boundaries | every byte is covered once |
| Battery check and ADC, `vendor/common/battery_check.c`, `drivers/adc.c` | sample buffer, cached voltage | sample, sort, average | ADC hardware, system timer | waiting for samples, zero samples | median average |
| UART, `drivers/uart.c` | divider, ndma fifo positions, dma busy flags | baud rate, send/receive | interrupts, dma | prime test, best divider; index wrap | the nearest rate; no byte lost |
| I2C and SPI, `drivers/i2c.c`, `drivers/spi.c` | bus registers | master read/write, slave, formats | bus hardware | phase order, FIFO refills, register bits only ever set | legal bus transactions |
| Key scan, `drivers/keyscan.c` | column table, matrix registers | set rows, columns; read key | GPIO, hardware fifo | packing of row registers | key value maps back to the configured column |
| Timers and watchdog, `drivers/timer.c`, `watchdog.h` | one control register of enables, modes and statuses | set mode, start, stop, acknowledge; watchdog interval, start, stop | interrupt handler, expiry of the timers | read-modify-write of a register the hardware changes and that clears on writing | a call changes what it names |
| Pins and power amplifier, `drivers/gpio.c/.h`, `gpio_default.h`, `ext_driver/software_pa.c` | a register per group and property, analog registers for some | function, direction, level, strength, resistors, shutdown, init; amplifier callback | the callback, an interrupt; deep sleep | masks and addresses of shared registers; digital and analog; order of two writes | every pin as asked, the callback included |
| Smart card, clocks, board, quadrature decoder, `drivers/s7816.c`, `clock.c`, `bsp.c`, `qdec.c` | registers | activate, select, calibrate | hardware | feedback of oscillators | |
| Analog, AES, emission tests, infrared, USB | registers | set, get | hardware | none of their own | |
| printf, string | none | formatting | | | |
| BLE stack (`stack/`, `proj_lib/`), OTA, pm, random, rf, otp | in a binary library | headers only | everything | no source | |
| Boot code, division (assembler) | memory, C runtime | | | | |

Everything runs on one core. There are two contexts, the main loop and the interrupt
handler, which preempts the main loop and is never preempted; the power manager calls
back from within the main loop's context. There is no operating system.

Hazards, with the line each bites at and the properties that cover it, are listed in
`PROJECT.json`.

## 2. Modules

Each component has a module with its state and actions (`X.tla`), one with what it
promises (`XProps.tla`; the smaller drivers promise one thing each and state it at the end of `X.tla`),
a module and configurations for TLC (`MCX.tla`, `MCX*.cfg`) and, where there are any, one with
proofs (`XProofs.tla`). What is composed with what:

| Module | Is | Uses |
|---|---|---|
| `FlashMemory` | the promise of the flash functions | |
| `FlashDriver`, `FlashDriverProps`, `FlashProofs` | the flash driver, protection and chip | implements `FlashMemory` |
| `MacAddress`, `MacAddressProps`, `MacAddressProofs` | the device address | its flash is `FlashMemory` |
| `BoundedQueue` | the promise of `my_fifo` | |
| `MyFifo`, `MyFifoProps`, `MyFifoProofs` | the queue | implements `BoundedQueue` |
| `SoftTimer*`, `SoftUart*`, `DeviceLed*` | one component each | |
| `Timers`, `SpiMaster`, `I2cMaster`, `UartBaud`, `KeyScan`, `AdcSample`, `FirmwareCheck`, `Gpio` | one driver each | |
| `Drivers`, `DriversProofs` | the queue or one of these eight, and what is proved of each | all of them |
| `Remainders` | facts about remainders, for the proofs | |

Definitions marked `Mutant:` are
altered forms of the definition that follows them; `PROJECT.json` names the property each of them
breaks, and no specification uses them.

### SoftTimer

* `timer`, `currentNum` are the fields of `blt_timer`; a slot is a record `cb, t, interval`.
  Slots beyond `currentNum` keep their bytes, which matters when the last timer is deleted.
* The code that runs to completion is nevertheless cut at every loop iteration
  (`LoopSkip`, `LoopCall`, `SortStep`), because a callback, called in the middle of the
  walk, may add and delete timers: `pc`, `i`, `now`, `changeFlg` are the locals of
  `blt_soft_timer_process`, `pass` and `pos` those of the bubble sort, `ret` says where the sort returns to.
* `Add` and `Delete` are `blt_soft_timer_add` and `_delete`, enabled between calls of process
  and, as far as `CbOps` says, inside a callback. The three results of a callback are `ReturnDelete`,
  `ReturnKeep`, `ReturnNew`.
* 32-bit time is arithmetic modulo `Modulus`; `Big` is `TIME_COMPARE_BIG`, `Expired` is
  `blt_is_timer_expired`, `Horizon` the 3 s of the wake-up.
* `Tick` is the system timer; `PollBound` is the longest time between two calls of process.
* `pc = "trap"` is the endless loop of the sort for an impossible `currentNum`; type
  correctness says that it is never reached.

### SoftUart

* Time is cut into bit intervals. In each the line takes its next level (`LineChange`, the level
  `soft_uart_putchar` puts there) and timer0 ticks if it runs (`TimerTick`); `due` holds what
  has not happened yet in the interval, so that the two come in any order around a start bit.
* The handler runs in two parts, the pin's and the timer's, and an event may come between
  them. `IsrStartBit`, `IsrDataBit`, `IsrStopBit`, `IsrDoneTick` are the four branches;
  `IsrNoStartBit`, `IsrNoTick` the interrupts that are only acknowledged.
* `soft_uart_dis` and `soft_uart_en` proceed one register at a time (`DisState`, `ClearTimerStatus`, ...).
* A byte is the set of its one bits; `state` the set of its flags. The receive handler is the
  application's: it takes the packet and gives the buffer back (`Deliver`).
* `sent`, `got`, `rest`, `disables` are observers.

### DeviceLed

One action per function, `Process` being split into its four outcomes (`PhaseGoesOn`,
`OnPhaseEnds`, `OffPhaseEnds`, `NothingToDo`). `Stored` is what `device_led_setup` makes of a
pattern with only one kind of phase; products are kept modulo 2^16 (`ShortMod`).
`asked`, `flashes`, `elapsed` are observers.

### FlashMemory and FlashDriver

`FlashMemory` says what callers may rely on. Each context has a job, `todo`: for every cell it
names, the bits to keep and the bits to set. `Piece` does some of the cells, or none if one of them is
protected (the chip refuses the command as a whole); `PowerLoss` leaves the cells of one call anywhere
between old and new and all others alone.

`FlashDriver` is the code and the chip.

* A call (`flash_read_data`, `flash_page_program`, `flash_lock_mid136085`, ...) is the list of commands it
  sends with its address, buffer and bits; the functions in the module have the names of the code. `Begin`,
  `WriteEnable`, `Command`, `WaitDone`, `Restore` are the steps of `flash_mspi_write_ram`, `Begin`, `ReadByte` or
  `ReadRegister`, `Restore` those of `flash_mspi_read_ram`. After `Restore`, `Rest` is what remains: the next page, or
  the next command of a sequence such as read status, change, write status.
* There are two contexts, the main program and its handler, and each has its own `pc`, `call`, `r` (what `irq_disable`
  returned) and buffer. `Interrupt` may come wherever `irq_en` is set; `SetIrq` is the
  program turning interrupts on and off itself.
* The chip: `nv` is what it keeps without power, `goal` what the operation under way makes of it, `busy` the polls
  until then. It ignores a write without the enable latch or to a protected cell (`Accepted`). Bytes and
  registers are sets of their one bits, so programming is intersection.
* `PowerLoss` at any step leaves `Torn`: bytes of the command anywhere in between; a register write
  old or new. `PowerOn` starts the program again.
* Two kinds of chip, told apart by `nv.mid`: P25Q40SU (`0x136085`), whose status has two bytes and whose
  lock and unlock first clear `wps` in the configure register, and P25D09U (`0x114485`), whose status has one byte and which
  has no configure register. A function for one chip is not called on the other (`on`). The drivers of the other two
  chips, `flash_mid1160c8.c` and `flash_mid1360c8.c`, have the structure of the second.
* `wanted` (interrupts as the program set them) and `locked` (the cells protected by calls that
  have returned) are observers.

### MacAddress

A byte is the set of its bits that are 1. `flash_page_program` is `WritePage`, one command per step; the chip
counts the address up within a page only (`Target`), which is why the code must split the write.
`Torn` is every flash a command cut short can leave. `PowerLoss` may come at any step and
leads back to `Boot`. `mac` holds the six bytes of the public address and the two drawn
bytes of the static random one, the rest of which are copies. `Flash` in `MacAddressProps` maps
the module's flash to `FlashMemory`: what the address code relies on is what the flash driver is
shown to provide.

### MyFifo

* `wptr`, `rptr` are the fields, `p` the slots. `GetSlot`, `NextSlot`, `Get`, `Pop`, `Reset` are
  one function each; `Fill` and `Use` are what their callers do with the slot in between.
  `my_fifo_push` is cut at the point where it has moved `wptr` and not copied yet (`PushBegin`, `PushCopy`).
* `irq` says which side is the interrupt: that side acts between any two steps of the other, the other
  only where the interrupt's calls are complete (`ProducerMay`, `ConsumerMay`).
* `Slot` is `% Num`: the mask of the code is the same for the powers of two it is written for. An
  element is opaque; `FullSize` are those as long as a slot, which `my_fifo_push` refuses.
* `BoundedQueue` is the abstract queue: `Put`, `Take`, `Clear`. `Contents` in `MyFifoProps` is the
  sequence that maps to it: the slots between the pointers, without the one still being copied.
  `last`, an observer, is what the consumer read in the slot it then popped.

### Timers

`reg_tmr_ctrl` is the set of its one bits; a call is the list of read-modify-writes it makes (`TmrWrites`),
each cut into `TmrRead` and `TmrWrite`, with the handler (`TmrIsr`, run to its end) and the hardware (`Expire`) in
between. The two bits of `Capture` stand for the watchdog's capture field, which `wd_set_interval_ms` clears and sets in
one write. `WriteBack` is the register: bits 24 to 26 are statuses, and one is cleared by writing it as 1.

### SpiMaster

A call is the list of its steps, `setup`, the byte writes and reads, `wait`; with DMA the hardware takes
the place of the byte steps (`TxDma`, `RxDma`). `Shift` and `Load` are the module on the other side of the FIFOs:
a byte in, a byte out. The slave answers with 1, 2, 3, ... so that a byte lost or taken twice shows in `rd_data`. `CpuAhead`:
the program keeps up with the bus, as it must, because `spi_rx_fifo_clr` comes after the transfer has started. `SpiSetup` is
therefore one step: what a full duplex call does after it has started the transfer comes before the first byte. It clears the transmit
FIFO for a write by DMA too, which the code does not and which finds it empty.

### I2cMaster

The registers `id`, `adr`, `do`, `di` and the commands written to the control register; `I2cCommand` is one of these with the
phases it starts, in the order of the hardware: start, id, up to three bytes, or one byte in, stop. The slave has a memory
with an address counter (`Receive`, `Send`, `Stopped`); it answers always. Bytes have 256 values and the address as many bytes as the
slave has, 0 to 3.

### UartBaud

`GetBetterBwpc` and `IsPrime` as the code computes them, loop bounds included, in tenths of a clock as
the code's integers are. `BaudAccurate` compares with the rate asked for.

### KeyScan

`keyscan_set_row` packs up to eight pins in fields of five bits, the column mask is a set, and the scanner
(`Active`) is electrical: a key joins its two pins, and a pin in both roles is always active. `UserColumn` is the
search through `g_keyscan_col`. The pins of rows and columns are set up through `gpio.c` (`keyscan.c:63-69`, `:117-133`)
and with a polarity (`:110-114`); both are taken to be right.

### AdcSample

The values taken so far, sorted, and `SortIn`, which two files contain a copy of. The observer `adc_taken` keeps the same values without an
order, as a set, each with how many equal ones came before it; the property takes the middle of these. `TakeSample` looks at a slot twice, for its
sign and for its bits; the ADC may have written in between, at most `TornReads` times in a sampling.

### FirmwareCheck

A CRC is what was fed to it: where it began, how far it has gone without gap, whether all bytes
were those that were signed. The initial value a call is given is 0, which stands for 0xffffffff, that value itself or another. `FwBlock` and `FwRest` are the loop and what follows it.

### Gpio

The registers by kind and group, each the set of its one bits. A call is the list of what it writes: a value
(`Assign`) or a read, change and write (`Change`, `Flip`), whose read and write are two steps, `GpRead` and `GpWrite`, with the amplifier's
callback, `PaIsr`, between any two. The observer `gp_asked` is computed from the names of the
calls alone, pin by pin (`Wants`), and `PinsAsAsked` compares. Calls and callback share one register, the levels of the amplifier's
group (`PaLevels`): a callback between the read and the write of a call for another pin of the group is undone by the write. The observer
`pa_undone` marks this, and the property then leaves open the levels of the amplifier's two pins, and nothing else, until the next
callback, which sets both. What the code cannot give is that there is no such moment. `GpWake` is a deep sleep with or without retention, and
`gpio_init` after it; no callback is active then, so `gpio_init` is one step.

### Drivers

The queue and the eight drivers share no state: each owns its registers, and in what is modelled no function of one calls a
function of another (the key scanner's set-up of its pins, the one that does, is left out). `Drivers` has `part`, which is chosen at the start and never changes, and the behaviours of
that part alone; one run then checks them all under the same configuration. What is
shared is listed as a hazard: interrupts kept off by the flash driver, and status registers cleared by read-modify-write.

The timer table, the LED and the address are called by the main loop one after the other and share the
system timer only.

## 3. Runs

| Run | Bounds | Shows |
|---|---|---|
| `soft_timer` | 3 slots, one callback function (it can be in several slots), intervals 1 and 2 on a clock of 15 ticks, callbacks that add and delete | `TypeOK`, `WakeMatchesHead`, `SortSorts`, `OrderedWhenIdle`, `NoneMissed` |
| `soft_timer_live` | 2 slots, callbacks `f` (never deleted) and `g` | `EveryTimerFires` |
| `soft_timer_long` | an interval beyond a quarter of the clock's range | `TimersInTurn` is violated |
| `soft_uart` | 3 bytes of 2 bits, buffer of 2 bytes, one disable | `TypeOK`, `InOrder`, `DeliveredInTime`, `OnlyCutWhenDone`, `RoomForByte`, `NeverStuck` |
| `soft_uart_full` | `data_size` equal to the range of `data_count` | `PacketFitsBuffer` is violated |
| `soft_uart_dis` | 2 bytes, one disable | `QuietWhenDisabled` is violated |
| `device_led` | 7 patterns of 2 priorities, a poll every 2 ticks (one per ms) at the latest | `TypeOK`, `OffWhenEnded`, `FlashesAsAsked`, `OnTime`, `PatternEnds` |
| `mac_address` | 1 random, 2 company and 2 further bytes of 2 bits, pages of 3 bytes, any number of power losses | `TypeOK`, `PublicStable`, `StaticStable`, `StoredIsUsed`, `UsesFlash` (the flash is used as `FlashMemory` allows) |
| `flash` | 2 pages of 2 one-bit bytes, 1 page of security registers, 12 calls of the main program and 2 of the handler, both chips, any number of power losses | `TypeOK`, `XipSafe`, `IrqKept`, `ReadWhole`, `LockedKept`, `OtherBitsKept`, `Implements` (`FlashMemory`) |
| `drivers` | see below | `TypeOK`, `Implements` (`BoundedQueue`), `HeldSlotKept`, and one property of each driver: `SettingsKept`, `SpiExchanged`, `I2cTransferred`, `BaudAccurate`, `KeysDecoded`, `MiddleAverage`, `ImageChecked`, `PinsAsAsked` |
| `spi_full_duplex` | one transfer of exactly a FIFO | `SpiExchanged` is violated |
| `timers_shared` | two timers, no handler | `TickKept` is violated |

Why the bounds are enough.

* Timers: three slots are the fewest in which a deletion in the middle of the walk moves a timer
  that is itself followed by another, and two passes of the sort are needed. The clock of
  15 ticks lets it wrap many times over; `Pre < Horizon < Post < Quarter < Modulus / 2` is the order of the
  real constants (128 us, 3 s, 4 s, 67 s, 268 s).
  With a poll every tick or so, `Post = 6` is the least that `PollsOften` allows for three slots, and `Quarter = 7` the least that
  `IntervalsShort` does for an interval of 2.
* UART: two data bits have a first that is not the last; two bytes fill the buffer, the third
  begins the next packet; a gap is counted past the timeout. The disable can strike at
  every step.
* LED: the two blinks have more than one repetition, every other kind of pattern is there, and a
  phase is never shorter than the longest time between polls, which `OnTime` needs: a call of
  process changes one phase.
* Address: the public address crosses a page; both pages are programmed.
* Flash: the main program's buffer of three bytes begins in the middle of a page and ends in the next, so a
  program is two commands with the handler between them; the handler programs and erases a cell of that
  second page. The area of each choice of protection bits includes none, a page, and everything (the complement bit).
  The status has a protection bit and another in each byte, so a bit not kept shows.
  An operation of the chip takes none or one poll (`MaxBusy`) of the two `flash_wait_done` allows (`MaxPolls`).
  Of the two contexts only the main program changes the status: if both did, the later write would undo the other's,
  which the code does not prevent and the hazard list says.
* Queue: four slots, indices modulo 8, so they go twice round the slots before they wrap; a wrap of one and not the
  other, and a full queue across it, both occur. Either side is the interrupt. The proofs lift the bound.
* Timers: two of the three timers and the watchdog, modes of both bits, a handler that acknowledges between any
  two accesses. `wd_start` touches timer 2, which is one of them. The watchdog's capture goes from one value to another that shares no bit with it.
* SPI: FIFOs of two bytes instead of eight; lengths 1 to 7 are below, between and at multiples of the FIFO,
  but not 2, which is the finding. Every transfer function with and without command, address and data.
* I2C: devices with no, one, two and three bytes of address; seven bytes of memory, of which 256 and 65536 are no multiples, so
  that every byte of an address such as 259 or 65541 counts where it is sent. Series of up to three bytes go past the end
  of the memory.
* Baud rate: 200 to 259 clocks per bit, in steps of 6 tenths, primes and squares of primes among the neighbours
  `GetBetterBwpc` tries, and 115200 baud at 16, 24, 32 and 48 MHz. With fewer than 124 clocks per bit the error may exceed the 2 %
  the property states.
* Key scan: three matrices, with eight, seven and two rows, so that unused fields of rows occur and do not; every
  choice of up to two keys, since three can show a fourth.
* ADC: codes of zero, two near each other and one below zero; up to two of eight slots torn, as many as are dropped on
  either side.
* Firmware check: blocks of 32 bytes instead of 256; sizes below a block, with a remainder of 4 and with one of 20; a
  damaged byte at every place but in the size itself; the three kinds of initial value.
* Pins: two calls after each start, so that the second finds the first's bits in the register; pins of groups A (the
  debugger's), B (the amplifier's), C (analog), D and F (whose registers are not where the formula of the others has them).
  PB7 shares its levels with the amplifier's PB2 and PB3 and is written, toggled, shut down and pulled up while the callback is on.

Each cfg checks deadlock; none of the systems stops.

### Fairness

* `EveryTimerFires`: the code between two calls goes on (`WF` on `Running`: it is straight-line code on one
  core); callbacks return, the main loop calls process and the system timer counts, however often
  the application adds and deletes (`SF` on `Returns`, `Process`, `Tick`: an add in between disables
  them only until its sort is done). No fairness is put on `Add` or `Delete`.
* `PatternEnds`: `WF` on `Process` and `Tick`. Nothing is assumed about the application, which may
  set up patterns for ever; it cannot keep the LED busy because a pattern in progress gives way only to a
  higher priority.

Liveness of the timers is checked for callbacks that return, re-arm and delete themselves
by their result, but do not call `delete` on the table themselves: with that the result of a callback
is applied to the timer that happens to be at its index, and a timer can be lost.

## 4. What the checks found

Each with a run that shows it:

* `TIME_COMPARE_BIG` compares with `BIT(30)` only, so timers more than 67 s apart are not
  ordered (`blt_soft_timer.h:50` against the comment at `blt_soft_timer.c:41-43`). The wake-up and the
  check of the head then belong to a timer that is not the next.
* A 260-byte buffer, the largest the comment allows, is never full for an 8-bit count
  (`software_uart.c:87-88`, `:200-202`).
* `soft_uart_dis` clears the interrupt statuses before it closes their sources
  (`software_uart.c:129-132`).
* A full duplex transfer of exactly eight bytes does not store the last one: the only chunk is also the first, of
  which one byte less than its size is read (`spi.c:657`).
* `reg_tmr_ctrl |= ...` and `&= ...` write back the statuses of the timers, which are cleared by writing 1: to start or stop one
  timer loses the interrupt of another that has just expired (`timer.c:297`).

Met while modelling, without a run of their own:

* Deleting the only timer arms the wake-up of the deleted timer (`blt_soft_timer.c:142-146`). `WakeMatchesHead`
  therefore says nothing of an empty table.
* A loss of power while the first address is written can leave one without the company
  bytes, and it is kept (`blt_common.c:53`, `:30-31`).
* `battery_check.c:104` waits for each sample without the limit `adc.c:273` has.
* `i2c_read_series` with a length of zero never ends (`i2c.c:301`).
* An image whose remainder is 1, 2 or 3 makes a length negative (`flash_fw_check.c:113`).
* `IsPrime` takes squares of primes for primes (`uart.c:48`), which costs a little of the baud rate's precision
  and no more.
* `if(addr)` in `spi.c:412` leaves the address register as it was when the address is 0; the runs use addresses
  other than 0.
* `gpio_is_input_en` reads a digital register for group C, whose input enables are analog (`gpio.h:356-359`).

## 5. Proofs

`SoftTimerProofs` proves, for every value of the constants that meets the three assumptions of
`SoftTimer` (a table of at least one slot, NULL is no callback,
`Pre < Horizon < Post < Quarter < Modulus / 2`):

* `TypeCorrect`: `Spec => []TypeOK`. With it every index stays inside the table and the trap of
  the sort is not reached.
* `WakeCorrect`: `Spec => []WakeMatchesHead`.
* `SortCorrect`: `Spec => []SortSorts`.

These follow from one inductive invariant `IInv`, the conjunction of

* `TypeOK`;
* `WakeMatchesHead`, inductive because `Delete`, the only operation that changes the head without
  sorting, arms the wake-up itself, and every other ends in a step that does;
* `ControlInv`: a callback's index is a slot, the table is not empty where `timer[0]` is read,
  and the two sort indices stay below `currentNum`. Without it `TypeOK` is not inductive: a
  step that writes `timer[i]` or swaps `pos` and `pos + 1` could be outside the table;
* `SortInv`: the bubble sort has put the `pass` latest events behind all others and the latest
  of `0 .. pos` at `pos`. It is stated for every base time from which the armed events lie
  within a quarter of the circle, because only then is `Big` an order; `BigIsLater`
  and `QuarterStep` turn the modular comparison into one of distances, and `LatestStep` is
  the step of the inner loop.

The lemmas go in that order: results of the helpers (`SubType`, `PlusType`, `ShiftDownType`, ...), the
initial state, one lemma per conjunct for the step (`TypeStep`, `ControlStep`, `WakeStep`, `SortInvStep`,
each with one case per action), then `Invariant`, from which the theorems follow.

Three more theorems have hypotheses, because the table is in order only as long as the main loop keeps up:

* `ServeCorrect`: `Spec => []ServeInv`;
* `OrderCorrect`: `Spec => []OrderedWhenIdle`;
* `MissCorrect`: `Spec => []NoneMissed`;

under `PollsOften`, which says that a timer may wait for `MaxTimerNum` calls of process and still count as expired, and
`IntervalsShort`, which says that an interval and that wait together lie within a quarter of the range. With the code's numbers
(4 timers, 128 us and 4 s of margin, `BIT(30)` ticks) that is a call at least every 0.79 s and intervals up to about 63 s.
`MCSoftTimerInTime` states that the constants of `soft_timer` meet both.

The argument is `ServeInv`. A call of process that finds the head due serves the head before it does anything
else, and callbacks can then only make the table shorter or add timers that are not due, so of the timers that have waited for
all but `n` calls there are at most `n` (`WaitInv`, a bound on a cardinality), and none has waited for more than `MaxTimerNum`. Hence all expiries lie within a
quarter from the `Oldest` (`EventInv`), where `Big` is an order and `SortInv` of the first part applies (`OrderInv`). `NoneMissed`
alone is not inductive: what keeps a timer from being missed is how many stand before it.

`DeviceLedProofs` proves, for any set of patterns and any bounds that meet `LedAssumption`:

* `TypeCorrect`: `Spec => []TypeOK`; `repeatCount` is decremented only in a phase, where it is not zero.
* `OffCorrect`: `Spec => []OffWhenEnded`, inductive with `TypeOK`: whoever makes `repeatCount` zero
  is in an off phase or turns the LED off.
* `FlashCorrect`: `Spec => []FlashesAsAsked` under `ProductsFit`. `FlashesSoFar` carries the count:
  the flashes begun and the repetitions left make up the number asked for. `ProductsFit` is
  needed: a product that is a multiple of 2^16 is stored as no phase at all, and the LED stays dark.
* `OnTimeCorrect`: `Spec => []OnTime` under `ProductsFit` and `PhasesFit`: no phase is shorter than the time between two
  calls of process, nor as long as the system timer's range. Both hold for an LED one can see; without the first a call would find
  two phases over and end one of them, and delays would add up. `TimeInv` carries it: the phases past and the lag
  of the one under way make up the time since the pattern was accepted (`LagInv`), and the lag starts anew with each phase,
  because `device_led_process` counts from `startTick` plus the phase and not from now. `MCDeviceLed`
  checks that its patterns meet both hypotheses.

`MyFifoProofs` proves, for every `Num` and `PtrMod` that meet `FifoAssumption` (`Num` divides
`PtrMod` and is smaller):

* `TypeCorrect`: `Spec => []TypeOK`, at most `Num` elements between the indices.
* `SlotHeld`: `Spec => HeldSlotKept`.
* `Refinement`: `Spec => Implements`: `NextSlot` and `PushCopy` are `Put`, `Pop` is `Take`, `Reset` is `Clear`,
  every other step stutters.

They rest on `IInv`: the producer's slot is the one behind the elements kept and holds its element once
filled (`ProducerInv`), the consumer's is the first of them and still holds what was read
(`ConsumerInv`), and all of those between the indices have been filled (`FilledInv`). The arithmetic is in
the first lemmas: two numbers less than `Num` apart have different remainders (`CellsDiffer`), and the
wrap of an index keeps its slot because `Num` divides `PtrMod` (`SlotWraps`, `CellNext`).
`OthersUntouched` joins them: a write of the producer's slot changes no element kept.

`SoftUartProofs` proves, for any number of data bits, size of buffer and length of the timeout that meet the assumption of
`SoftUart`:

* `TypeCorrect`, `RoomCorrect`, `StuckCorrect`: `Spec => []TypeOK`, `[]RoomForByte`, `[]NeverStuck`, with
  `soft_uart_dis` and `soft_uart_en` called at any time;
* `CutCorrect`: `Spec => OnlyCutWhenDone`;
* `OrderCorrect`, `DeliveredCorrect`: `Spec => []InOrder`, `[]DeliveredInTime` under `DataSize < CountMod`. Without it the
  byte count wraps before the buffer is full, which is the finding of `soft_uart_full`.

`ControlInv` ties the state word to what wakes the receiver: which of the pin's interrupt and the timer is on
(`WakeInv`). A receiver that was never turned off follows the line (`FollowInv`): it is as many bits behind as it owes ticks, one at most
(`ShiftInv`), and a start bit that has begun has left its edge pending (`GapInv`). `HeldInv` then accounts for every
byte: what was sent was handed over, is in the buffer, or is the one whose stop bit is still to be looked at.

`MacAddressProofs` proves, for every size of page and place of the address in the flash, and power lost at any step:

* `TypeCorrect`, `PublicCorrect`, `StaticCorrect`, `StoredCorrect`: `Spec => []TypeOK`, `[]PublicStable`, `[]StaticStable`, `[]StoredIsUsed`;
* `UsesFlashCorrect`: `Spec => UsesFlash`, that what the address code does to the flash `FlashMemory` allows.

`IInv` says of `flash_page_program` that between two pages what it sent is stored and what it has not is erased
(`WriteInv`, by `Paging`: the chip's address counter and the next address agree within a page); that what was
read is still in the flash where a decision rests on it (`ReadInv`); that a public address in use is never taken for an erased one
(`UsedInv`, by the assumption that a company byte has a bit 0); and that an address used once is in the flash and not written again (`FirstInv`).

`FlashProofs` proves, for every layout of pages, sectors and protected areas that meets `FlashAssumption` (pages and
sectors divide the flash; the longest operation takes fewer polls than `flash_wait_done` allows) and every set of calls that meets `CallsAssumption`
(a call to read names bytes that exist; the bits to write are among those to change):

* `TypeCorrect`: `Spec => []TypeOK`.
* `XipCorrect`: `Spec => []XipSafe`: no instruction is fetched from a chip that is selected or busy, in either
  context, wherever the handler comes and power fails.
* `IrqCorrect`: `Spec => []IrqKept`.
* `ReadCorrect`: `Spec => []ReadWhole`; `OtherBitsCorrect`: `Spec => OtherBitsKept`.
* `LockedCorrect`: `Spec => LockedKept` under `HandlerNeverLocks`.
* `ImplementsCorrect`: `Spec => Implements`: the driver and the chip are `FlashMemory`.

The invariant of the first three is `IInv`, in two halves with a lemma per action each. `CoreInv` is control: while one context is
within a command the other is not (`ContextInv`), what `irq_disable` returned is what the program had set (`HeldInv`), and the
chip is busy only while `flash_wait_done` polls, with `busy + polls` at most `MaxBusy`, so that the wait ends by itself before
it gives up (`ChipInv`). `IrqKept` alone is not inductive: a `Restore` in one context would need to know
that its `r` is still right after the handler ran; `HeldInv` says it is, because the handler cannot run in
between. `DataType` and `CommandInv` give the types of the data: the commands still to be sent are one of the few
`Lists`, each of which is followed only by what `Follows` says, so that a value is a status when a status
is written and a configure register when that is.

The others add to it what a call knows. `KInv` says, for each context, what a call has gathered so far: the bytes read are
those of the flash at one moment (`GotInv`), and a status or a configure register read has, but for the bits that lock and unlock
are for, still the chip's value when it is written back (`ValueInv`). Main program and handler may well come between each other's
read and write; but whatever writes these registers is one of `LockCalls` (`CallsAssumption`), and these leave all other bits
alone. `LInv` is that what a lock has returned from protecting is protected (`LockInv`), also while a second lock or an unlock is
under way (`HoldInv`). It needs `HandlerNeverLocks`: with an interrupt that locks, the later write would undo the earlier, which the code does not
prevent and the hazard list says; no code in the repository calls lock or unlock from an interrupt. For the refinement
`RInv` bounds the cells of a command, and each step is mapped: a call is a `Start`; the command the chip accepts, or its end in
`WaitDone`, a `Piece` or a `Protect`; a loss of power the abstract one; and every other step stutters (`StepMapped`).

`DriversProofs` proves of the program of `Drivers`, for all constants that meet the drivers' assumptions:

* `QueueCorrect`: what `MyFifoProofs` shows of the queue holds of it there.
* `SettingsCorrect`: `DriversSpec => []SettingsKept` under `HandlerOnlyAcks`, for all calls of the main program. `CallInv`: what is left of a
  call makes of the register what was asked for, and the value it holds is still the register's but for statuses.
* `ImageCorrect`: `DriversSpec => []ImageChecked`, for every block size that is a multiple of 16 and all images of 16 n + 4 bytes. The remainder
  is then at least 4 (`BlocksAndRest`), which the code relies on without a check, and `CheckInv` says that
  every byte below the present block has been fed once, from the initial value of this call.
* `BusCorrect`: `DriversSpec => []I2cTransferred`, for slaves of any size with up to three bytes of address and any series of
  calls. `I2cInv` says where the slave is after each command: how much of the address it has, where its pointer stands, and that
  the bytes still to be sent make of its memory what the calls ask for (`Writing`), or that those it has sent are the ones from the address
  on (`Reading`).
* `TransferCorrect`: `DriversSpec => [](spi_call.f # "full_duplex" => SpiExchanged)`, for FIFOs of any size. `SpiInv` accounts for every byte of a
  call (`Running`): what the slave has had, the shift register, the transmit FIFO and what is still to be fed are, one after the
  other, the header and the data; the caller's buffer and the receive FIFO hold 1, 2, 3, ... as far as the slave has sent.
* `BaudCorrect`: `DriversSpec => [](tenths >= 4500 => BaudAccurate)`. From any number of clocks per bit, rounding and the step away from a
  prime change at most one clock and the division by the best divider loses at most 8, which is 2 % of 450.
* `KeysCorrect`: `DriversSpec => []KeysDecoded`, for any matrix of up to eight rows without a pin twice, and up to two keys. `Scanned`: the hardware's FIFO is the keys pressed, each once,
  by an injective list of them, of which the program has read the first; a key value unpacks to the row and the column that
  the program set (`keyscan_set_row`, `UserColumn`).
* `AverageCorrect`: `DriversSpec => []MiddleAverage`. `AdcInv`: what `SortIn` has made is in order (`Sorted`) and is, one by one, the values taken
  (`Matched`); no more of these than were torn lie outside what was measured (`Measured`). Dropping two on either side is therefore enough
  for the two torn reads `AdcAssumption` allows.
* `PinsCorrect`: `DriversSpec => []PinsAsAsked`, for any calls that meet `GpAssumption`, with the amplifier's callback between any two accesses.
  `GpInv`: every bit is as asked, or a step still to be made makes it so (`AllDue`); no two of these steps change the same bit (`Once`); the
  function of a pin changes before everything else and the callback is switched on after it (`Ordered`); a value read and not yet
  written back is still the register's, or differs from it in the levels of the amplifier's pins, which no step then changes (`Free`).
  A write that undoes a callback is the write of a register that never had it: the invariant therefore speaks of a view of the pins
  (`Near`) which is what was asked but for these levels, and is exactly what was asked while `pa_undone` is false. `LevelsSwap` lets the
  register and the view change them together.

Where code builds a list, sorts or searches, the modules define the result as a function of its position, and the proofs argue from
a least element of a set, a maximum or an injection where one would use induction.

`Remainders` holds the facts about `%` and `\div` that the others cite.

What the theorems assume beyond each module's `ASSUME` is named in the theorem and met by the constants of the run that checks
the same property.

Every invariant of the passing runs is stated by a theorem. Only model-checked:

* the liveness properties `EveryTimerFires` and `PatternEnds`, which are beyond the prover;
* `SpiExchanged` for full duplex transfers: the theorem would need all lengths but the one of the finding, and the chunks of such a transfer
  are concatenated by a fold, whose result needs induction;
* `BaudAccurate` between 124 and 450 clocks per bit, where whether the best of the 13 dividers is good enough depends on the number itself.

## 6. Abstractions and what is not modelled

Abstractions:

* Interrupts are served within a bit interval of the soft UART. A flash write, which keeps
  interrupts off longer, is not composed with it.
* The radio calls of `soft_uart_send` are only a gap between two bytes.
* `soft_uart_RxSetFifo` is called by the receive handler, not from the main program.
* Erasing 64 KB, deep power-down, identification and voltage calibration of the flash are left out: the first differs from
  the sector's by its size, the others send one command that changes nothing modelled.
* A protected flash refuses a command that touches a protected byte as a whole.
* The LED's board variants are one on/off.
* `my_fifo_push` from a main loop whose interrupt consumes is left out: it hands out a slot that is
  not filled yet. `my_fifo_reset` runs with the interrupt kept out.
* Callbacks that are NULL are a branch of `LoopSkip`, but no run adds one.
* The slaves on the SPI and I2C buses answer always; the program keeps ahead of the SPI bus.
* The handler of `Timers` only acknowledges. One that starts or stops a timer could have its change undone by the
  main program's write, which the code does not prevent.
* With the amplifier's callback on, the main program of `Gpio` asks for no level of its two pins: these are the callback's. Other pins of
  their group it may change.
* Each value the ADC is asked for comes: the wait for it, with a time limit at `adc.c:273` and without one at `battery_check.c:104`, is left out.
* Images have 16 n + 4 bytes, as the comment on `flash_fw_check.c:101` has it, and the bytes that hold their size are right.
* The pins of the key scanner's rows and columns are set up, and their polarity is that of the matrix.

Not modelled:

* The slave's side of SPI and I2C, `spi_master_write_plus_fetch_flash`; the UART's data
  path, which is a byte moved between two registers; the interrupt settings of pins and of the key scanner; the 32 kHz watchdog,
  whose registers are the power manager's.
* Clock, quadrature decoder, smart card, board, analog registers, AES, emission tests, infrared, USB: registers written in
  straight lines, whose effect is the hardware's.
* Firmware signature (sixteen bytes compared after an AES of the binary library), printing, C library, boot code.
* The BLE stack, the power manager, OTA, random numbers and the radio: a binary library, of which there are headers.

The repository has 27,000 lines in C and headers. More than half are headers: register addresses and bit names (`register.h`,
1,775 lines), packet layouts and error codes of the stack (`stack/ble`), declarations for the library
(`rf_drv.h`), which have nothing to model. All the C files together have some 7,800 lines, comments included, and of these the
definitions here stand for about a quarter.

## 7. Plan

What is left, in the order of its use:

1. `TimerService`, an abstract specification: a set of timers with expiries, each fired no earlier than
   its expiry, in turn. `SoftTimer` implements it, as a further property of `soft_timer` on the poll bound that
   `NoneMissed` needs.
2. Proofs: `SpiExchanged` for full duplex transfers of any length but the FIFO's, with the chunks as a function of their number; `BaudAccurate`
   for fewer than 450 clocks per bit.
3. The flash driver and the soft UART in one module, with interrupts off for as long as a command takes, and ticks that merge.
4. `Qdec`, the calibration of the 48 MHz oscillator (`clock.c:150-203`) as a search against an oscillator that is monotonic, and
   the pins' interrupts, whose polarity registers are shared with all other pins of a group.
5. The slave's sides of SPI and I2C, and the dma of the UART.
