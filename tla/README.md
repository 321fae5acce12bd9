# Slightlight, specified

Slightlight estimates where LED-lit devices are from the strength of the radio
signals between them. The firmware on each device sends a *beacon* now and then:
its address, its GPS position, and the strength at which it last heard each
neighbour. Every device logs the beacons it hears on a serial port; scripts on
a host turn the logs into positions and a browser shows them.

This directory has TLA+ specifications of the firmware's logic, TLC
configurations that check them on small instances, and TLAPS proofs for all
instances. Paths below are relative to
`src/firmware/Turtle_RadioShuttle/` unless they start with `src/`.

## The system

The firmware runs on one STM32L432 core under mbed, without threads. There is
the main loop (`SX1276BasicTXRX`, which never returns) and there are interrupt
handlers: the radio's DIO0 pin, the radio timers, a 500 us timer that reads the
GPS, the UARTs and USB. A handler runs to completion between two instructions
of the main loop; handlers do not interrupt each other. There is no watchdog
(`WatchDogUpdate` is empty) and nothing but these interrupts wakes the node.

| Component | State | Operations | Talks to | Hard part |
|---|---|---|---|---|
| Main loop, `SlightlightProtocol.cpp` 538-690 | mailbox `State`, `Buffer`, `BufferSize`; `lastSendTspMs` | open a window, take a report, send a beacon | driver (calls), callbacks (mailbox) | report lost or overwritten; node silent for ever |
| Radio callbacks, 692-757 | the mailbox | OnRxDone, OnRxError, OnRxTimeout, OnTxDone, OnTxTimeout | main loop, driver | run in interrupts at any step |
| Radio driver, `sx1276.cpp` | `settings.State`, three timers | Rx, Send, Sleep, OnDio0Irq, OnTimeoutIrq | chip (SPI), callbacks | timer and DIO0 racing; edge-triggered pin |
| Radio HAL, `sx1276-mbed-hal.cpp` | SPI, timers, pins | Read, Write, SetTimeout, Reset | chip | SPI transfer cut by an interrupt |
| Neighbour cache, 151-331 | `cache`, `numNodes`, the static packet | on_packet, clean_up_unresponsive_nodes, craft_packet | main loop | clock that wraps; compaction in place; capacity |
| GPS, `main.cpp` | `gpsLatitude_d`, `gpsLongitude_d`, line buffer | gpsProcess, on_gps_message, message handlers | UART, craft_packet | position copied and cleared while it changes |
| USB log, `USBSerialBuffered.cpp` | `m_buff`, `m_irq_buffused` | _putc, flush, vprintf_irqsafe | main loop, every handler that logs | compare-and-swap against interrupts |
| UART port, `BufferedSerial`, `MyBuffer.h` | two ring buffers | putc, write, getc, txIrq, rxIrq | log, GPS | overwrites when full; several producers |
| USB port, `USBSerial`, `CircBuffer.h` | receive queue | EPBULK_OUT_callback, _getc, available | console | queue drops its oldest from the interrupt |
| USB stack, `USBDevice.cpp` | control transfer, endpoints | setup, data and status stages | host | stages out of order |
| Properties, `NVProperty*` | RAM list, flash log, OTP log | Get, Set, Erase, Reorg | console, protocol (device id) | power loss while a row is rewritten; full log |
| Console, `Utils/utils.cpp` | pending-interrupt bits | VAprintf, ConsoleReadline, RunCommands | serial ports | idle wait against a new bit |
| Host scripts, `src/parse_log.pl`, `src/optimisation`, `src/websocket` | - | parse, calibrate, draw | logs | numeric |

What makes each correct:

- *node*: one radio activity at a time, each ends in one report, each report is
  taken once; while nothing is reported something is armed that will report; a
  beacon goes out again and again;
- *neighbour cache*: one entry per node with its newest reading, nobody
  forgotten who was heard lately, a beacon lists exactly the table;
- *GPS*: a position is sent once, newest last, and is one position;
- *log*: bytes leave in order, none lost but by a full buffer;
- *ports*: a byte put and not overwritten is got once, in order;
- *properties*: Get returns the last value Set, also after power loss and
  reorganisation.

`PROJECT.json` lists every component with its status and every hazard with its
line and the properties that would catch it.

## Modules

| Module | Models | Kind |
|---|---|---|
| `BeaconNode` | one radio activity, one report | abstract |
| `RadioNode` | main loop, driver, interrupts, chip, channel | detailed, implements `BeaconNode` |
| `NeighbourTable` | a bounded table of neighbours with time-out | abstract |
| `NeighbourCache` | on_packet, clean-up, craft_packet, the wrapping clock | detailed, implements `NeighbourTable` |
| `LogPipe` | a bounded queue of bytes | abstract |
| `UsbLog` | USBSerialBuffered | detailed, implements `LogPipe` |
| `GpsLine` | gpsProcess, on_gps_message, parse_csv_no_copy | detailed |
| `GpsFix` | message_handler_gprmc against craft_packet | detailed |
| `MyBuffer` | the ring buffer of a UART | operators |
| `ByteQueue` | a queue of bytes that hides everything when overrun | abstract |
| `SerialReceive` | rxIrq against getc | detailed, implements `ByteQueue` |
| `SerialSend` | write, prime and txIrq, by the main program and by interrupts | detailed |
| `UsbReceive` | CircBuffer, EPBULK_OUT_callback against _getc and available | detailed |
| `UsbDevice` | USBDevice, USBCDC, the endpoints of USBHAL | detailed |
| `PropertyMap` | a map of properties with power losses | abstract |
| `PropertyLog` | entries, their lengths, finding them | operators |
| `FlashStore` | NVProperty_MBEDFlash and NVProperty_L4OTP | detailed, implements `PropertyMap` |
| `PropertyStore` | NVProperty over RAM, flash and OTP memory; NVProperty_SRAM | detailed |

`MC...` modules give a specification the constants of its run; `...Proofs` modules
hold the theorems: `RadioNodeProofs`, `NeighbourCacheProofs`, `UsbLogProofs`,
`PropertyStoreProofs` about the module they are named after, `GpsProofs` about `GpsFix`
and `GpsLine`, `SerialProofs` about `SerialReceive` and `SerialSend`, `UsbProofs` about
`UsbReceive` and `UsbDevice`, `FlashProofs` about `FlashStore` and `PropertyLog`. Where one
of them is about two modules, the names of one carry a prefix (`FixInit`, `RxNext`).

The definitions marked *faulty variant* or *variant* are not part of a
specification: each is a bug that the action or helper after it could have, kept
to show that the checked property would notice.

### RadioNode

`pc` is the next step of the main loop. `Radio->Rx` and `Radio->Send` take three
steps each, since an interrupt between routing DIO0, arming the timer and
switching the chip matters. Every `case` of the switch is an action
(`SwitchRx`, `SwitchTx`, `SwitchRxTimeout`, `SwitchIdle`); the polls at the top
of the loop appear as the time they hold the SPI bus (`pc` = "spi").

An interrupt handler is one action with the callback in it: `Dio0RxDone` is
`OnDio0Irq` with `OnRxDone` and `Sleep`, `TxTimeoutIrq` is `OnTimeoutIrq` with
`OnTxTimeout` and the `radio_init` it calls. `exti` is the latched edge of DIO0;
`Goto` lets the main loop step only when no edge is latched, for the core serves
it first. Timers fire when they like.

The chip is modelled from how the driver uses it: `flags` is RegIrqFlags, `dio0`
the flag the pin shows, and an edge arises only when that flag rises
(`Route`). Whether the chip keeps the flags in sleep mode is not to be seen in the
code; `clearsIrq`, chosen at the start, is both kinds of chip.

`Read` and `Write` hold NSS low without disabling interrupts, so a handler may come in
the middle of a transfer of the main loop (`Cut`). Its first access to the chip then ends
that transfer: a write is lost (`ClearRxDone`), and what is read may be anything (the
error flags in `Dio0RxDone` and `Dio0RxError`, the length of the packet in `Length`).
`Sleep` reads RegOpMode and writes it back with another mode; `garbled` says that it
wrote back what such a read gave it for the other bits, the LoRa bit among them. The
mode itself is masked out and set anew, so that is right. In a garbled chip the registers of
the LoRa modem may be out of reach from then on (`Unsure`). Only `radio_init`, after a
transmission that timed out, resets the chip.

*Timing assumption.* `Settled` keeps a window or a transmission from ending
before the main loop has executed the statement after `Radio->Rx` or `Send`. The
shortest window is 152 ms (`SlightlightProtocol.cpp` 127) and a beacon takes tens
of milliseconds on air, the statement microseconds. With `QuickEvents = TRUE`
the assumption is off; then line 665 wipes out a report and `WakeupArmed` and
`MailboxNotOverwritten` fail, which is why the hazard list has it.

### NeighbourCache

`Tick` advances the true time and `now`, which wraps at `Wrap` as `get_ms` does at
4294967, while differences are taken modulo `Word` (2^32). `For`, `RemoveNode`,
`KeepNode` and `CleanUpDone` are the clean-up loop: the head with the work-around
for the wrap, the inner `while`, the `memcpy`, the two ways out. A strength is
represented by the moment it was measured, so that "the strength listed is the
newest" and "is not too old" can be said. In the middle of a clean-up `Live` is
the slots kept and the slots not looked at yet; the abstract table is what they
hold, so an entry copied and not yet passed, or passed and not yet copied,
counts once.

*Assumption* `MaxGap <= Timeout`: beacons, and so clean-ups, are at most
NODE_TIMEOUT_MS (180 s) apart. A node that hears packets all the time is kept from
sending longer than that; then a silent neighbour may stay longer, and after a
wrap be stamped afresh. The other two assumptions, `3 * Timeout < Wrap` and
`Wrap + 2 * Timeout < Word`, hold of the real 180000, 4294967 and 2^32.

### UsbLog

One step for each access to `m_irq_buffused`, `m_buff` or the endpoint: `Load`,
`Reserve` (compare-and-swap), `Store`; `FlushDone` (compare-and-swap with 0),
`Fetch`, `WriteBlock`. `IrqPrint` is `vprintf_irqsafe` in a handler, with the
formatted length as its argument; it can run between any two of them. The
refinement counts a reserved slot as holding its byte already, and a block as
gone when `flushedbytes` has passed it.

The buffer must be at least the mark longer than what the main program may fill
(4096 against 64 + 4). The assertion in the constructor asks less; the only
instance in the code (`Utils/utils.cpp` 39) satisfies the assumption.

### GpsLine and GpsFix

`GpsLine` takes the characters one at a time (`Store`, `CarriageReturn`,
`NewLine`), then `on_gps_message` in place: `MarkLast` turns the last star into a
comma, `Cut` and `Skip` are the two branches of the loop of `parse_csv_no_copy`,
`Handle` and `Return` the handler and what follows. `line` is a history variable,
what the receiver sent; the properties compare `buf` and `argv` with it. A handler
that reads `argv[13]` of a sentence with fewer fields (`main.cpp` 123) reads a
pointer nobody set; the receiver sends no such sentence, and it is not modelled.

In `GpsFix` a coordinate is the number of the sentence it came from.
`craft_packet` copies latitude, copies longitude, clears latitude, clears
longitude in four steps, and `OnGprmc` may come between any two. Reading one
double counts as one step: an interrupted LDRD starts again. A sentence whose
flag is not A is logged as ignored (`main.cpp` 143), but the `return` behind is
commented out and it is stored like any other: so it is in the model.

### The UARTs: MyBuffer, SerialReceive, SerialSend

`put` and `get` move their location with three accesses to a volatile variable
(`_buf[_wloc++]`, then `_wloc %= ...` reads and writes it again); `stage` is how far
the main program is. The byte itself is not volatile: it may be stored or loaded at
any moment after the location was read, and the actions let it. Interrupts run
between any two accesses, to completion.

An interrupt of `SerialSend` is a few steps while the main program stands still
(`handler`): the puts of a message that is logged (`IrqPut`), `prime` with room or without
(`IrqPrime`), a byte that `txIrq` hands to the hardware (`IrqSend`) and its end (`IrqSent`).
The hardware goes on sending between them (`Shift`).

*Receiving* has one producer, the interrupt, and one consumer. Locations wrap one
element early, so that the one the interrupt writes is never the one being read -
until the buffer is full: the byte too many makes the locations equal and the
queue empty (`Overrun`). The main program asks `readable` and calls `get` afterwards,
which does not ask again (`Utils/utils.cpp` 222-223). If the byte too many comes between the
two, `get` takes from an empty buffer and its location passes the other one: the
bytes the overrun had hidden are there again. `ByteQueue` has this as `TakeBack`; `told`
and `lost` are what the reader knows and what would come back.

*Sending* has producers on both sides, because callbacks in interrupts log too
(`dprintf`). `prime` turns the transmit interrupt off, empties the buffer into the
hardware itself and turns it on again. Whatever two producers do to each other's
bytes, `NothingStuck` holds: the transmit interrupt stays attached while bytes wait.
`orderly` is the history of everything that may disturb the bytes: an interrupt that logs at all, a message that fills the buffer up, and
a transmit interrupt between the two writes with which `put` wraps its location
(it then finds a location one behind the last element used), or before the byte
is stored. The code guards against none of these.

### The USB port: UsbReceive, UsbDevice

`UsbReceive` has the receive queue at the same grain. The interrupt takes a packet
(`EPBULK_OUT_callback`) and queues its bytes one by one (`queue`); the main program
goes on when none is left. Here the interrupt moves the consumer's index when the
queue is full. `available` reads two volatile variables
up to twice each (`poll1` to `poll3`); `isEmpty` reads them one after the other, in the loop
of `_getc` (`Wait`, `Waited`) and again in `dequeue` (`Ask`, `Nonempty`), which then reads
`read` once more (`Take`). An overrun between the two loads of `isEmpty` can move `write` to
where `read` was: the full queue is taken for empty, `dequeue` takes nothing, and `_getc`,
which ignores that, returns a 0 (`NothingRead`). `late` tells that the
build loaded the byte after moving `read`, where the interrupt may overwrite it:
then a byte can be read twice.

`UsbDevice` is the control endpoint: `controlSetup`, `controlIn`, `controlOut`, the
standard requests and those of the serial class, as functions on a record `d`, with
`Setup`, `DataIn`, `DataOut`, `StatusIn`, `StatusOut` and `busReset` the interrupts. The
host keeps to its side of the protocol, and may give up at any stage. A descriptor
is told by its length, a packet by how long it is; the model has a packet size of 3,
so that the lengths asked for and available are shorter, equal, longer and a
multiple. `write` in the main program polls between interrupts. `Prompt` says that
when a bus reset or configuration 0 has unconfigured the device, it polls before the
host configures it again, which takes milliseconds; otherwise a write whose transmission
was cancelled finds the device configured and waits for ever. Only `WriteEnds` needs
it. A host may configure a configured device again at any time: that opens the
endpoints anew and the packet waiting in one is gone (`Revokes`, `revoked`).

### Properties: PropertyLog, FlashStore, PropertyStore

Flash is a function from pages to cells, page 0 the header; an entry takes the
pages its length, padded, needs (`EntryPages`), the others being `Data`. A value is
a number or a length: what is in a string is never looked at. `FlashStore` has the
constructor (`Open`, `Format`), the changes (`SetProperty`, `EraseProperty`,
`ReorgProperties`), `_FlashWrite` a page at a time and `_FlashReorgEntries`, with a power
loss between any two flash operations: an entry that does not count is passed (`Skip`),
one that does is copied (`Collect`), or copied and fills a row (`CollectRow`), which is
erased and programmed (`Erase`, `Program`) before the scan goes on (`Advance`); what is
left at the end of the log is the last row (`ScanEnds`), and the rows behind are erased
(`Clear`). `Advance` reads the length of the entry just copied from where it was (line 712).
If the row written in the meantime has the inside of a value there, the length is
anything and the store is `damaged`. `medium` chooses the store: one-time programmable memory is initialised
by a header alone, is written without looking and never erased, and refuses every
change when it is full. The refinement shows a change when its operation returns,
and after a restart as what was written. A power loss in a reorganisation is
marked `damaged` too, and `PropertyMap` promises nothing afterwards: the code keeps the
collected entries in RAM alone. It does not let `damaged` excuse more than that: its step
`Spoil` needs a value of several pages in the store, and its operations answer at once
(`Answer`) only with yes for what is stored already or taken for it (`Confused`), with
"no such property" for what is missing, or for lack of room. The row-rewriting branch of
`_FlashWrite` is reached only after such damage.

`PropertyStore` has the lookup order, the permission, opening and closing, and the
store in RAM: numbers with a low and a high half in a union, strings and blobs in
blocks of the heap, copied, freed and given out as the code does. A caller releases any
string it was given, as `NVProperty.h` 80 tells it to: the copies of those in flash or
OTP memory (`given`), and the store's own blocks of those in RAM (`lent`); `misreleased` is
the history that the latter has happened.

## Runs

| Run | Question | Bounds | Distinct states |
|---|---|---|---|
| `node_safety` | is any report lost, overwritten or taken twice, can an open window always raise its interrupt, does the node implement `BeaconNode` and beacon for ever, also when deaf? | 3 packets of others, both kinds of chip | 205 296 |
| `carrier_sense` | does listen-before-talk wait? It does not. | 1 packet | violation |
| `neighbour_cache` | is the cache a table, over a wrap of the clock, whatever is removed? | 4 nodes, 3 slots, time-out 2, wrap at 7, 11 time units | 1.6 million, up to renaming nodes |
| `usb_log` | is the log one queue? | block 2, buffer 4, mark 2, messages to 3, 7 bytes | 854 214 |
| `gps_fix` | is a position sent once and whole? | 5 sentences, any number of packets | 6 209 |
| `gps_line` | does a handler get the fields of one whole line? | 4 kinds of character, buffer of 5, 3 fields, any number of lines | 11 758 |
| `flash_store` | is the log a map, and does every operation end? | 3 keys; a number of one page and a text of two, whose length it is; 6 pages in 2 rows; 1 power loss; flash and OTP | 257 633 |
| `property_store` | is what is read what the first store holds, and is the heap in order? | 3 keys, one of each type; a number, two texts, a blob; 2 blocks | 496 192, up to renaming blocks and texts |
| `serial_receive` | is the receive buffer a queue? | 5 elements, 2 different bytes, any number | 5 888 |
| `serial_send` | is anything stuck, and does it leave in order? | 4 elements, hardware takes 2, messages of 3 and 2, 5 bytes | 666 095 |
| `usb_receive` | is anything lost, doubled or left behind? | queue of 3, packets to 3, 9 bytes | 119 554 |
| `usb_device` | is the host always answered, in full, and does a write end? | packets of 3, 6 requests and resets | 183 091 |

The type invariants of `RadioNode`, `NeighbourCache`, `GpsFix`, `GpsLine` and
`SerialReceive` are proved, so that the runs need not check them. Those of the other
modules are a part of `LogInv` (`UsbLog`: with `OutInOrder`; `FlashStore`: with
`Aligned` and `WithinStore`), `StoreInv` (with `HeapOwned`), `SendInv` (`NothingStuck`), `ReceiveInv`
(`LostOnlyWhenFull`) and `DeviceInv` (`Receives`), which the runs check and the proofs
show as well. Every safety invariant that a run checks is proved.

*Why the bounds are enough.* `RadioNode`: one packet that the window misses or loses,
one whose handling overlaps the next, and a third after a deaf window; the other
variables are finite and return. `NeighbourCache`: the clock wraps once with entries of
every age on both sides and runs on long enough for an entry stamped afresh to time
out; four nodes fill three slots, and the first, the middle, the last and any two of
them are removed. `UsbLog`: seven bytes allow main and interrupt bytes in one buffer, a
full buffer while a flush is under way, and a second round after it. `GpsFix`: a
coordinate lives for two crafts at most, and five sentences can hit five different
gaps of them. `GpsLine`: lines shorter than, as long as and longer than the buffer, with
as many, fewer and more fields than fit. `FlashStore`: the header and four pages of live
entries fill the first row of three and two pages of the second, so a reorganisation carries
entries and parts of entries from row to row, the last entry of a row is one that came
from it, and the log fills again; the number is taken for the text of its length.
`PropertyStore`: two blocks are enough for one to be freed, taken for something else and
freed again. The two
buffers of the UART wrap more than once and overflow. `UsbReceive`: three packets fill
the queue and overflow it by every number of bytes while the main program is at any
step. `UsbDevice`: six events are a reset, an address, a configuration, a terminal, and
two more at any stage. The theorems hold for all bounds.

*Symmetry* is used where only safety, and refinement of a safety specification, is
checked, and where nothing orders or names the permuted values: nodes in
`neighbour_cache`, blocks and texts in `property_store`.

*Fairness.* `RadioNode`: the core runs, a latched interrupt is served, an attached timer
fires, five seconds pass. Nothing is assumed of other stations but that they stop
(`MaxPackets`): every packet restarts the window, so steady traffic keeps a node
silent, and the property would be false without it. `SerialSend`, `UsbReceive`,
`UsbDevice`: the main program goes on, hardware sends, an interrupt that is
attached is taken, a host takes what waits for it. In `SerialSend` the main program,
which stands still in every interrupt, needs strong fairness, and interrupts end
(`[]<>(handler = "none")`): the loop of `txIrq` is faster than the hardware, which makes
room a character time later. `FlashStore`: an operation under way goes on, with power
losses bounded; the weak fairness has its ENABLED written out, which is sound because
every step changes `pc`, `p`, `row`, `off` or `todo`.
This is what a single core without threads gives.

*Deadlock* is checked, except in `serial_send` and `usb_device`, whose bounds (bytes to
write; requests and resets) let the program come to rest. `Silent` in `UsbLog` lets the
program have nothing to print, and only then may it stop.

*What the violation says.* The loop at `SlightlightProtocol.cpp` 648 waits while a
signal is pending, but OnRxTimeout has put the radio to sleep, so `RxSignalPending`
returns false (`sx1276.cpp` 944) and the beacon goes out over another station.

## What the properties do not promise

Where the code does not keep what one would expect, the property says for what
it holds. These are worth knowing beside the code:

- *Reorganisation loses properties* (`NVProperty_MBEDFlash.cpp` 694-712). When the row
  that is full is the one the entry came from, line 712 takes the entry's length from
  the bytes just written there. If these are the inside of a value of several pages, the
  scan goes on at the wrong place and the entries behind are not copied. The run reaches
  this; `RefinesPropertyMap` excuses it (`Spoil`), and says that it is the only way a
  reorganisation loses anything: without values of several pages, every property is kept.
- *A string of 255 characters* is stored with length 0 (line 400, one byte) and not
  read back. No run has one, and `StoreIsAMap` excludes it by `Storable`.
- *Setting a number* equal to the length of a stored string or blob, or to the code for
  "not found", writes nothing and says yes (line 316). `PropertyMap` says so
  (`Confused`), the run has the first case; TLC cannot hold the code, whose case only the
  theorem covers.
- *Power loss in a reorganisation* can lose every property; nothing protects it.
- *RAM store*: setting a 64-bit number again changes its low half (`NVProperty_SRAM.cpp`
  115), a negative int is read as a large positive number by `GetProperty64` (69), a
  blob is never found (`NVProperty.cpp` 169), and an opened store refuses to be closed
  (`NVProperty.cpp` 345). The model has all of these; `FirstStoreRead` excludes blobs, and
  the run has no 64-bit key and no negative number.
- *A string in RAM is freed twice.* `NVProperty.h` 80 promises the caller a copy to be
  released with `free`; the store in RAM gives out its own block (`NVProperty_SRAM.cpp` 81),
  and the next set or erase frees it again (142, 194), whoever has it by then. The caller
  cannot tell. `HeapOwned` and, for strings, `FirstStoreRead` hold until a caller does as
  it is told (`misreleased`).
- *A full UART buffer* looks empty, and what it held is lost (`MyBuffer.h` 133); a logging
  interrupt, or a transmit interrupt while `put` wraps, can send bytes twice or that
  were never put. `InOrder` excludes these by `orderly`; `Drains` says nothing once an
  interrupt has logged (`shared`). `SendInv`, that the transmit interrupt stays attached,
  holds for all of it.
- *A halted endpoint* makes `write` wait for ever (`USBDevice.cpp` 847), and so does a host
  that configures the configured device again while the packet waits; `WriteEnds` says
  unless `revoked`. A terminal that reports itself ready twice takes the deep sleep lock
  twice and releases it once (`USBCDC.cpp` 76): `LockHeld` states the other half. A
  refused configuration number is kept (`USBDevice.cpp` 308), and read back.
- *A deaf node*: a chip that keeps its flags in sleep mode can leave DIO0 high, so that
  every later window hears nothing. `CanHear` is about the other kind of chip, and not about
  one whose mode register was garbled when a handler put it to sleep in the middle of an SPI
  transfer (`sx1276.cpp` 1187): that one, too, may be deaf in every window, until a
  transmission times out and the chip is reset. `KeepsBeaconing` and the other properties
  of `RadioNode` hold for all of them.
- *A byte loaded late* by `dequeue` can be one that the interrupt has just put over it,
  and is then read again. The order of load and increment in `buf[read++]` is the
  compiler's; `ReadInOrder` is about builds that load first (`late` stays false). That
  only a full buffer costs bytes holds for both. *A 0 nobody sent* is what `_getc` returns when
  an overrun makes `isEmpty` take the full queue for empty (`USBSerial.cpp` 37);
  `ReadInOrder` says it needs the overrun.

## Proofs

Everything listed in `PROJECT.json` "theorems" is proved by tlapm for all values
of the constants that the `ASSUME`s allow.

*RadioNode.* `NodeInv` is `TypeOK`, `EveryBeaconOnce` and three strengthenings.
`DriverInv` says which steps of the main loop go with which driver state, timer
and chip mode: a handler's effect depends on them, and `WakeupArmed` and
`TimersMatch` follow. `MailboxInv` says what `State` can be at each step; its core is
that in the polling loop the mailbox is empty exactly while the radio works, so
a handler that fires finds it empty. `FreshInv` says a packet still in the air or
in the FIFO was not stored yet, which "exactly once" needs. From `NodeInv` follow
the four properties, and step by step that the node implements `BeaconNode`.
`CanHear` needs `HearInv` beside it: for a chip that clears its flags in sleep mode,
where RxDone can still be up in each driver state, and that DIO0 is routed to it
wherever a window opens.
`TypeCorrect` needs no timing assumption, the rest has `~QuickEvents` as a
hypothesis.

*NeighbourCache.* `CacheInv` is `TypeOK`, `CacheUnique`, `ScanInv` (indices and
what the entries kept so far satisfy) and `AgeInv`: each live entry is *direct* (its
stamp is its true age), *wrapped* (from the last turn of the clock) or *refreshed*
(stamped afresh by the work-around). The clean-up tells them apart only by
`ElapsedMs`; that it removes no entry heard within the time-out is
`RemovedIsSilent`, where the three assumptions on `Timeout`, `Wrap` and `Word`
are used. The refinement rests on `KeepLive`: the slots in use before and after a
move correspond one to one.

*UsbLog.* `StepInv` bounds what the main program has read of `m_irq_buffused` by what
the interrupts have made of it since. `OrderInv` orders all there is: what has left,
the slots between `Left` and `m_irq_buffused`, and the byte `_putc` still holds,
which comes after every slot of the main program. `LogInv` follows, and so does,
step by step, that the log is a `LogPipe`: `Reserve` puts the byte or, when an interrupt
came between, nothing; `WriteBlock` takes a block out of the front; a print that does
not fit is cut and marked.

*GpsFix.* `Unsent`: a stored coordinate is newer than those sent, or is the one in
the packet and about to be cleared. `Paired`: what an undisturbed craft starts from
is one position.

*GpsLine.* `IInv` is `TypeOK`, `HoldsLine` and, while a line is cut up, that the
terminators in `buf` are exactly the cuts passed so far and `argv` the fields that
begin behind them; at its end no cut is left, which is `FieldsOfLine`. It holds for
every length of buffer, line and `argv`. `ErrorOnlyWhenMany` counts with it: at a
separator, the fields but the first, and the separator, are one to one with cuts.

*SerialReceive.* `RecvInv` says what the location and the byte loaded are at each
access of `get`. The refinement is a mapping with a byte taken at the access that
moves the location; its lemmas say what `put` and `get` do to the sequence
`Unread` of a ring of any size, and that a byte too many empties it, and hides what is
`lost` from then on and comes back when `get` moves its location past the other.

*SerialSend.* `WakeInv` gives `SendInv`: where the main program is in `put` or `get` and what
it has read there (`Places`), and that bytes that wait have the transmit interrupt
attached, or the main program is on its way to attach it (`Wakes`). `InOrderInv`, while
`orderly`, has the whole path of a byte: the ring holds the numbers between the last one
sent and the last one put (`Ring`, `InRing`), the one the main program holds fits at the
end it was taken from (`Hands`), nobody else is at work on the ring while it is
(`Alone`), and a location that comes round stops before the other (`ComesRound`). The
lemmas before them are about places round a ring of any size.

*UsbReceive.* Bytes are numbered as they come, and byte r is stored at (r - 1) % size.
So a location stands for the byte stored last before it, `Before(r, p)` when r bytes
have come. For a fixed location that number never goes down (`BeforeGrows`), and where the
interrupt moves `read` it goes up too (`ReadGrows`): even a stale `read` that the main
program writes back over the interrupt's stands for a byte later than the last one
read. That is `OrderInv`. `LossInv` says that until a byte finds the buffer full, the
location is exactly that of the next byte; `ReadyInv`, that while the queue is empty
the operands `available` has read so far agree. The lemmas before them are about rests
modulo any size.

*UsbDevice.* `InStage` and `OutStage` say what is under way in each data stage: what the
host has, what is in the endpoint and what remains add up to the answer, every packet
but the last is full, and the empty packet follows exactly when the host asked for
more and the last was full. `Becomes` is what every helper does to the device (it
stays `Sound`, and does not touch the request); one lemma per request and stage shows
it and what it prepares, and `SetupIs` puts them together. `SentWhenTrue` needs
`WriteInv`, that a write under way has `written = 1` only from the host's taking; none of
the theorems needs `Prompt`.

*PropertyStore.* `StoreInv` needs that the blocks of the store in RAM are not those the
callers were given (`Apart`); the proof has one lemma for each thing done to the heap.
`FirstStoreCounts` is about every set of keys and values in which numbers are no larger
than an int and not negative, and no key is a 64-bit number (`Small`, `Whole`): what the
store keeps of them is what was set (`Remembered`). The code does not keep what lies
outside, see above.

*FlashStore.* What a log means is defined by recursion along its entries. Recursive
functions have to be shown to exist before anything can be said of them, and the
induction theorems of the library cannot be used here; but a set of numbers has a least
element (`LeastOf`), so that a set of pages that contains each page when it contains all
behind is the whole log (`Downwards`), and a recursion that goes forward has a solution
(`RecursionSolved`). From these follow the laws of the walk: it ends at one place
(`WalkEnds`), depends on the pages it visits alone (`WalkSame`), and programming the
pages of a value one by one moves its end once, with the first (`WalkExtended`).
`StoreInv` is `TypeOK` and, for each phase, what is in flash: `IntactInv` while an entry is
appended (`Appending`: the pages of it that are programmed, and none behind), and
`ReorgInv` while the log is reorganised in place. The latter speaks of a log that is not
in flash: `New` is what the reorganisation would leave if it copied nothing more, made of
the pages written anew, those on their way to flash and those collected in RAM. Erasing and
programming do not change it; collecting an entry appends the entry (`CollectedNew`). `Place`
is where the part not read yet begins. The question is why the row being written never
reaches that part, and why the change that called for the reorganisation has room at the
end: `Ahead` says that `New` ends before `Place`, and that with the pages still to be
collected and those of the change it ends before the store does, which `NoSpaceFor` has
granted (`LatestFrom`, `LivePagesIs`). `CopiedInv` says when line 712 still finds the entry
where it was; when it does not, the store is `damaged` and the invariant, except for its
types, says no more. `LogInv` and `ProgrammedOnce` follow, for entries of any number of
pages up to a row.

`RefusedForLackOfRoom` and `StoreIsAMap` go on to what the entries mean. `Mine` are the
entries of a key from a page on and `After` what the last of them leaves; `View` is
`After` from page 1 (`GetIs`). The pages of the entries that count, each named by its
key and its number, are as many as `NoSpaceFor` counts along the walk (`TakenIs`), so
that `PM!Used` of a store whose values are whole is `LivePages` (`UsedIs`): a change is
refused only for lack of room. `StoreIsAMap` is the refinement: `MeaningInv`, which TLC
confirmed for several sizes of stores and rows before it was proved, says for each
phase what the log means beside what the store was last said to hold. While a change
is written (`WriteMeans`) the first `n` of its cells are in flash, the other keys have
their values, and its own key has what `OutcomeIs` says: the old value, the new one,
or a part. While the log is reorganised (`Saves`) every key that the part not read yet has
an entry of has its value there and none in `New`, and every other has its value in
`New`. One lemma
per action (`SkipFollows`, `ProgramFollows`, ...) shows that the invariant stays and that
the step is one of the map or none. `Storable` is the one hypothesis about values:
the length byte of an entry can hold theirs, so that a text has less than 255 bytes and
a blob less than 256, and both fit into an entry. What the code does beyond is
described above.

The proofs assume of the constants that the header's eight bytes fit into a page
(`LogAssumption`), that rows divide the store and no value is longer than a row
(`RowAssumption`: the buffer of `_FlashReorgEntries` holds a row and an entry, and a row of
the STM32L4 has 2048 bytes), that keys are 1 to 254 (`KeyAssumption`, `NVProperty.h` 175; key 0
stands for none in a change) and that values are numbers, texts or blobs
(`ValueAssumption`). Numbers beyond 32 bits, which take two pages and part of which reads as
ones when a power loss cuts them short (`OnesFrom`), are too large for TLC: only the proofs
cover them.

Only model-checked:

- *Liveness*: `KeepsBeaconing`, `Drains`, `AllRead`, `WriteEnds`, `EveryOperationEnds`,
  `ReadsOn`. These need ENABLED and fairness, which the provers do not have.

## Plan

1. `FlashStore`: for which lengths of values a reorganisation keeps its place.
2. `BeaconNetwork`: several nodes on one channel, collisions, what a neighbour's
   beacon says of this node.
3. The log parser's header machine, and the console's line editing.

## Not modelled

Most lines of the repository are vendored or generated: the headers of mbed and of the
STM32 (nine tenths of all lines), the RadioShuttle library as assembly, the
OLED driver with its fonts, sensor drivers. They are configuration and data, or are
not ours to specify; what the firmware needs of them appears as external
definitions. The FSK modem of the radio driver is never entered by a LoRa node.
The strength samples of a packet (`SlightlightProtocol.cpp` 577-627) decide nothing.
The numeric parts (time on air, power tables, calibration, multidimensional
scaling) are floating point, which TLC cannot check usefully. The console and the
property editor are text input and output; the browser draws. `radio_init`'s
endless loop when no chip answers, and the pointer to the deleted driver object
that the main loop may hold while OnTxTimeout replaces it, are outside `RadioNode`;
USB suspend and the calls nobody makes (`writeNB`, the blocking `readEP`) outside
`UsbDevice`.
