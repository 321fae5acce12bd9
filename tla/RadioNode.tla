----------------------------- MODULE RadioNode -----------------------------
(***************************************************************************)
(* One beacon node as it runs on the microcontroller: the main loop of     *)
(* SX1276BasicTXRX (SlightlightProtocol.cpp), the SX1276 driver it calls,  *)
(* the interrupts that call it back, and the radio chip.                   *)
(*                                                                         *)
(* There is one core.  The main loop advances one step at a time (pc); an  *)
(* interrupt handler runs to completion between two of its steps.  The     *)
(* only link from the handlers to the main loop is the one-slot mailbox    *)
(* State, with Buffer and BufferSize beside it for a received packet.      *)
(*                                                                         *)
(* The LoRa modem, continuous receive and DIO0 alone, as radio_init and    *)
(* PinMap.h configure them.  Times are abstract: `due' says that more than *)
(* 5000 ms passed since the last beacon, and an armed timer may fire at    *)
(* any moment Settled allows.                                              *)
(***************************************************************************)
EXTENDS Naturals, FiniteSets

CONSTANTS
  MaxPackets,      \* bound: packets other stations send in one behaviour
  QuickEvents      \* may a window or a transmission end before the main loop
                   \* has executed the statement after Radio->Rx or ->Send?

ASSUME ConstantsAssumption ==
  /\ MaxPackets \in Nat
  /\ QuickEvents \in BOOLEAN

VARIABLES
  pc,          \* the next step of the main loop
  ret,         \* where Radio->Rx returns to
  State,       \* AppStates_t State: the mailbox
  Buffer,      \* number of the packet in Buffer, 0 after memset
  BufferSize,  \* its length: none, sizeof (Packet), or any other
  due,         \* get_ms () - lastSendTspMs > 5000
  radio,       \* settings.State of the driver
  rxTimer,     \* rxTimeoutTimer is attached
  txTimer,     \* txTimeoutTimer is attached
  opmode,      \* RegOpMode of the chip: the mode
  garbled,     \* its other bits are not those of radio_init
  flags,       \* RegIrqFlags of the chip
  dio0,        \* the flag RegDioMapping1 routes to pin DIO0
  clearsIrq,   \* the kind of chip: does entering sleep mode clear RegIrqFlags?
  exti,        \* a rising edge of DIO0 was latched and not served yet
  onAir,       \* another station's signal is on the channel
  locked,      \* the receiver follows that signal from its beginning
  fifo,        \* the packet in the chip's FIFO
  packets,     \* packets that other stations have started so far
  posted,      \* history: beacons OnRxDone stored for the main loop
  handled      \* history: beacons on_packet was called with

app    == <<State, Buffer, BufferSize, due>>
driver == <<radio, rxTimer, txTimer>>
chip   == <<opmode, garbled, flags, dio0, exti>>
air    == <<onAir, fifo, packets>>
ghost  == <<posted, handled>>
vars   == <<pc, ret, app, driver, chip, clearsIrq, air, locked, ghost>>

Kinds  == {"beacon", "foreign", "corrupt"}
Ids    == 0..MaxPackets
Events == {"RX", "RX_ERROR", "RX_TIMEOUT", "TX", "TX_TIMEOUT"}

TypeOK ==
  /\ pc \in {"rx1", "rx2", "rx3", "assign", "poll", "spi", "spi2", "switch",
             "packet", "restart", "backoff", "craft", "tx1", "tx2", "tx3"}
  /\ ret \in {"poll", "assign"}
  /\ State \in Events \cup {"LOWPOWER"}
  /\ Buffer \in Ids
  /\ BufferSize \in {"none", "packet", "other"}
  /\ due \in BOOLEAN
  /\ radio \in {"IDLE", "RX_RUNNING", "TX_RUNNING"}
  /\ rxTimer \in BOOLEAN /\ txTimer \in BOOLEAN
  /\ opmode \in {"SLEEP", "STANDBY", "RECEIVER", "TRANSMITTER"}
  /\ garbled \in BOOLEAN
  /\ flags \in SUBSET {"RXDONE", "TXDONE", "CRCERROR"}
  /\ dio0 \in {"RXDONE", "TXDONE"}
  /\ exti \in BOOLEAN
  /\ onAir \in BOOLEAN /\ locked \in BOOLEAN
  /\ clearsIrq \in BOOLEAN
  /\ fifo \in [id : Ids, kind : Kinds]
  /\ packets \in Ids
  /\ posted \in SUBSET Ids /\ handled \in SUBSET Ids

(* After radio_init: the chip sleeps, and the main loop is about to call    *)
(* Radio->Rx (RX_TIMEOUT_VALUE).                                            *)
Init ==
  /\ pc = "rx1" /\ ret = "poll"
  /\ State = "LOWPOWER" /\ Buffer = 0 /\ BufferSize = "other"
  /\ due \in BOOLEAN
  /\ radio = "IDLE" /\ rxTimer = FALSE /\ txTimer = FALSE
  /\ clearsIrq \in BOOLEAN
  /\ opmode = "SLEEP" /\ garbled = FALSE /\ flags = {} /\ dio0 = "RXDONE" /\ exti = FALSE
  /\ onAir = FALSE /\ locked = FALSE /\ packets = 0
  /\ fifo = [id |-> 0, kind |-> "foreign"]
  /\ posted = {} /\ handled = {}

-----------------------------------------------------------------------------
(* The chip.  The pin shows the flag it is routed to; the interrupt is      *)
(* taken on the rising edge only.                                           *)

Route(f, d) ==
  /\ flags' = f /\ dio0' = d
  /\ exti' = (exti \/ (dio0 \notin flags /\ d \in f))

AfterSleep(f) == IF clearsIrq THEN {} ELSE f

-----------------------------------------------------------------------------
(* The main loop.  A latched interrupt is served before its next step.      *)

Goto(from, to) == ~exti /\ pc = from /\ pc' = to

(* Radio->Rx: route RxDone to DIO0 *)
RxRoute ==
  /\ Goto("rx1", "rx2")
  /\ Route(flags, "RXDONE")
  /\ UNCHANGED <<ret, app, driver, opmode, garbled, air, locked, ghost>>

(* ... State = RF_RX_RUNNING and the timeout timer (rxMs is never 0) ...    *)
RxArm ==
  /\ Goto("rx2", "rx3")
  /\ radio' = "RX_RUNNING" /\ rxTimer' = TRUE
  /\ UNCHANGED <<ret, app, txTimer, chip, air, locked, ghost>>

(* ... and the receiver is switched on. *)
RxOn ==
  /\ Goto("rx3", ret)
  /\ opmode' = "RECEIVER"
  /\ UNCHANGED <<ret, app, driver, garbled, flags, dio0, exti, air, locked, ghost>>

(* Radio->Send: wake the chip, fill the FIFO, route TxDone to DIO0 *)
TxRoute ==
  /\ Goto("tx1", "tx2")
  /\ IF opmode = "SLEEP"
       THEN opmode' = "STANDBY" /\ radio' = "IDLE"
            /\ rxTimer' = FALSE /\ txTimer' = FALSE
       ELSE UNCHANGED <<opmode, driver>>
  /\ Route(flags, "TXDONE")
  /\ UNCHANGED <<ret, app, garbled, air, locked, ghost>>

TxArm ==
  /\ Goto("tx2", "tx3")
  /\ radio' = "TX_RUNNING" /\ txTimer' = TRUE
  /\ UNCHANGED <<ret, app, rxTimer, chip, air, locked, ghost>>

TxOn ==
  /\ Goto("tx3", "poll")
  /\ opmode' = "TRANSMITTER" /\ locked' = FALSE
  /\ UNCHANGED <<ret, app, driver, garbled, flags, dio0, exti, air, ghost>>

(* Top of the loop.  RxHeaderReceived and RxSignalPending read the modem    *)
(* status over SPI while a window is open; a pending signal adds the RSSI   *)
(* register to the samples.  "spi" is the time the main loop holds NSS low. *)
Poll ==
  /\ Goto("poll", IF radio = "RX_RUNNING" THEN "spi" ELSE "switch")
  /\ UNCHANGED <<ret, app, driver, chip, air, locked, ghost>>

SpiRead ==
  /\ \/ Goto("spi", "spi2")
     \/ Goto("spi", "switch")
     \/ Goto("spi2", "switch")
  /\ UNCHANGED <<ret, app, driver, chip, air, locked, ghost>>

(* case RX_ERROR, RX *)
SwitchRx ==
  LET size == IF State = "RX_ERROR" THEN "none" ELSE BufferSize
  IN  /\ State \in {"RX", "RX_ERROR"}
      /\ Goto("switch", IF size = "packet" THEN "packet" ELSE "restart")
      /\ BufferSize' = IF size = "packet" THEN "none" ELSE size
      /\ UNCHANGED <<ret, State, Buffer, due, driver, chip, air, locked, ghost>>

(* on_packet reads the packet in place, memset clears it. *)
OnPacket ==
  /\ Goto("packet", "restart")
  /\ handled' = handled \cup {Buffer}
  /\ Buffer' = 0
  /\ UNCHANGED <<ret, State, BufferSize, due, driver, chip, air, locked, posted>>

(* Faulty variant: State is not cleared before the next window. *)
RestartKeepsState ==
  /\ Goto("restart", "rx1")
  /\ ret' = "poll"
  /\ UNCHANGED <<app, driver, chip, air, locked, ghost>>

Restart ==
  /\ Goto("restart", "rx1")
  /\ ret' = "poll" /\ State' = "LOWPOWER"
  /\ UNCHANGED <<Buffer, BufferSize, due, driver, chip, air, locked, ghost>>

(* Faulty variant: the report is taken but no window is opened. *)
SwitchTxNoWindow ==
  /\ State \in {"TX", "TX_TIMEOUT"}
  /\ Goto("switch", "poll")
  /\ ret' = "poll" /\ State' = "LOWPOWER"
  /\ UNCHANGED <<Buffer, BufferSize, due, driver, chip, air, locked, ghost>>

(* case TX, TX_TIMEOUT *)
SwitchTx ==
  /\ State \in {"TX", "TX_TIMEOUT"}
  /\ Goto("switch", "rx1")
  /\ ret' = "poll" /\ State' = "LOWPOWER"
  /\ UNCHANGED <<Buffer, BufferSize, due, driver, chip, air, locked, ghost>>

(* case RX_TIMEOUT.  Too early for a beacon, Radio->Rx is called first and  *)
(* State is cleared after it returns (Assign).                              *)
SwitchRxTimeout ==
  /\ State = "RX_TIMEOUT"
  /\ Goto("switch", IF due THEN "backoff" ELSE "rx1")
  /\ ret' = IF due THEN ret ELSE "assign"
  /\ UNCHANGED <<app, driver, chip, air, locked, ghost>>

Assign ==
  /\ Goto("assign", "poll")
  /\ State' = "LOWPOWER"
  /\ UNCHANGED <<ret, Buffer, BufferSize, due, driver, chip, air, locked, ghost>>

(* case LOWPOWER *)
SwitchIdle ==
  /\ State = "LOWPOWER"
  /\ Goto("switch", "poll")
  /\ UNCHANGED <<ret, app, driver, chip, air, locked, ghost>>

RxSignalPending == radio = "RX_RUNNING" /\ onAir

(* The random wait, then the check whether somebody else is sending. *)
Backoff ==
  /\ Goto("backoff", IF RxSignalPending THEN "backoff" ELSE "craft")
  /\ UNCHANGED <<ret, app, driver, chip, air, locked, ghost>>

(* Faulty variant: State is not cleared before Radio->Send. *)
CraftKeepsState ==
  /\ Goto("craft", "tx1")
  /\ due' = FALSE
  /\ UNCHANGED <<ret, State, Buffer, BufferSize, driver, chip, air, locked, ghost>>

(* craft_packet, State and lastSendTspMs before Radio->Send *)
Craft ==
  /\ Goto("craft", "tx1")
  /\ State' = "LOWPOWER" /\ due' = FALSE
  /\ UNCHANGED <<ret, Buffer, BufferSize, driver, chip, air, locked, ghost>>

Main ==
  /\ UNCHANGED clearsIrq
  /\ \/ RxRoute \/ RxArm \/ RxOn
     \/ TxRoute \/ TxArm \/ TxOn
     \/ Poll \/ SpiRead
     \/ SwitchRx \/ OnPacket \/ Restart
     \/ SwitchTx \/ SwitchRxTimeout \/ Assign \/ SwitchIdle
     \/ Backoff \/ Craft

-----------------------------------------------------------------------------
(* The interrupts. *)

(* A handler may come while the main loop holds NSS low.  Its first access  *)
(* to the chip then counts as more bytes of that transfer and ends it: a    *)
(* write is lost, and what is read here may be anything.                    *)
Cut == pc \in {"spi", "spi2"}

(* In a chip whose mode register is garbled the LoRa modem is switched off, *)
(* or its registers are out of reach behind those of the FSK modem.         *)
Unsure == Cut \/ garbled

(* Faulty variants of Sleep: the receiver keeps running (the call is        *)
(* commented out in OnTxDone); the timers stay attached.                    *)
SleepLeavesReceiver(f) ==
  /\ rxTimer' = FALSE /\ txTimer' = FALSE
  /\ flags' = f /\ UNCHANGED <<dio0, opmode, garbled, radio, locked>>

SleepKeepsTimers(f) ==
  /\ opmode' = "SLEEP" /\ locked' = FALSE
  /\ radio' = "IDLE"
  /\ flags' = AfterSleep(f) /\ UNCHANGED <<dio0, garbled, rxTimer, txTimer>>

(* SX1276::Sleep, with the flags f left in the chip by the handler.         *)
(* SetOpMode reads RegOpMode and writes it back with another mode: what a   *)
(* cut transfer gave it for the other bits stays in the chip.               *)
Sleep(f) ==
  /\ rxTimer' = FALSE /\ txTimer' = FALSE
  /\ opmode' = "SLEEP" /\ locked' = FALSE
  /\ \/ UNCHANGED garbled
     \/ Cut /\ garbled' = TRUE
  /\ radio' = "IDLE"
  /\ flags' = AfterSleep(f) /\ UNCHANGED dio0

(* The handler clears RxDone first, or fails to.                            *)
ClearRxDone(f) ==
  \/ f = flags \ {"RXDONE"}
  \/ Unsure /\ f = flags

(* The length of the packet, as the handler reads it.                       *)
Length(size) ==
  \/ size = IF fifo.kind = "beacon" /\ ~garbled THEN "packet" ELSE "other"
  \/ Cut /\ size = "other"

(* The callbacks of the main loop; f are the flags left in the chip.  A     *)
(* packet always fits in Buffer: the chip delivers at most 255 bytes.       *)
OnRxDone(f) ==
  /\ Sleep(f)
  /\ Buffer' = fifo.id
  /\ BufferSize' \in {"packet", "other"} /\ Length(BufferSize')
  /\ State' = "RX"
  /\ posted' = IF BufferSize' = "packet" THEN posted \cup {fifo.id} ELSE posted

OnRxError(f) == Sleep(f) /\ State' = "RX_ERROR"
OnRxTimeout  == Sleep(flags) /\ State' = "RX_TIMEOUT"
OnTxDone     == State' = "TX" /\ UNCHANGED <<opmode, garbled, locked>>

(* radio_init, called by OnTxTimeout inside the interrupt: the destructor   *)
(* detaches the timers, and a new driver object resets the chip and leaves  *)
(* it asleep.                                                               *)
DeleteRadio == rxTimer' = FALSE /\ txTimer' = FALSE

NewRadio ==
  /\ radio' = "IDLE"
  /\ opmode' = "SLEEP" /\ garbled' = FALSE
  /\ flags' = {} /\ dio0' = "RXDONE" /\ locked' = FALSE

RadioInit == DeleteRadio /\ NewRadio

OnTxTimeout == State' = "TX_TIMEOUT" /\ RadioInit

(* OnDio0Irq in RF_RX_RUNNING that reads no CRC error *)
Dio0RxDone ==
  /\ exti /\ radio = "RX_RUNNING" /\ ("CRCERROR" \notin flags \/ Unsure)
  /\ exti' = FALSE
  /\ \E f \in SUBSET flags : ClearRxDone(f) /\ OnRxDone(f)
  /\ UNCHANGED <<pc, ret, due, air, handled>>

(* OnDio0Irq in RF_RX_RUNNING that reads a CRC error, and clears that flag  *)
Dio0RxError ==
  /\ exti /\ radio = "RX_RUNNING" /\ ("CRCERROR" \in flags \/ Unsure)
  /\ exti' = FALSE
  /\ \E f \in SUBSET flags : ClearRxDone(f) /\ OnRxError(f \ {"CRCERROR"})
  /\ UNCHANGED <<pc, ret, Buffer, BufferSize, due, air, ghost>>

(* OnDio0Irq in RF_TX_RUNNING *)
Dio0TxDone ==
  /\ exti /\ radio = "TX_RUNNING"
  /\ exti' = FALSE
  /\ flags' = flags \ {"TXDONE"} \/ (Unsure /\ flags' = flags)
  /\ txTimer' = FALSE /\ radio' = "IDLE"
  /\ OnTxDone
  /\ UNCHANGED <<pc, ret, Buffer, BufferSize, due, rxTimer, dio0, air, ghost>>

(* OnDio0Irq in any other state returns at once. *)
Dio0Ignored ==
  /\ exti /\ radio = "IDLE"
  /\ exti' = FALSE
  /\ UNCHANGED <<pc, ret, app, driver, opmode, garbled, flags, dio0, air, locked, ghost>>

(* A window lasts 152 ms at least, a beacon and a packet tens of ms; the    *)
(* main loop needs microseconds from arming the radio to its next statement.*)
Settled == QuickEvents \/ pc \notin {"rx3", "tx3", "assign"}

(* OnTimeoutIrq serves both timers and tells them apart by settings.State   *)
(* alone.  Its default branch is left out: TimersMatch says no timer is     *)
(* attached while the driver is idle.                                       *)
TimerFires == Settled /\ (rxTimer \/ txTimer)

(* OnTimeoutIrq in RF_RX_RUNNING *)
RxTimeoutIrq ==
  /\ TimerFires /\ radio = "RX_RUNNING"
  /\ OnRxTimeout
  /\ UNCHANGED <<pc, ret, Buffer, BufferSize, due, exti, air, ghost>>

(* OnTimeoutIrq in RF_TX_RUNNING resets the chip itself before the callback.*)
TxTimeoutIrq ==
  /\ TimerFires /\ radio = "TX_RUNNING"
  /\ OnTxTimeout
  /\ UNCHANGED <<pc, ret, Buffer, BufferSize, due, exti, air, ghost>>

-----------------------------------------------------------------------------
(* The world outside the microcontroller. *)

AirStart ==
  /\ ~onAir /\ packets < MaxPackets
  /\ onAir' = TRUE /\ packets' = packets + 1
  /\ locked' = (opmode = "RECEIVER")
  /\ UNCHANGED <<pc, ret, app, driver, chip, fifo, ghost>>

Raised(k) == IF k = "corrupt" THEN {"RXDONE", "CRCERROR"} ELSE {"RXDONE"}

(* The signal ends.  A receiver that followed it has a packet, or lost it.  *)
AirEnd ==
  /\ onAir
  /\ onAir' = FALSE /\ locked' = FALSE
  /\ \/ UNCHANGED <<flags, dio0, exti, fifo>>
     \/ \E k \in Kinds :
          /\ locked /\ Settled
          /\ fifo' = [id |-> packets, kind |-> k]
          /\ Route(flags \cup Raised(k), dio0)
  /\ UNCHANGED <<pc, ret, app, driver, opmode, garbled, packets, ghost>>

BeaconSent ==
  /\ opmode = "TRANSMITTER"
  /\ opmode' = "STANDBY"
  /\ Route(flags \cup {"TXDONE"}, dio0)
  /\ UNCHANGED <<pc, ret, app, driver, garbled, air, locked, ghost>>

BeaconDue ==
  /\ ~due /\ due' = TRUE
  /\ UNCHANGED <<pc, ret, State, Buffer, BufferSize, driver, chip, air, locked, ghost>>

Dio0Irq ==
  /\ UNCHANGED clearsIrq
  /\ Dio0RxDone \/ Dio0RxError \/ Dio0TxDone \/ Dio0Ignored

TimeoutIrq ==
  /\ UNCHANGED clearsIrq
  /\ RxTimeoutIrq \/ TxTimeoutIrq

Clock == UNCHANGED clearsIrq /\ BeaconDue

World ==
  /\ UNCHANGED clearsIrq
  /\ AirStart \/ AirEnd \/ BeaconSent

Next ==
  \/ Main
  \/ Dio0Irq
  \/ TimeoutIrq
  \/ World
  \/ Clock

Spec == Init /\ [][Next]_vars

(* The core runs, a latched interrupt is served, an attached timer fires    *)
(* and the clock advances.  Nothing is assumed of other stations.           *)
Fairness ==
  /\ WF_vars(Main) /\ WF_vars(Dio0Irq) /\ WF_vars(TimeoutIrq)
  /\ WF_vars(Clock)

FairSpec == Spec /\ Fairness

-----------------------------------------------------------------------------
(* Every handler finds the mailbox empty: no event is overwritten before    *)
(* the main loop took it, which is what the `overriding state' checks of    *)
(* OnTxDone, OnRxDone, OnTxTimeout and OnRxTimeout look for.                *)
MailboxNotOverwritten ==
  [][Dio0RxDone \/ Dio0RxError \/ Dio0TxDone \/ RxTimeoutIrq \/ TxTimeoutIrq
       => State = "LOWPOWER"]_vars

(* No lost wakeup: while the main loop turns with an empty mailbox the      *)
(* radio works and the timer that ends its work is attached.  Nothing else  *)
(* would ever wake the node: the firmware has no watchdog.                  *)
WakeupArmed ==
  pc \in {"poll", "spi", "spi2", "switch"} /\ State = "LOWPOWER"
    => \/ radio = "RX_RUNNING" /\ rxTimer /\ opmode = "RECEIVER"
       \/ radio = "TX_RUNNING" /\ txTimer

(* A timer is attached only during the activity it limits, so OnTimeoutIrq, *)
(* which asks settings.State and not which timer fired, never mistakes one  *)
(* for the other.                                                           *)
TimersMatch ==
  /\ rxTimer => radio = "RX_RUNNING"
  /\ txTimer => radio = "TX_RUNNING"

(* A beacon stored by OnRxDone reaches on_packet exactly once and unharmed: *)
(* the ones stored and not handled are the one still in Buffer.             *)
EveryBeaconOnce ==
  posted \ handled =
    IF pc = "packet" \/ (State = "RX" /\ BufferSize = "packet") THEN {Buffer} ELSE {}

(* With a chip that clears its flags in sleep mode an open window can hear: *)
(* RxDone is low, so that the next packet gives DIO0 the rising edge the    *)
(* interrupt needs.  Not so once an interrupt that puts the radio to sleep  *)
(* has come in a transfer of the main loop and wrote back what it took for  *)
(* RegOpMode (sx1276.cpp:1187): such a chip may be deaf in all windows, and *)
(* only a reset after a transmission that times out ends that.              *)
CanHear ==
  clearsIrq /\ ~garbled /\ radio = "RX_RUNNING" /\ opmode = "RECEIVER" /\ "RXDONE" \in flags
    => exti

(* The node beacons again and again, once other stations fall silent long   *)
(* enough for a window to time out.                                         *)
KeepsBeaconing == []<>(opmode = "TRANSMITTER")

(* Listen before talk: the loop that logs `RxSignalPending, waiting' ends   *)
(* only when no other station is sending.                                   *)
CarrierSense == [][pc = "backoff" /\ pc' = "craft" => ~onAir]_vars

-----------------------------------------------------------------------------
(* The node implements BeaconNode. *)

Activity ==
  IF radio = "RX_RUNNING" THEN "listening"
  ELSE IF radio = "TX_RUNNING" THEN "talking"
  ELSE IF pc \in {"rx1", "rx2"} THEN "toListen"
  ELSE IF pc \in {"tx1", "tx2"} THEN "toTalk"
  ELSE "reporting"

Report == IF Activity = "reporting" THEN State ELSE "none"

Node == INSTANCE BeaconNode WITH activity <- Activity, report <- Report

(* Windows, beacons and their reports alternate as BeaconNode says; a       *)
(* beacon follows only a window that nothing ended but its timeout.         *)
RefinesBeaconNode == Node!Spec
=============================================================================
