-------------------------- MODULE RadioNodeProofs --------------------------
(***************************************************************************)
(* Proofs about RadioNode, for every number of packets and either kind of  *)
(* chip (clearsIrq).  What concerns the mailbox is proved under the timing *)
(* assumption ~QuickEvents (Settled in RadioNode).                         *)
(***************************************************************************)
EXTENDS RadioNode, TLAPS

(* Where the driver, its timers and the chip stand at each step of the main *)
(* loop: the strengthening that makes the properties inductive.             *)

DriverInv ==
  /\ radio = "IDLE" => ~rxTimer /\ ~txTimer /\ opmode \in {"SLEEP", "STANDBY"}
  /\ radio = "RX_RUNNING" =>
       /\ rxTimer /\ ~txTimer
       /\ pc \in {"rx3", "assign", "poll", "spi", "spi2", "switch"}
       /\ IF pc = "rx3" THEN opmode \in {"SLEEP", "STANDBY"} ELSE opmode = "RECEIVER"
  /\ radio = "TX_RUNNING" =>
       /\ txTimer /\ ~rxTimer
       /\ pc \in {"tx3", "poll", "spi", "spi2", "switch"}
       /\ opmode \in {"SLEEP", "STANDBY", "TRANSMITTER"}
       /\ pc = "tx3" \/ exti => opmode # "TRANSMITTER"
  /\ pc \in {"rx3", "assign"} => radio = "RX_RUNNING"
  /\ pc = "tx3" => radio = "TX_RUNNING"
  /\ pc \in {"rx3", "assign", "tx3"} => ~exti
  /\ locked => opmode = "RECEIVER"

MailboxInv ==
  /\ pc \in {"rx1", "rx2", "rx3"} =>
       State = IF ret = "assign" THEN "RX_TIMEOUT" ELSE "LOWPOWER"
  /\ pc = "assign" => State = "RX_TIMEOUT"
  /\ pc \in {"tx1", "tx2", "tx3"} => State = "LOWPOWER"
  /\ pc \in {"backoff", "craft"} => State = "RX_TIMEOUT"
  /\ pc \in {"packet", "restart"} =>
       State \in {"RX", "RX_ERROR"} /\ BufferSize # "packet"
  /\ pc = "packet" => State = "RX"
  /\ pc \in {"poll", "spi", "spi2", "switch"} =>
       (State = "LOWPOWER" <=> radio # "IDLE")

(* The number of a packet is stored once: a packet that is still coming in, *)
(* or waits in the FIFO for its interrupt, is not stored yet.               *)
FreshInv ==
  /\ fifo.id \in 0..packets
  /\ posted \subseteq 0..packets
  /\ handled \subseteq posted
  /\ locked => packets \notin posted
  /\ exti /\ radio = "RX_RUNNING" => fifo.id \notin posted

NodeInv == TypeOK /\ DriverInv /\ MailboxInv /\ FreshInv /\ EveryBeaconOnce

-----------------------------------------------------------------------------
(* TypeOK in two halves, since no backend copes with both at once: the      *)
(* Boolean variables, and all the others.                                   *)

FlagTypes ==
  /\ due \in BOOLEAN
  /\ rxTimer \in BOOLEAN /\ txTimer \in BOOLEAN
  /\ garbled \in BOOLEAN
  /\ exti \in BOOLEAN
  /\ onAir \in BOOLEAN /\ locked \in BOOLEAN

DataTypes ==
  /\ pc \in {"rx1", "rx2", "rx3", "assign", "poll", "spi", "spi2", "switch",
             "packet", "restart", "backoff", "craft", "tx1", "tx2", "tx3"}
  /\ ret \in {"poll", "assign"}
  /\ State \in Events \cup {"LOWPOWER"}
  /\ Buffer \in Ids
  /\ BufferSize \in {"none", "packet", "other"}
  /\ radio \in {"IDLE", "RX_RUNNING", "TX_RUNNING"}
  /\ opmode \in {"SLEEP", "STANDBY", "RECEIVER", "TRANSMITTER"}
  /\ flags \in SUBSET {"RXDONE", "TXDONE", "CRCERROR"}
  /\ dio0 \in {"RXDONE", "TXDONE"}
  /\ fifo \in [id : Ids, kind : Kinds]
  /\ packets \in Ids
  /\ posted \in SUBSET Ids /\ handled \in SUBSET Ids

ChipType == clearsIrq \in BOOLEAN

LEMMA TypeHalves == TypeOK <=> FlagTypes /\ DataTypes /\ ChipType
BY Zenon DEF TypeOK, FlagTypes, DataTypes, ChipType

LEMMA InitTypes == Init => TypeOK
<1> SUFFICES ASSUME Init PROVE FlagTypes /\ DataTypes /\ ChipType
  BY TypeHalves
<1>1. FlagTypes /\ ChipType
  BY Zenon DEF Init, FlagTypes, ChipType
<1>2. DataTypes
  BY ConstantsAssumption DEF Init, DataTypes, Ids, Kinds, Events
<1>3. QED
  BY <1>1, <1>2

LEMMA FlagStep == FlagTypes /\ [Next]_vars => FlagTypes'
<1> SUFFICES ASSUME FlagTypes, [Next]_vars PROVE FlagTypes'
  OBVIOUS
<1> USE DEF FlagTypes, app, driver, chip, air
<1>1. CASE RxRoute
  BY <1>1, Zenon DEF RxRoute, Goto, Route
<1>2. CASE RxArm
  BY <1>2, Zenon DEF RxArm, Goto
<1>3. CASE RxOn
  BY <1>3, Zenon DEF RxOn, Goto
<1>4. CASE TxRoute
  BY <1>4, Zenon DEF TxRoute, Goto, Route
<1>5. CASE TxArm
  BY <1>5, Zenon DEF TxArm, Goto
<1>6. CASE TxOn
  BY <1>6, Zenon DEF TxOn, Goto
<1>7. CASE Poll
  BY <1>7, Zenon DEF Poll, Goto
<1>8. CASE SpiRead
  BY <1>8, Zenon DEF SpiRead, Goto
<1>9. CASE SwitchRx
  BY <1>9, Zenon DEF SwitchRx, Goto
<1>10. CASE OnPacket
  BY <1>10, Zenon DEF OnPacket, Goto
<1>11. CASE Restart
  BY <1>11, Zenon DEF Restart, Goto
<1>12. CASE SwitchTx
  BY <1>12, Zenon DEF SwitchTx, Goto
<1>13. CASE SwitchRxTimeout
  BY <1>13, Zenon DEF SwitchRxTimeout, Goto
<1>14. CASE Assign
  BY <1>14, Zenon DEF Assign, Goto
<1>15. CASE SwitchIdle
  BY <1>15, Zenon DEF SwitchIdle, Goto
<1>16. CASE Backoff
  BY <1>16, Zenon DEF Backoff, Goto, RxSignalPending
<1>17. CASE Craft
  BY <1>17, Zenon DEF Craft, Goto
<1>18. CASE Dio0RxDone
  BY <1>18, Zenon DEF Dio0RxDone, OnRxDone, Sleep, ClearRxDone, AfterSleep
<1>19. CASE Dio0RxError
  BY <1>19, Zenon DEF Dio0RxError, OnRxError, Sleep, ClearRxDone, AfterSleep
<1>20. CASE Dio0TxDone
  BY <1>20, Zenon DEF Dio0TxDone, OnTxDone
<1>21. CASE Dio0Ignored
  BY <1>21, Zenon DEF Dio0Ignored
<1>22. CASE RxTimeoutIrq
  BY <1>22, Zenon DEF RxTimeoutIrq, OnRxTimeout, Sleep, AfterSleep, TimerFires, Settled
<1>23. CASE TxTimeoutIrq
  BY <1>23, Zenon DEF TxTimeoutIrq, OnTxTimeout, RadioInit, DeleteRadio, NewRadio, TimerFires, Settled
<1>24. CASE AirStart
  BY <1>24, Zenon DEF AirStart
<1>25. CASE AirEnd
  BY <1>25, Zenon DEF AirEnd, Route, Kinds, Settled
<1>26. CASE BeaconSent
  BY <1>26, Zenon DEF BeaconSent, Route
<1>27. CASE BeaconDue
  BY <1>27, Zenon DEF BeaconDue
<1>28. CASE UNCHANGED vars
  BY <1>28, Zenon DEF vars
<1>29. QED
  BY <1>1, <1>2, <1>3, <1>4, <1>5, <1>6, <1>7, <1>8, <1>9, <1>10, <1>11,
     <1>12, <1>13, <1>14, <1>15, <1>16, <1>17, <1>18, <1>19, <1>20, <1>21,
     <1>22, <1>23, <1>24, <1>25, <1>26, <1>27, <1>28 DEF Next, Main,
     Dio0Irq, TimeoutIrq, World, Clock

LEMMA DataStep == DataTypes /\ [Next]_vars => DataTypes'
<1> SUFFICES ASSUME DataTypes, [Next]_vars PROVE DataTypes'
  OBVIOUS
<1> USE ConstantsAssumption
    DEF DataTypes, Ids, Kinds, Events, app, driver, chip, air, ghost
<1>1. CASE RxRoute
  BY <1>1 DEF RxRoute, Goto, Route
<1>2. CASE RxArm
  BY <1>2 DEF RxArm, Goto
<1>3. CASE RxOn
  BY <1>3 DEF RxOn, Goto
<1>4. CASE TxRoute
  BY <1>4 DEF TxRoute, Goto, Route
<1>5. CASE TxArm
  BY <1>5 DEF TxArm, Goto
<1>6. CASE TxOn
  BY <1>6 DEF TxOn, Goto
<1>7. CASE Poll
  BY <1>7 DEF Poll, Goto
<1>8. CASE SpiRead
  BY <1>8 DEF SpiRead, Goto
<1>9. CASE SwitchRx
  BY <1>9 DEF SwitchRx, Goto
<1>10. CASE OnPacket
  BY <1>10 DEF OnPacket, Goto
<1>11. CASE Restart
  BY <1>11 DEF Restart, Goto
<1>12. CASE SwitchTx
  BY <1>12 DEF SwitchTx, Goto
<1>13. CASE SwitchRxTimeout
  BY <1>13 DEF SwitchRxTimeout, Goto
<1>14. CASE Assign
  BY <1>14 DEF Assign, Goto
<1>15. CASE SwitchIdle
  BY <1>15 DEF SwitchIdle, Goto
<1>16. CASE Backoff
  BY <1>16 DEF Backoff, Goto, RxSignalPending
<1>17. CASE Craft
  BY <1>17 DEF Craft, Goto
<1>18. CASE Dio0RxDone
  BY <1>18 DEF Dio0RxDone, OnRxDone, Sleep, ClearRxDone, AfterSleep
<1>19. CASE Dio0RxError
  BY <1>19 DEF Dio0RxError, OnRxError, Sleep, ClearRxDone, AfterSleep
<1>20. CASE Dio0TxDone
  <2>1. flags' = flags \ {"TXDONE"} \/ flags' = flags
    BY <1>20, Zenon DEF Dio0TxDone
  <2>2. flags' \in SUBSET {"RXDONE", "TXDONE", "CRCERROR"}
    BY <2>1
  <2>3. State' = "TX" /\ radio' = "IDLE" /\ opmode' = opmode
    BY <1>20, Zenon DEF Dio0TxDone, OnTxDone
  <2>4. UNCHANGED <<pc, ret, Buffer, BufferSize, dio0, fifo, packets, posted, handled>>
    BY <1>20, Zenon DEF Dio0TxDone
  <2>5. QED
    BY <2>2, <2>3, <2>4
<1>21. CASE Dio0Ignored
  BY <1>21 DEF Dio0Ignored
<1>22. CASE RxTimeoutIrq
  BY <1>22 DEF RxTimeoutIrq, OnRxTimeout, Sleep, AfterSleep, TimerFires, Settled
<1>23. CASE TxTimeoutIrq
  BY <1>23 DEF TxTimeoutIrq, OnTxTimeout, RadioInit, DeleteRadio, NewRadio, TimerFires, Settled
<1>24. CASE AirStart
  BY <1>24 DEF AirStart
<1>25. CASE AirEnd
  <2>1. CASE UNCHANGED <<flags, dio0, exti, fifo>>
    BY <1>25, <2>1 DEF AirEnd
  <2>2. CASE \E k \in Kinds :
               /\ fifo' = [id |-> packets, kind |-> k]
               /\ Route(flags \cup Raised(k), dio0)
    BY <1>25, <2>2 DEF AirEnd, Route, Raised
  <2>3. QED
    BY <1>25, <2>1, <2>2 DEF AirEnd
<1>26. CASE BeaconSent
  BY <1>26 DEF BeaconSent, Route
<1>27. CASE BeaconDue
  BY <1>27 DEF BeaconDue
<1>28. CASE UNCHANGED vars
  BY <1>28 DEF vars
<1>29. QED
  BY <1>1, <1>2, <1>3, <1>4, <1>5, <1>6, <1>7, <1>8, <1>9, <1>10, <1>11,
     <1>12, <1>13, <1>14, <1>15, <1>16, <1>17, <1>18, <1>19, <1>20, <1>21,
     <1>22, <1>23, <1>24, <1>25, <1>26, <1>27, <1>28 DEF Next, Main,
     Dio0Irq, TimeoutIrq, World, Clock

(* The chip is of one kind. *)
LEMMA ChipStep == ChipType /\ [Next]_vars => ChipType'
<1> SUFFICES ASSUME ChipType, [Next]_vars PROVE ChipType'
  OBVIOUS
<1>1. UNCHANGED clearsIrq
  BY DEF Next, Main, Dio0Irq, TimeoutIrq, World, Clock, vars
<1>2. QED
  BY <1>1, Zenon DEF ChipType

(* Every variable keeps its type; no timing assumption is needed. *)
THEOREM TypeCorrect == Spec => []TypeOK
<1>1. TypeOK /\ [Next]_vars => TypeOK'
  <2>1. TypeOK' <=> FlagTypes' /\ DataTypes' /\ ChipType'
    BY Zenon DEF TypeOK, FlagTypes, DataTypes, ChipType
  <2>2. QED
    BY <2>1, TypeHalves, FlagStep, DataStep, ChipStep
<1>2. QED
  BY <1>1, InitTypes, PTL DEF Spec

-----------------------------------------------------------------------------
LEMMA NodeStep ==
  ASSUME ~QuickEvents, NodeInv, [Next]_vars, TypeOK'
  PROVE  DriverInv' /\ MailboxInv' /\ FreshInv' /\ EveryBeaconOnce'
<1> USE DEF NodeInv, TypeOK, DriverInv, MailboxInv, FreshInv, EveryBeaconOnce,
            Events, Ids, app, driver, chip, air, ghost
<1>1. CASE RxRoute
  BY <1>1 DEF RxRoute, Goto, Route
<1>2. CASE RxArm
  BY <1>2 DEF RxArm, Goto
<1>3. CASE RxOn
  BY <1>3 DEF RxOn, Goto
<1>4. CASE TxRoute
  BY <1>4 DEF TxRoute, Goto, Route
<1>5. CASE TxArm
  BY <1>5 DEF TxArm, Goto
<1>6. CASE TxOn
  BY <1>6 DEF TxOn, Goto
<1>7. CASE Poll
  BY <1>7 DEF Poll, Goto
<1>8. CASE SpiRead
  BY <1>8 DEF SpiRead, Goto
<1>9. CASE SwitchRx
  BY <1>9 DEF SwitchRx, Goto
<1>10. CASE OnPacket
  BY <1>10 DEF OnPacket, Goto
<1>11. CASE Restart
  BY <1>11 DEF Restart, Goto
<1>12. CASE SwitchTx
  BY <1>12 DEF SwitchTx, Goto
<1>13. CASE SwitchRxTimeout
  BY <1>13 DEF SwitchRxTimeout, Goto
<1>14. CASE Assign
  BY <1>14 DEF Assign, Goto
<1>15. CASE SwitchIdle
  BY <1>15 DEF SwitchIdle, Goto
<1>16. CASE Backoff
  BY <1>16 DEF Backoff, Goto, RxSignalPending
<1>17. CASE Craft
  BY <1>17 DEF Craft, Goto
<1>18. CASE Dio0RxDone
  <2>1. DriverInv' /\ MailboxInv'
    BY <1>18 DEF Dio0RxDone, OnRxDone, Sleep, ClearRxDone, AfterSleep
  <2>2. posted \ handled = {}
    BY <1>18 DEF Dio0RxDone, OnRxDone
  <2>3. fifo.id \in 0..packets /\ fifo.id \notin posted
    BY <1>18 DEF Dio0RxDone, OnRxDone
  <2>4. FreshInv'
    BY <1>18, <2>3 DEF Dio0RxDone, OnRxDone, Sleep
  <2>5. EveryBeaconOnce'
    BY <1>18, <2>2, <2>3 DEF Dio0RxDone, OnRxDone
  <2>6. QED
    BY <2>1, <2>4, <2>5
<1>19. CASE Dio0RxError
  BY <1>19 DEF Dio0RxError, OnRxError, Sleep, ClearRxDone, AfterSleep
<1>20. CASE Dio0TxDone
  BY <1>20 DEF Dio0TxDone, OnTxDone
<1>21. CASE Dio0Ignored
  BY <1>21 DEF Dio0Ignored
<1>22. CASE RxTimeoutIrq
  BY <1>22 DEF RxTimeoutIrq, OnRxTimeout, Sleep, AfterSleep, TimerFires, Settled
<1>23. CASE TxTimeoutIrq
  BY <1>23 DEF TxTimeoutIrq, OnTxTimeout, RadioInit, DeleteRadio, NewRadio, TimerFires, Settled
<1>24. CASE AirStart
  BY <1>24 DEF AirStart
<1>25. CASE AirEnd
  <2>1. CASE UNCHANGED <<flags, dio0, exti, fifo>>
    BY <1>25, <2>1 DEF AirEnd
  <2>2. CASE \E k \in Kinds :
               /\ locked /\ Settled
               /\ fifo' = [id |-> packets, kind |-> k]
               /\ Route(flags \cup Raised(k), dio0)
    <3>1. DriverInv'
      BY <1>25, <2>2 DEF AirEnd, Settled
    <3>2. MailboxInv' /\ FreshInv' /\ EveryBeaconOnce'
      BY <1>25, <2>2 DEF AirEnd
    <3>3. QED
      BY <3>1, <3>2
  <2>3. QED
    BY <1>25, <2>1, <2>2 DEF AirEnd
<1>26. CASE BeaconSent
  BY <1>26 DEF BeaconSent, Route
<1>27. CASE BeaconDue
  BY <1>27 DEF BeaconDue
<1>28. CASE UNCHANGED vars
  BY <1>28 DEF vars
<1>29. QED
  BY <1>1, <1>2, <1>3, <1>4, <1>5, <1>6, <1>7, <1>8, <1>9, <1>10, <1>11,
     <1>12, <1>13, <1>14, <1>15, <1>16, <1>17, <1>18, <1>19, <1>20, <1>21,
     <1>22, <1>23, <1>24, <1>25, <1>26, <1>27, <1>28 DEF Next, Main,
     Dio0Irq, TimeoutIrq, World, Clock

LEMMA InitNode == Init => NodeInv
<1> SUFFICES ASSUME Init PROVE NodeInv
  OBVIOUS
<1>1. DriverInv /\ MailboxInv
  BY DEF Init, DriverInv, MailboxInv
<1>2. FreshInv /\ EveryBeaconOnce
  BY DEF Init, FreshInv, EveryBeaconOnce
<1>3. QED
  BY <1>1, <1>2, InitTypes DEF NodeInv

(* NodeInv holds in every state the main loop and the interrupts reach.     *)
THEOREM NodeInvariant == ASSUME ~QuickEvents PROVE Spec => []NodeInv
<1>1. NodeInv /\ TypeOK' /\ [Next]_vars => NodeInv'
  BY NodeStep DEF NodeInv
<1>2. QED
  BY <1>1, InitNode, TypeCorrect, PTL DEF Spec

(* The node is never left without an event that will wake it: an empty      *)
(* mailbox means a running radio with its timer attached.                   *)
THEOREM NoLostWakeup == ASSUME ~QuickEvents PROVE Spec => []WakeupArmed
<1>1. NodeInv => WakeupArmed
  BY DEF NodeInv, TypeOK, DriverInv, MailboxInv, WakeupArmed
<1>2. QED
  BY <1>1, NodeInvariant, PTL

(* The default branch of OnTimeoutIrq is unreachable, and the timer that    *)
(* fires is the one of the running activity.                                *)
THEOREM TimersMatchState == ASSUME ~QuickEvents PROVE Spec => []TimersMatch
<1>1. NodeInv => TimersMatch
  BY DEF NodeInv, TypeOK, DriverInv, TimersMatch
<1>2. QED
  BY <1>1, NodeInvariant, PTL

(* on_packet gets every stored beacon, once, as it was stored. *)
THEOREM BeaconsHandledOnce == ASSUME ~QuickEvents PROVE Spec => []EveryBeaconOnce
<1>1. NodeInv => EveryBeaconOnce
  BY DEF NodeInv
<1>2. QED
  BY <1>1, NodeInvariant, PTL

(* No interrupt handler overwrites an event the main loop has not taken.    *)
THEOREM EventsNotOverwritten == ASSUME ~QuickEvents PROVE Spec => MailboxNotOverwritten
<1>1. ASSUME NodeInv, Dio0RxDone \/ Dio0RxError \/ Dio0TxDone \/ RxTimeoutIrq \/ TxTimeoutIrq
      PROVE  State = "LOWPOWER"
  <2>1. radio # "IDLE" /\ pc \notin {"rx3", "assign", "tx3"}
    BY <1>1 DEF NodeInv, DriverInv, Dio0RxDone, Dio0RxError, Dio0TxDone,
                RxTimeoutIrq, TxTimeoutIrq, TimerFires, Settled
  <2>2. QED
    BY <1>1, <2>1 DEF NodeInv, TypeOK, DriverInv, MailboxInv
<1>2. QED
  BY <1>1, NodeInvariant, PTL DEF Spec, MailboxNotOverwritten

-----------------------------------------------------------------------------
(* With a chip that clears its flags in sleep mode RxDone is up only while  *)
(* a window is open and its interrupt is latched, and DIO0 shows RxDone     *)
(* from the moment Radio->Rx has routed it to the end of the window.        *)
HearInv ==
  /\ clearsIrq /\ "RXDONE" \in flags => radio = "RX_RUNNING" /\ exti
  /\ radio = "RX_RUNNING" \/ pc \in {"rx2", "rx3"} => dio0 = "RXDONE"

LEMMA HearStep ==
  ASSUME NodeInv, HearInv, [Next]_vars
  PROVE  HearInv'
<1>0. UNCHANGED clearsIrq
  BY DEF Next, Main, Dio0Irq, TimeoutIrq, World, Clock, vars
<1> USE <1>0 DEF NodeInv, TypeOK, DriverInv, HearInv, app, driver, chip, air, ghost
<1>1. CASE RxRoute
  BY <1>1 DEF RxRoute, Goto, Route
<1>2. CASE RxArm
  BY <1>2 DEF RxArm, Goto
<1>3. CASE RxOn
  BY <1>3 DEF RxOn, Goto
<1>4. CASE TxRoute
  BY <1>4 DEF TxRoute, Goto, Route
<1>5. CASE TxArm
  BY <1>5 DEF TxArm, Goto
<1>6. CASE TxOn
  BY <1>6 DEF TxOn, Goto
<1>7. CASE Poll
  BY <1>7 DEF Poll, Goto
<1>8. CASE SpiRead
  BY <1>8 DEF SpiRead, Goto
<1>9. CASE SwitchRx
  BY <1>9 DEF SwitchRx, Goto
<1>10. CASE OnPacket
  BY <1>10 DEF OnPacket, Goto
<1>11. CASE Restart
  BY <1>11 DEF Restart, Goto
<1>12. CASE SwitchTx
  BY <1>12 DEF SwitchTx, Goto
<1>13. CASE SwitchRxTimeout
  BY <1>13 DEF SwitchRxTimeout, Goto
<1>14. CASE Assign
  BY <1>14 DEF Assign, Goto
<1>15. CASE SwitchIdle
  BY <1>15 DEF SwitchIdle, Goto
<1>16. CASE Backoff
  BY <1>16 DEF Backoff, Goto, RxSignalPending
<1>17. CASE Craft
  BY <1>17 DEF Craft, Goto
<1>18. CASE Dio0RxDone
  BY <1>18 DEF Dio0RxDone, OnRxDone, Sleep, ClearRxDone, AfterSleep
<1>19. CASE Dio0RxError
  BY <1>19 DEF Dio0RxError, OnRxError, Sleep, ClearRxDone, AfterSleep
<1>20. CASE Dio0TxDone
  BY <1>20 DEF Dio0TxDone, OnTxDone
<1>21. CASE Dio0Ignored
  BY <1>21 DEF Dio0Ignored
<1>22. CASE RxTimeoutIrq
  BY <1>22 DEF RxTimeoutIrq, OnRxTimeout, Sleep, AfterSleep
<1>23. CASE TxTimeoutIrq
  BY <1>23 DEF TxTimeoutIrq, OnTxTimeout, RadioInit, DeleteRadio, NewRadio
<1>24. CASE AirStart
  BY <1>24 DEF AirStart
<1>25. CASE AirEnd
  BY <1>25 DEF AirEnd, Route, Raised
<1>26. CASE BeaconSent
  BY <1>26 DEF BeaconSent, Route
<1>27. CASE BeaconDue
  BY <1>27 DEF BeaconDue
<1>28. CASE UNCHANGED vars
  BY <1>28 DEF vars
<1>29. QED
  BY <1>1, <1>2, <1>3, <1>4, <1>5, <1>6, <1>7, <1>8, <1>9, <1>10, <1>11,
     <1>12, <1>13, <1>14, <1>15, <1>16, <1>17, <1>18, <1>19, <1>20, <1>21,
     <1>22, <1>23, <1>24, <1>25, <1>26, <1>27, <1>28 DEF Next, Main,
     Dio0Irq, TimeoutIrq, World, Clock

(* An open window hears the next packet: with such a chip no flag that an   *)
(* earlier window left behind keeps DIO0 from rising, not even one that a   *)
(* handler failed to clear.  Only a garbled mode register deafens it.       *)
THEOREM WindowCanHear == ASSUME ~QuickEvents PROVE Spec => []CanHear
<1>1. Init => HearInv
  BY DEF Init, HearInv
<1>2. NodeInv /\ HearInv /\ [Next]_vars => HearInv'
  BY HearStep
<1>3. HearInv => CanHear
  BY DEF HearInv, CanHear
<1>4. QED
  BY <1>1, <1>2, <1>3, NodeInvariant, PTL DEF Spec

-----------------------------------------------------------------------------
(* Each step of the node is a step of BeaconNode or leaves it alone.        *)
LEMMA StepRefines ==
  ASSUME ~QuickEvents, NodeInv, NodeInv', [Next]_vars
  PROVE  [Node!Next]_(Node!vars)
<1> USE DEF NodeInv, TypeOK, DriverInv, MailboxInv, Events, Activity, Report,
            app, driver, chip, air, Node!Next, Node!vars, Node!Listen,
            Node!Talk, Node!EndWindow, Node!EndBeacon, Node!Take,
            Node!WindowEnds, Node!BeaconEnds, Node!None
<1>1. CASE RxRoute
  BY <1>1 DEF RxRoute, Goto, Route
<1>2. CASE RxArm
  BY <1>2 DEF RxArm, Goto
<1>3. CASE RxOn
  BY <1>3 DEF RxOn, Goto
<1>4. CASE TxRoute
  BY <1>4 DEF TxRoute, Goto, Route
<1>5. CASE TxArm
  BY <1>5 DEF TxArm, Goto
<1>6. CASE TxOn
  BY <1>6 DEF TxOn, Goto
<1>7. CASE Poll
  BY <1>7 DEF Poll, Goto
<1>8. CASE SpiRead
  BY <1>8 DEF SpiRead, Goto
<1>9. CASE SwitchRx
  BY <1>9 DEF SwitchRx, Goto
<1>10. CASE OnPacket
  BY <1>10 DEF OnPacket, Goto
<1>11. CASE Restart
  BY <1>11 DEF Restart, Goto
<1>12. CASE SwitchTx
  BY <1>12 DEF SwitchTx, Goto
<1>13. CASE SwitchRxTimeout
  BY <1>13 DEF SwitchRxTimeout, Goto
<1>14. CASE Assign
  BY <1>14 DEF Assign, Goto
<1>15. CASE SwitchIdle
  BY <1>15 DEF SwitchIdle, Goto
<1>16. CASE Backoff
  BY <1>16 DEF Backoff, Goto, RxSignalPending
<1>17. CASE Craft
  BY <1>17 DEF Craft, Goto
<1>18. CASE Dio0RxDone
  BY <1>18 DEF Dio0RxDone, OnRxDone, Sleep, ClearRxDone, AfterSleep
<1>19. CASE Dio0RxError
  BY <1>19 DEF Dio0RxError, OnRxError, Sleep, ClearRxDone, AfterSleep
<1>20. CASE Dio0TxDone
  BY <1>20 DEF Dio0TxDone, OnTxDone
<1>21. CASE Dio0Ignored
  BY <1>21 DEF Dio0Ignored
<1>22. CASE RxTimeoutIrq
  BY <1>22 DEF RxTimeoutIrq, OnRxTimeout, Sleep, AfterSleep, TimerFires, Settled
<1>23. CASE TxTimeoutIrq
  BY <1>23 DEF TxTimeoutIrq, OnTxTimeout, RadioInit, DeleteRadio, NewRadio, TimerFires, Settled
<1>24. CASE AirStart
  BY <1>24 DEF AirStart
<1>25. CASE AirEnd
  BY <1>25 DEF AirEnd, Route, Kinds, Settled
<1>26. CASE BeaconSent
  BY <1>26 DEF BeaconSent, Route
<1>27. CASE BeaconDue
  BY <1>27 DEF BeaconDue
<1>28. CASE UNCHANGED vars
  BY <1>28 DEF vars
<1>29. QED
  BY <1>1, <1>2, <1>3, <1>4, <1>5, <1>6, <1>7, <1>8, <1>9, <1>10, <1>11,
     <1>12, <1>13, <1>14, <1>15, <1>16, <1>17, <1>18, <1>19, <1>20, <1>21,
     <1>22, <1>23, <1>24, <1>25, <1>26, <1>27, <1>28 DEF Next, Main,
     Dio0Irq, TimeoutIrq, World, Clock

(* The node implements the abstract specification of the half-duplex radio: *)
(* one activity at a time, one report for each, a beacon only after a       *)
(* window that timed out.                                                   *)
THEOREM NodeImplementsBeaconNode ==
  ASSUME ~QuickEvents PROVE Spec => RefinesBeaconNode
<1>1. Init => Node!Init
  BY DEF Init, Node!Init, Activity, Report, Node!None
<1>2. NodeInv /\ NodeInv' /\ [Next]_vars => [Node!Next]_(Node!vars)
  BY StepRefines
<1>3. QED
  BY <1>1, <1>2, NodeInvariant, PTL DEF Spec, RefinesBeaconNode, Node!Spec
=============================================================================
