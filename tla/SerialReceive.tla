--------------------------- MODULE SerialReceive ---------------------------
(***************************************************************************)
(* The receiving side of a buffered UART (BufferedSerial.cpp): the receive *)
(* interrupt puts a byte into _rxbuf, the main program polls readable and  *)
(* gets the oldest byte (ConsoleReadline).  There is no lock.              *)
(*                                                                         *)
(* put runs inside the interrupt, to completion.  readable and get run in  *)
(* the main program, and the interrupt may come between any two of their   *)
(* accesses: readable has its answer; the location is read, written back   *)
(* plus one, and reduced, in this order because it is volatile; the byte   *)
(* is loaded at some moment after the location has been read, because _buf *)
(* is not.                                                                 *)
(***************************************************************************)
EXTENDS MyBuffer

CONSTANTS
  Bytes,     \* what can come
  NoByte     \* the byte has not been loaded

ASSUME NoByteAssumption == NoByte \notin Bytes

VARIABLES
  rxbuf, rx_wloc, rx_rloc,   \* _rxbuf: _buf, _wloc, _rloc
  rxStage,           \* readable has said yes; get: the last access to _rloc
  rxPos,             \* get: the location that was read
  rxByte             \* get: the byte that was loaded

rxVars == <<rxbuf, rx_wloc, rx_rloc, rxStage, rxPos, rxByte>>

RxTypeOK ==
  /\ rxbuf \in [Elements -> Bytes]
  /\ rx_wloc \in Locations /\ rx_rloc \in Elements
  /\ rxStage \in {"idle", "readable", "read", "written", "reduced"}
  /\ rxPos \in Locations
  /\ rxByte \in Bytes \cup {NoByte}

(* clear fills the array with zeros.                                        *)
RxInit ==
  /\ \E b \in Bytes : rxbuf = [i \in Elements |-> b]
  /\ rx_wloc = 0 /\ rx_rloc = 0
  /\ rxStage = "idle" /\ rxPos = 0 /\ rxByte = NoByte

(* The receive interrupt with a byte in the data register.                  *)
rxIrq(b) ==
  /\ rxbuf' = [rxbuf EXCEPT ![rx_wloc] = b]
  /\ rx_wloc' = Reduce(rx_wloc + 1)
  /\ UNCHANGED <<rx_rloc, rxStage, rxPos, rxByte>>

(* readable.  Only the main program moves _rloc, so the answer is that of   *)
(* the moment at which _wloc is loaded, whichever of the two comes first.   *)
readable ==
  /\ rxStage = "idle" /\ available(rx_wloc, rx_rloc)
  /\ rxStage' = "readable"
  /\ UNCHANGED <<rxbuf, rx_wloc, rx_rloc, rxPos, rxByte>>

(* The first access of get, which does not ask again.                       *)
GetLocation ==
  /\ rxStage = "readable"
  /\ rxPos' = rx_rloc
  /\ rxStage' = "read"
  /\ UNCHANGED <<rxbuf, rx_wloc, rx_rloc, rxByte>>

getting == rxStage \in {"read", "written", "reduced"}

(* The variant that looks the byte up at the location after the increment.  *)
LoadNextByte ==
  /\ getting /\ rxByte = NoByte
  /\ rxByte' = rxbuf[rx_rloc]
  /\ UNCHANGED <<rxbuf, rx_wloc, rx_rloc, rxStage, rxPos>>

LoadByte ==
  /\ getting /\ rxByte = NoByte
  /\ rxByte' = rxbuf[rxPos]
  /\ UNCHANGED <<rxbuf, rx_wloc, rx_rloc, rxStage, rxPos>>

WriteLocation ==
  /\ rxStage = "read"
  /\ rx_rloc' = rxPos + 1
  /\ rxStage' = "written"
  /\ UNCHANGED <<rxbuf, rx_wloc, rxPos, rxByte>>

ReduceLocation ==
  /\ rxStage = "written"
  /\ rx_rloc' = Reduce(rx_rloc)
  /\ rxStage' = "reduced"
  /\ UNCHANGED <<rxbuf, rx_wloc, rxPos, rxByte>>

getcDone ==
  /\ rxStage = "reduced" /\ rxByte # NoByte
  /\ rxStage' = "idle"
  /\ rxByte' = NoByte
  /\ UNCHANGED <<rxbuf, rx_wloc, rx_rloc, rxPos>>

RxNext ==
  \/ \E b \in Bytes : rxIrq(b)
  \/ readable \/ GetLocation \/ LoadByte \/ WriteLocation \/ ReduceLocation \/ getcDone

RxSpec == RxInit /\ [][RxNext]_rxVars

(* The oldest byte nobody has begun to read: get has decided where it will  *)
(* be as soon as it has read the location.                                  *)
oldest == IF getting THEN Reduce(rxPos + 1) ELSE rx_rloc

queue == Unread(rxbuf, rx_wloc, oldest)

taken == IF ~getting THEN NoByte
         ELSE IF rxByte = NoByte THEN rxbuf[rxPos] ELSE rxByte

told == rxStage = "readable"

(* All the way round the ring from an empty buffer's locations.             *)
lost == IF told /\ rx_wloc = rx_rloc
        THEN [i \in 1..(Size - 1) |-> rxbuf[Element(rx_rloc, i)]]
        ELSE <<>>

(* _rxbuf is a queue between the interrupt and the main program, wherever   *)
(* in readable and get the interrupt comes and whenever the byte is loaded: *)
(* no byte is doubled or out of order, and none lost but by one that finds  *)
(* the buffer full.  get does not ask again, so one that does so between    *)
(* readable and get lets get take from an empty buffer: the bytes that come *)
(* back are exactly those the overrun had hidden, in order, none from       *)
(* before them (BufferedSerial.cpp:43-56, 120-128, utils.cpp:222-223).      *)
Q == INSTANCE ByteQueue
RefinesByteQueue == Q!Spec
=============================================================================
