----------------------------- MODULE UsbDevice -----------------------------
(***************************************************************************)
(* The USB device stack (USBDevice.cpp, USBCDC.cpp, USBHAL_STM32.cpp): the *)
(* control transfers on endpoint 0, the device state, the terminal's       *)
(* connection with the deep sleep lock it holds, and the bulk endpoints.   *)
(*                                                                         *)
(* Everything but write runs in the USB interrupt, to completion.  write   *)
(* runs in the main program, which polls for the end of its transmission.  *)
(* The host takes its side of the protocol: setup, data packets until all  *)
(* or a short one, status; it may give up with a new setup or a bus reset. *)
(* A descriptor is told by its length, and a packet by how long it is.     *)
(***************************************************************************)
EXTENDS Integers, FiniteSetsExt

CONSTANTS
  MAX_PACKET_SIZE_EP0,   \* 64
  CodingLength,     \* 7, the length of cdc_line_coding
  Requests,         \* what the host asks for
  Prompt,           \* a write sees that the device is not configured before the host
                    \* configures it again
  MaxEvents         \* bound: resets and requests of a behaviour

ASSUME SizesAssumption ==
  /\ MAX_PACKET_SIZE_EP0 \in Nat \ {0} /\ CodingLength \in 1..MAX_PACKET_SIZE_EP0 - 1
  /\ MaxEvents \in Nat /\ Prompt \in BOOLEAN
  /\ Requests \subseteq
       [request : {"GET_STATUS", "CLEAR_FEATURE", "SET_FEATURE", "SET_ADDRESS",
                   "GET_DESCRIPTOR", "GET_CONFIGURATION", "SET_CONFIGURATION",
                   "GET_INTERFACE", "SET_INTERFACE", "CDC_GET_LINE_CODING",
                   "CDC_SET_LINE_CODING", "CDC_SET_CONTROL_LINE_STATE"},
        wValue : Nat, wLength : Nat]

VARIABLES
  d,        \* the device: USBDevice, USBCDC and the endpoints of USBHAL
  host,     \* the host: its stage of the control transfer, bytes of data so far
  pc,       \* write: its next step
  taken,    \* write: the host has taken its packet
  revoked,  \* history: the host has halted or reopened the endpoint of this write
  events    \* resets and requests so far

vars == <<d, host, pc, taken, revoked, events>>

NAK == -1
STALL == -2
Sizes == 0..MAX_PACKET_SIZE_EP0

DEFAULT_CONFIGURATION == 1
ToHost == {"GET_STATUS", "GET_DESCRIPTOR", "GET_CONFIGURATION", "GET_INTERFACE",
           "CDC_GET_LINE_CODING"}
Nothing == [request |-> "GET_STATUS", wValue |-> 0, wLength |-> 0]

TypeOK ==
  /\ d \in [state : {"POWERED", "DEFAULT", "ADDRESS", "CONFIGURED"},
            configuration : Nat,
            setup : Requests \cup {Nothing},
            remaining : Nat, direction : {"HOST_TO_DEVICE", "DEVICE_TO_HOST"},
            zlp : BOOLEAN, notify : BOOLEAN,
            in : Sizes \cup {NAK, STALL}, out : {"nak", "armed", "stall"},
            bulkIn : {"nak", "armed", "stall"}, bulkOut : {"nak", "armed", "stall"},
            written : 0..2,
            coding : {"old", "new"},
            terminal_connected : BOOLEAN, locks : Int]
  /\ host \in [stage : {"none", "in", "out", "statusIn", "statusOut"}, data : Nat]
  /\ pc \in {"idle", "result", "configured"}
  /\ taken \in BOOLEAN /\ revoked \in BOOLEAN
  /\ events \in 0..MaxEvents

Init ==
  /\ d = [state |-> "POWERED", configuration |-> 0, setup |-> Nothing,
          remaining |-> 0, direction |-> "HOST_TO_DEVICE", zlp |-> FALSE, notify |-> FALSE,
          in |-> NAK, out |-> "nak", bulkIn |-> "nak", bulkOut |-> "nak", written |-> 0,
          coding |-> "old", terminal_connected |-> FALSE, locks |-> 0]
  /\ host = [stage |-> "none", data |-> 0]
  /\ pc = "idle" /\ taken = FALSE /\ revoked = FALSE /\ events = 0

(***************************************************************************)
(* Endpoint 0                                                              *)
(***************************************************************************)
EP0write(x, size) == [x EXCEPT !.in = size]
EP0read(x) == [x EXCEPT !.out = "armed"]
EP0stall(x) == [x EXCEPT !.in = STALL, !.out = "stall"]

Refused(x) == [ok |-> FALSE, d |-> x]
Accepted(x) == [ok |-> TRUE, d |-> x]
Answer(x, length) ==
  Accepted([x EXCEPT !.remaining = length, !.direction = "DEVICE_TO_HOST"])

(***************************************************************************)
(* Requests of the class                                                   *)
(***************************************************************************)
Unlock(x) ==
  [x EXCEPT !.locks = IF x.terminal_connected THEN @ - 1 ELSE @,
            !.terminal_connected = FALSE]

(* The variant that releases the lock whether or not it holds it.           *)
LineStateAlways(x) ==
  IF x.setup.wValue = 1
  THEN [x EXCEPT !.terminal_connected = TRUE, !.locks = @ + 1]
  ELSE [x EXCEPT !.terminal_connected = FALSE, !.locks = @ - 1]

(* wValue is DTR.                                                           *)
LineState(x) ==
  IF x.setup.wValue = 1
  THEN [x EXCEPT !.terminal_connected = TRUE, !.locks = @ + 1]
  ELSE Unlock(x)

USBCallback_request(x) ==
  CASE x.setup.request = "CDC_GET_LINE_CODING" -> Answer(x, CodingLength)
    [] x.setup.request = "CDC_SET_LINE_CODING" ->
         Accepted([x EXCEPT !.remaining = CodingLength, !.notify = TRUE])
    [] x.setup.request = "CDC_SET_CONTROL_LINE_STATE" -> Accepted(LineState(x))
    [] OTHER -> Refused(x)

(* buf holds the new coding when the last packet has all of it.             *)
USBCallback_requestCompleted(x, size) ==
  IF size = CodingLength /\ x.setup.request = "CDC_SET_LINE_CODING"
  THEN [x EXCEPT !.coding = "new"] ELSE x

(***************************************************************************)
(* Standard requests                                                       *)
(***************************************************************************)

(* The variant that does not start the first reception.                     *)
setConfigurationUnread(x) ==
  LET y == [x EXCEPT !.configuration = x.setup.wValue]
  IN  IF y.configuration = 0 THEN Accepted([y EXCEPT !.state = "ADDRESS"])
      ELSE IF y.configuration # DEFAULT_CONFIGURATION THEN Refused(y)
      ELSE Accepted([y EXCEPT !.state = "CONFIGURED", !.bulkIn = "nak"])

(* USBCallback_setConfiguration opens the endpoints and starts to receive.  *)
requestSetConfiguration(x) ==
  LET y == [x EXCEPT !.configuration = x.setup.wValue]
  IN  IF y.configuration = 0 THEN Accepted([y EXCEPT !.state = "ADDRESS"])
      ELSE IF y.configuration # DEFAULT_CONFIGURATION THEN Refused(y)
      ELSE Accepted([y EXCEPT !.state = "CONFIGURED", !.bulkIn = "nak", !.bulkOut = "armed"])

requestSetAddress(x) ==
  Accepted(EP0write([x EXCEPT !.state = IF x.setup.wValue = 0 THEN "DEFAULT" ELSE "ADDRESS"], 0))

(* Halting an endpoint; 1 is EPBULK_IN and 2 EPBULK_OUT.                    *)
requestSetFeature(x) ==
  IF x.state # "CONFIGURED" THEN Refused(x)
  ELSE IF x.setup.wValue = 1 THEN Accepted([x EXCEPT !.bulkIn = "stall", !.written = 0])
  ELSE Accepted([x EXCEPT !.bulkOut = "stall"])

requestClearFeature(x) ==
  IF x.state # "CONFIGURED" THEN Refused(x)
  ELSE IF x.setup.wValue = 1
       THEN Accepted([x EXCEPT !.bulkIn = IF @ = "stall" THEN "nak" ELSE @])
  ELSE Accepted([x EXCEPT !.bulkOut = IF @ = "stall" THEN "armed" ELSE @])

requestSetup(x) ==
  CASE x.setup.request = "GET_STATUS" -> Answer(x, 2)
    [] x.setup.request = "CLEAR_FEATURE" -> requestClearFeature(x)
    [] x.setup.request = "SET_FEATURE" -> requestSetFeature(x)
    [] x.setup.request = "SET_ADDRESS" -> requestSetAddress(x)
    [] x.setup.request = "GET_DESCRIPTOR" /\ x.setup.wValue > 0 -> Answer(x, x.setup.wValue)
    [] x.setup.request = "GET_CONFIGURATION" -> Answer(x, 1)
    [] x.setup.request = "SET_CONFIGURATION" -> requestSetConfiguration(x)
    [] x.setup.request = "GET_INTERFACE" /\ x.state = "CONFIGURED" -> Answer(x, 1)
    [] OTHER -> Refused(x)

(***************************************************************************)
(* Control transfers                                                       *)
(***************************************************************************)
Completed(x, size) ==
  IF x.notify THEN [USBCallback_requestCompleted(x, size) EXCEPT !.notify = FALSE] ELSE x

controlIn(x) ==
  IF x.remaining = 0
  THEN LET y == IF x.zlp THEN [EP0write(x, 0) EXCEPT !.zlp = FALSE] ELSE x
       IN  Accepted(EP0read(Completed(y, 0)))
  ELSE IF x.direction # "DEVICE_TO_HOST" THEN Refused(x)
  ELSE LET packetSize == Min({x.remaining, MAX_PACKET_SIZE_EP0})
       IN  Accepted([EP0write(x, packetSize) EXCEPT !.remaining = @ - packetSize])

controlOut(x, packetSize) ==
  IF x.direction # "HOST_TO_DEVICE" \/ packetSize > x.remaining
  THEN Refused([x EXCEPT !.out = "nak"])
  ELSE LET y == [x EXCEPT !.remaining = @ - packetSize, !.out = "nak"]
       IN  IF y.remaining = 0 THEN Accepted(EP0write(Completed(y, packetSize), 0))
           ELSE Accepted(EP0read(y))

(* The variant that answers with all it has.                                *)
DataInUnbounded(x) ==
  IF x.direction # "DEVICE_TO_HOST" THEN Refused(x)
  ELSE Accepted(controlIn([x EXCEPT !.zlp = @ \/ x.remaining % MAX_PACKET_SIZE_EP0 = 0]).d)

(* The variant that sends no empty packet after a full one.                 *)
DataInNoZlp(x) ==
  IF x.direction # "DEVICE_TO_HOST" THEN Refused(x)
  ELSE Accepted(controlIn([x EXCEPT !.remaining = Min({@, x.setup.wLength})]).d)

(* At most what the host asked for; an empty packet ends what is less.      *)
DataInStage(x) ==
  IF x.direction # "DEVICE_TO_HOST" THEN Refused(x)
  ELSE LET left == Min({x.remaining, x.setup.wLength})
           zlp == x.setup.wLength > left /\ left % MAX_PACKET_SIZE_EP0 = 0
       IN  Accepted(controlIn([x EXCEPT !.remaining = left, !.zlp = @ \/ zlp]).d)

DataOutStage(x) ==
  IF x.direction # "HOST_TO_DEVICE" \/ x.remaining # x.setup.wLength THEN Refused(x)
  ELSE Accepted(EP0read(x))

(* The checks of the size and direction, and the first packet of the data.  *)
Stages(x) ==
  IF x.setup.wLength = 0
  THEN IF x.remaining # 0 THEN Refused(x) ELSE Accepted(EP0write(x, 0))
  ELSE IF x.setup.request \in ToHost THEN DataInStage(x)
  ELSE DataOutStage(x)

controlSetup(x, r) ==
  LET y == [x EXCEPT !.setup = r, !.remaining = 0, !.direction = "HOST_TO_DEVICE",
                     !.zlp = FALSE, !.notify = FALSE]
      class == USBCallback_request(y)
      standard == requestSetup(y)
  IN  IF class.ok THEN Stages(class.d)
      ELSE IF standard.ok THEN Stages(standard.d)
      ELSE Refused(standard.d)

StallUnless(answer) == IF answer.ok THEN answer.d ELSE EP0stall(answer.d)

(***************************************************************************)
(* The host's transactions and the interrupts they cause                   *)
(***************************************************************************)
Waiting == pc # "idle"

(* A configured device opens its endpoints anew when it is told to again:   *)
(* a packet that waits in one is gone.                                      *)
Revokes(r) ==
  /\ d.state = "CONFIGURED"
  /\ \/ r.request = "SET_FEATURE" /\ r.wValue = 1
     \/ r.request = "SET_CONFIGURATION" /\ r.wValue = DEFAULT_CONFIGURATION

Setup(r) ==
  /\ d.state # "POWERED" /\ events < MaxEvents /\ events' = events + 1
  /\ Prompt /\ r.request = "SET_CONFIGURATION" /\ Waiting => d.state = "CONFIGURED"
  /\ d' = EP0read(StallUnless(controlSetup([d EXCEPT !.in = NAK, !.out = "nak"], r)))
  /\ host' = [stage |-> IF r.wLength = 0 THEN "statusIn"
                        ELSE IF r.request \in ToHost THEN "in" ELSE "out",
              data |-> 0]
  /\ revoked' = (revoked \/ Revokes(r))
  /\ UNCHANGED <<pc, taken>>

(* The host takes a packet; it has the data when it has all, or a short one.*)
DataIn ==
  LET data == host.data + d.in
      last == data = d.setup.wLength \/ d.in < MAX_PACKET_SIZE_EP0
  IN  /\ host.stage = "in" /\ d.in \in Sizes
      /\ host' = IF last THEN [stage |-> "statusOut", data |-> data]
                 ELSE [host EXCEPT !.data = data]
      /\ d' = StallUnless(controlIn([d EXCEPT !.in = NAK]))
      /\ UNCHANGED <<pc, taken, revoked, events>>

DataOut ==
  LET packetSize == Min({d.setup.wLength - host.data, MAX_PACKET_SIZE_EP0})
      data == host.data + packetSize
  IN  /\ host.stage = "out" /\ d.out = "armed"
      /\ host' = [stage |-> IF data = d.setup.wLength THEN "statusIn" ELSE "out", data |-> data]
      /\ d' = StallUnless(controlOut(d, packetSize))
      /\ UNCHANGED <<pc, taken, revoked, events>>

StatusIn ==
  /\ host.stage = "statusIn" /\ d.in \in Sizes
  /\ host' = [host EXCEPT !.stage = "none"]
  /\ d' = StallUnless(controlIn([d EXCEPT !.in = NAK]))
  /\ UNCHANGED <<pc, taken, revoked, events>>

StatusOut ==
  /\ host.stage = "statusOut" /\ d.out = "armed"
  /\ host' = [host EXCEPT !.stage = "none"]
  /\ d' = StallUnless(controlOut(d, 0))
  /\ UNCHANGED <<pc, taken, revoked, events>>

(* The host meets a stall, and gives up.                                    *)
Stalled ==
  /\ \/ host.stage \in {"in", "statusIn"} /\ d.in = STALL
     \/ host.stage \in {"out", "statusOut"} /\ d.out = "stall"
  /\ host' = [host EXCEPT !.stage = "none"]
  /\ UNCHANGED <<d, pc, taken, revoked, events>>

(* HAL_PCD_ResetCallback: endpoints closed, busReset, endpoint 0 opened.    *)
busReset ==
  /\ events < MaxEvents /\ events' = events + 1
  /\ d' = [Unlock(d) EXCEPT !.state = "DEFAULT", !.configuration = 0, !.written = 0,
             !.in = NAK, !.out = "nak", !.bulkIn = "nak", !.bulkOut = "nak"]
  /\ host' = [host EXCEPT !.stage = "none"]
  /\ UNCHANGED <<pc, taken, revoked>>

(* A bulk packet from the host: EPBULK_OUT_callback reads it, and receives  *)
(* again, if the device is configured.                                      *)
BulkOut ==
  /\ d.bulkOut = "armed"
  /\ d' = [d EXCEPT !.bulkOut = IF d.state = "CONFIGURED" THEN "armed" ELSE "nak"]
  /\ UNCHANGED <<host, pc, taken, revoked, events>>

(* The host takes the packet of write.                                      *)
BulkIn ==
  /\ d.bulkIn = "armed"
  /\ d' = [d EXCEPT !.bulkIn = "nak", !.written = 1]
  /\ taken' = TRUE
  /\ UNCHANGED <<host, pc, revoked, events>>

(***************************************************************************)
(* write, in the main program                                              *)
(***************************************************************************)

(* The variant that does not start with a transmission to wait for.         *)
WriteStale ==
  /\ pc = "idle" /\ d.terminal_connected /\ d.state = "CONFIGURED"
  /\ d' = [d EXCEPT !.bulkIn = IF @ = "stall" THEN @ ELSE "armed"]
  /\ taken' = FALSE /\ revoked' = (d.bulkIn = "stall")
  /\ pc' = "result"
  /\ UNCHANGED <<host, events>>

Write ==
  /\ pc = "idle" /\ d.terminal_connected /\ d.state = "CONFIGURED"
  /\ d' = [d EXCEPT !.written = 2, !.bulkIn = IF @ = "stall" THEN @ ELSE "armed"]
  /\ taken' = FALSE /\ revoked' = (d.bulkIn = "stall")
  /\ pc' = "result"
  /\ UNCHANGED <<host, events>>

WriteResult ==
  /\ pc = "result"
  /\ pc' = IF d.written = 1 THEN "idle" ELSE "configured"
  /\ UNCHANGED <<d, host, taken, revoked, events>>

(* The variant that only waits for the transmission.                        *)
WriteOn ==
  /\ pc = "configured" /\ pc' = "result"
  /\ UNCHANGED <<d, host, taken, revoked, events>>

WriteConfigured ==
  /\ pc = "configured"
  /\ pc' = IF d.state = "CONFIGURED" THEN "result" ELSE "idle"
  /\ UNCHANGED <<d, host, taken, revoked, events>>

Next ==
  \/ \E r \in Requests : Setup(r)
  \/ DataIn \/ DataOut \/ StatusIn \/ StatusOut \/ Stalled
  \/ busReset \/ BulkOut \/ BulkIn
  \/ Write \/ WriteResult \/ WriteConfigured

Spec == Init /\ [][Next]_vars

(* The main program polls and the host takes what waits for it.             *)
FairSpec == Spec /\ WF_vars(WriteResult \/ WriteConfigured) /\ WF_vars(BulkIn)

(***************************************************************************)
(* Properties                                                              *)
(***************************************************************************)

(* The host is never left waiting in a control transfer: what it wants to   *)
(* take is there, what it wants to send is received, or it is told with a   *)
(* stall (USBDevice.cpp:186-286, 539-659).                                  *)
HostNeverWaits ==
  /\ host.stage \in {"in", "statusIn"} => d.in # NAK
  /\ host.stage \in {"out", "statusOut"} => d.out # "nak"

(* What there is to send in answer to a request.                            *)
Length(r) ==
  CASE r.request = "GET_DESCRIPTOR" -> r.wValue
    [] r.request = "GET_STATUS" -> 2
    [] r.request = "CDC_GET_LINE_CODING" -> CodingLength
    [] OTHER -> 1

(* The data the host has taken at the end of a transfer is as much as it    *)
(* asked for, or all there is; a full last packet is no end                 *)
(* (USBDevice.cpp:595-641).                                                 *)
AnswersInFull ==
  host.stage = "statusOut" => host.data = Min({d.setup.wLength, Length(d.setup)})

(* While a terminal is connected the device does not go into deep sleep,    *)
(* and no lock is released that was not taken (USBCDC.cpp:46-50, 73-81).    *)
LockHeld == d.locks >= 0 /\ (d.terminal_connected => d.locks >= 1)

(* A configured device always receives: its bulk endpoint is armed again    *)
(* after each packet, reset and new configuration (USBCDC.cpp:121-146).     *)
Receives == d.state = "CONFIGURED" => d.bulkOut # "nak"

(* The invariant of the device: states, endpoints and lengths keep their    *)
(* types, and a configured device receives (USBDevice.cpp:186-659,          *)
(* USBCDC.cpp:121-146).                                                     *)
DeviceInv == TypeOK /\ Receives

(* A write that ends well was taken by the host, not by an earlier packet's *)
(* end, a reset or a new configuration (USBDevice.cpp:824-852).             *)
SentWhenTrue == [][pc = "result" /\ pc' = "idle" => taken]_vars

(* A write ends, when the host takes packets, whatever else it asks for and *)
(* however often it resets the bus, unless it halts the endpoint or         *)
(* configures the configured device again while the packet waits: then the  *)
(* write never does (USBDevice.cpp:846-849, USBCDC.cpp:121-134).            *)
WriteEnds == Waiting ~> (~Waiting \/ revoked)
=============================================================================
