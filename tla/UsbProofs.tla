------------------------------ MODULE UsbProofs ------------------------------
(***************************************************************************)
(* The USB port.                                                           *)
(*                                                                         *)
(* Its device, for packets of any size and any requests: no control        *)
(* transfer leaves the host waiting or with less than it could have, the   *)
(* deep sleep lock is balanced, a configured device receives, and write    *)
(* tells the truth.                                                        *)
(*                                                                         *)
(* Its receive queue, for a buffer and packets of any size: bytes are read *)
(* in order, are lost only when one finds the buffer full, and getc does   *)
(* not wait after readable.                                                *)
(***************************************************************************)
EXTENDS UsbDevice, UsbReceive, TLAPS


(* What the host gets in answer to the request, and what of it neither it   *)
(* nor its next packet has yet.                                             *)
Total == Min({d.setup.wLength, Length(d.setup)})
Left  == d.in + d.remaining

(* Data to the host: every packet but the last is full, and an empty one    *)
(* follows a full last packet if the host asked for more.                   *)
InStage ==
  host.stage = "in" =>
    \/ d.in = STALL
    \/ /\ d.in \in Sizes /\ d.direction = "DEVICE_TO_HOST"
       /\ host.data + Left = Total
       /\ d.remaining > 0 => d.in = MAX_PACKET_SIZE_EP0
       /\ d.zlp <=> d.setup.wLength > Total /\ Left > 0 /\ Left % MAX_PACKET_SIZE_EP0 = 0

(* Data from the host: either as much as the device waits for, or a request *)
(* that was refused.  A refused one is received all the same, since EP0read *)
(* follows the stall, and refused again with its first packet; what is too  *)
(* short for that meets the stall at its status stage.                      *)
OutStage ==
  host.stage = "out" =>
    \/ d.in = STALL /\ d.out = "stall"
    \/ /\ d.out = "armed" /\ d.direction = "HOST_TO_DEVICE"
       /\ \/ host.data < d.setup.wLength /\ d.remaining = d.setup.wLength - host.data
          \/ /\ d.in = STALL /\ host.data = 0 /\ d.setup.wLength > 0
             /\ d.remaining \in {0, CodingLength} \ {d.setup.wLength}

(* While write waits, its result says that the host has taken the packet.   *)
WriteInv == Waiting /\ d.written = 1 => taken

ControlInv == InStage /\ OutStage /\ HostNeverWaits /\ AnswersInFull

Inv == DeviceInv /\ LockHeld /\ WriteInv /\ ControlInv

(***************************************************************************)
(* Numbers                                                                 *)
(***************************************************************************)

LEMMA MinIs ==
  ASSUME NEW a \in Nat, NEW b \in Nat
  PROVE  Min({a, b}) = IF a <= b THEN a ELSE b
<1> DEFINE m == IF a <= b THEN a ELSE b
<1>1. m \in {a, b} /\ \A y \in {a, b} : m =< y
  OBVIOUS
<1>2. \A x \in {a, b} : (\A y \in {a, b} : x =< y) => x = m
  OBVIOUS
<1> QED
  BY <1>1, <1>2 DEF Min

LEMMA ModMinus ==
  ASSUME NEW m \in Nat \ {0}, NEW a \in Nat, a >= m
  PROVE  (a - m) % m = a % m
<1>1. a - m \in Nat /\ a \div m \in Int /\ (a - m) \div m \in Int
  OBVIOUS
<1>2. (a - m) \div m = (a \div m) - 1
  BY Z3
<1>3. (a - m) % m = (a - m) - m * ((a - m) \div m)
  BY <1>1
<1>4. a % m = a - m * (a \div m)
  OBVIOUS
<1>5. \A q \in Int : (a - m) - m * (q - 1) = a - m * q
  OBVIOUS
<1> QED
  BY <1>1, <1>2, <1>3, <1>4, <1>5

LEMMA ModSelf == ASSUME NEW m \in Nat \ {0} PROVE m % m = 0
OBVIOUS

LEMMA ModLess ==
  ASSUME NEW m \in Nat \ {0}, NEW a \in Nat, a < m, a % m = 0
  PROVE  a = 0
OBVIOUS

(***************************************************************************)
(* The device                                                              *)
(***************************************************************************)

Device ==
  [state : {"POWERED", "DEFAULT", "ADDRESS", "CONFIGURED"},
   configuration : Nat,
   setup : Requests \cup {Nothing},
   remaining : Nat, direction : {"HOST_TO_DEVICE", "DEVICE_TO_HOST"},
   zlp : BOOLEAN, notify : BOOLEAN,
   in : Sizes \cup {NAK, STALL}, out : {"nak", "armed", "stall"},
   bulkIn : {"nak", "armed", "stall"}, bulkOut : {"nak", "armed", "stall"},
   written : 0..2,
   coding : {"old", "new"},
   terminal_connected : BOOLEAN, locks : Int]

(* A device that receives if it is configured, and holds its lock.          *)
Sound(x) ==
  /\ x \in Device
  /\ x.state = "CONFIGURED" => x.bulkOut # "nak"
  /\ x.locks >= 0 /\ (x.terminal_connected => x.locks >= 1)

(* Part of the work on one request: y comes of x.                           *)
Becomes(x, y) ==
  Sound(y) /\ y.setup = x.setup /\ y.written \in {0, x.written}

LEMMA RequestsAre ==
  ASSUME NEW r \in Requests \cup {Nothing}
  PROVE  /\ r.wValue \in Nat /\ r.wLength \in Nat
         /\ Length(r) \in Nat
BY SizesAssumption DEF Nothing, Length

(* The helpers that touch endpoints and counters leave the device sound.    *)
LEMMA EndpointSteps ==
  ASSUME NEW x, Sound(x)
  PROVE  /\ \A bytes \in Sizes : Becomes(x, EP0write(x, bytes))
         /\ Becomes(x, EP0read(x)) /\ Becomes(x, EP0stall(x))
         /\ Becomes(x, [x EXCEPT !.in = NAK]) /\ Becomes(x, [x EXCEPT !.out = "nak"])
         /\ Becomes(x, [x EXCEPT !.zlp = FALSE]) /\ Becomes(x, [x EXCEPT !.notify = FALSE])
         /\ \A n \in Nat : Becomes(x, [x EXCEPT !.remaining = n])
<1> USE DEF Sound, Device, Becomes
<1>1. \A bytes \in Sizes : Becomes(x, EP0write(x, bytes))
  BY DEF EP0write
<1>2. Becomes(x, EP0read(x))
  BY DEF EP0read
<1>3. Becomes(x, EP0stall(x))
  BY DEF EP0stall
<1>4. Becomes(x, [x EXCEPT !.in = NAK]) /\ Becomes(x, [x EXCEPT !.out = "nak"])
  OBVIOUS
<1>5. Becomes(x, [x EXCEPT !.zlp = FALSE])
  OBVIOUS
<1>6. Becomes(x, [x EXCEPT !.notify = FALSE])
  OBVIOUS
<1>7. \A n \in Nat : Becomes(x, [x EXCEPT !.remaining = n])
  OBVIOUS
<1> QED
  BY <1>1, <1>2, <1>3, <1>4, <1>5, <1>6, <1>7

(* Releasing the lock goes with disconnecting the terminal.                 *)
LEMMA UnlockStep ==
  ASSUME NEW x, Sound(x)
  PROVE  Becomes(x, Unlock(x)) /\ Unlock(x).state = x.state
<1>1. CASE x.terminal_connected
  <2>1. Unlock(x) = [x EXCEPT !.locks = x.locks - 1, !.terminal_connected = FALSE]
    BY <1>1 DEF Sound, Device, Unlock
  <2>2. x.locks - 1 \in Int /\ x.locks - 1 >= 0
    BY <1>1 DEF Sound, Device
  <2>3. Unlock(x) \in Device
    BY <2>1, <2>2 DEF Sound, Device
  <2>4. /\ Unlock(x).locks = x.locks - 1 /\ ~Unlock(x).terminal_connected
        /\ Unlock(x).state = x.state /\ Unlock(x).bulkOut = x.bulkOut
        /\ Unlock(x).setup = x.setup /\ Unlock(x).written = x.written
    BY <2>1 DEF Sound, Device
  <2> QED
    BY <2>2, <2>3, <2>4 DEF Sound, Becomes
<1>2. CASE ~x.terminal_connected
  <2>1. Unlock(x) = [x EXCEPT !.locks = x.locks, !.terminal_connected = FALSE]
    BY <1>2 DEF Sound, Device, Unlock
  <2> QED
    BY <1>2, <2>1 DEF Sound, Device, Becomes
<1> QED
  BY <1>1, <1>2

(***************************************************************************)
(* Requests                                                                *)
(***************************************************************************)

(* controlSetup's transfer before the request is looked at. *)
Fresh(x) ==
  Sound(x) /\ x.setup \in Requests /\ x.remaining = 0 /\ x.direction = "HOST_TO_DEVICE" /\ ~x.zlp

(* A request of the host for data is answered with all there is, and no     *)
(* other request turns the transfer round.                                  *)
Answered(x, a) ==
  /\ Becomes(x, a.d)
  /\ ~a.d.zlp
  /\ IF x.setup.request \in ToHost
       THEN a.ok => /\ a.d.direction = "DEVICE_TO_HOST"
                    /\ a.d.remaining = Length(x.setup) /\ Length(x.setup) > 0
       ELSE a.d.direction = "HOST_TO_DEVICE" /\ a.d.remaining \in {0, CodingLength}

LEMMA AnswerIs ==
  ASSUME NEW x, Fresh(x), x.setup.request \in ToHost, Length(x.setup) > 0
  PROVE  Answered(x, Answer(x, Length(x.setup)))
<1>1. Length(x.setup) \in Nat
  BY RequestsAre DEF Fresh
<1> DEFINE n == Length(x.setup)
<1> HIDE DEF n
<1>2. Answer(x, n).d = [x EXCEPT !.remaining = n, !.direction = "DEVICE_TO_HOST"]
  BY DEF Answer, Accepted
<1>3. n \in Nat
  BY <1>1 DEF n
<1>4. /\ Becomes(x, Answer(x, n).d) /\ ~Answer(x, n).d.zlp
      /\ Answer(x, n).d.direction = "DEVICE_TO_HOST" /\ Answer(x, n).d.remaining = n
  BY <1>2, <1>3 DEF Fresh, Sound, Device, Becomes
<1> QED
  BY <1>4 DEF Answered, n

LEMMA RefusedIs ==
  ASSUME NEW x, Fresh(x)
  PROVE  Answered(x, Refused(x))
BY DEF Fresh, Answered, Refused, Becomes, Sound, Device

LEMMA LineStateIs ==
  ASSUME NEW x, Sound(x)
  PROVE  /\ Becomes(x, LineState(x)) /\ LineState(x).zlp = x.zlp
         /\ LineState(x).direction = x.direction /\ LineState(x).remaining = x.remaining
<1>1. CASE x.setup.wValue = 1
  <2>1. LineState(x) = [x EXCEPT !.terminal_connected = TRUE, !.locks = x.locks + 1]
    BY <1>1 DEF LineState, Sound, Device
  <2>2. x.locks + 1 \in Int /\ x.locks + 1 >= 1
    BY DEF Sound, Device
  <2>3. LineState(x) \in Device
    BY <2>1, <2>2 DEF Sound, Device
  <2>4. /\ LineState(x).locks = x.locks + 1 /\ LineState(x).zlp = x.zlp
        /\ LineState(x).state = x.state /\ LineState(x).bulkOut = x.bulkOut
        /\ LineState(x).setup = x.setup /\ LineState(x).written = x.written
        /\ LineState(x).direction = x.direction /\ LineState(x).remaining = x.remaining
    BY <2>1 DEF Sound, Device
  <2> QED
    BY <2>2, <2>3, <2>4 DEF Sound, Becomes
<1>2. CASE x.setup.wValue # 1
  <2>1. LineState(x) = Unlock(x)
    BY <1>2 DEF LineState
  <2>2. /\ Unlock(x).zlp = x.zlp
        /\ Unlock(x).direction = x.direction /\ Unlock(x).remaining = x.remaining
    BY DEF Unlock, Sound, Device
  <2> QED
    BY <2>1, <2>2, UnlockStep
<1> QED
  BY <1>1, <1>2

(* Every request of the serial class.                                       *)
LEMMA CallbackIs ==
  ASSUME NEW x, Fresh(x)
  PROVE  Answered(x, USBCallback_request(x))
<1>1. CASE x.setup.request = "CDC_GET_LINE_CODING"
  <2>1. Length(x.setup) = CodingLength /\ CodingLength > 0 /\ x.setup.request \in ToHost
    BY <1>1, SizesAssumption DEF Length, ToHost
  <2>2. USBCallback_request(x) = Answer(x, CodingLength)
    BY <1>1 DEF USBCallback_request
  <2> QED
    BY <2>1, <2>2, AnswerIs
<1>2. CASE x.setup.request = "CDC_SET_LINE_CODING"
  <2>1. USBCallback_request(x).d = [x EXCEPT !.remaining = CodingLength, !.notify = TRUE]
    BY <1>2 DEF USBCallback_request, Accepted
  <2>2. x.setup.request \notin ToHost /\ CodingLength \in Nat
    BY <1>2, SizesAssumption DEF ToHost
  <2> DEFINE y == [x EXCEPT !.remaining = CodingLength, !.notify = TRUE]
  <2>3. /\ y \in Device /\ y.setup = x.setup /\ y.written = x.written /\ ~y.zlp
        /\ y.state = x.state /\ y.bulkOut = x.bulkOut /\ y.locks = x.locks
        /\ y.terminal_connected = x.terminal_connected
        /\ y.direction = x.direction /\ y.remaining = CodingLength
    BY <2>2 DEF Fresh, Sound, Device
  <2> HIDE DEF y
  <2>4. Becomes(x, y)
    BY <2>3 DEF Fresh, Sound, Becomes
  <2> QED
    BY <2>1, <2>2, <2>3, <2>4 DEF Answered, Fresh, y
<1>3. CASE x.setup.request = "CDC_SET_CONTROL_LINE_STATE"
  <2>1. USBCallback_request(x) = Accepted(LineState(x)) /\ x.setup.request \notin ToHost
    BY <1>3 DEF USBCallback_request, ToHost
  <2> QED
    BY <2>1, LineStateIs DEF Answered, Accepted, Fresh
<1>4. CASE x.setup.request \notin {"CDC_GET_LINE_CODING", "CDC_SET_LINE_CODING",
                                  "CDC_SET_CONTROL_LINE_STATE"}
  <2>1. USBCallback_request(x) = Refused(x)
    BY <1>4 DEF USBCallback_request
  <2> QED
    BY <2>1, RefusedIs
<1> QED
  BY <1>1, <1>2, <1>3, <1>4

(* A request that leaves the transfer alone. *)
LEMMA PlainIs ==
  ASSUME NEW x, Fresh(x), x.setup.request \notin ToHost,
         NEW a, Becomes(x, a.d), a.d.remaining = x.remaining,
         a.d.direction = x.direction, ~a.d.zlp
  PROVE  Answered(x, a)
BY DEF Answered, Fresh

LEMMA SetConfigurationIs ==
  ASSUME NEW x, Fresh(x), x.setup.request = "SET_CONFIGURATION"
  PROVE  Answered(x, requestSetConfiguration(x))
<1> DEFINE a == requestSetConfiguration(x)
<1>1. x.setup.wValue \in Nat /\ x.setup.request \notin ToHost
  BY RequestsAre DEF Fresh, ToHost
<1>2. /\ a.d \in Device /\ a.d.setup = x.setup /\ a.d.written = x.written
      /\ a.d.remaining = x.remaining /\ a.d.direction = x.direction
      /\ a.d.locks = x.locks /\ (a.d.terminal_connected <=> x.terminal_connected)
      /\ a.d.state = "CONFIGURED" => a.d.bulkOut # "nak"
      /\ ~a.d.zlp
  <2> DEFINE v == x.setup.wValue
             y == [x EXCEPT !.configuration = v]
  <2>1. /\ y \in Device /\ y.configuration = v /\ y.setup = x.setup /\ y.written = x.written
        /\ y.remaining = x.remaining /\ y.direction = x.direction
        /\ y.locks = x.locks /\ (y.terminal_connected <=> x.terminal_connected)
        /\ y.state = x.state /\ y.bulkOut = x.bulkOut /\ ~y.zlp
    BY <1>1 DEF Fresh, Sound, Device
  <2>2. a.d = IF v = 0 THEN [y EXCEPT !.state = "ADDRESS"]
              ELSE IF v # DEFAULT_CONFIGURATION THEN y
              ELSE [y EXCEPT !.state = "CONFIGURED", !.bulkIn = "nak", !.bulkOut = "armed"]
    BY <2>1 DEF requestSetConfiguration, Accepted, Refused
  <2> HIDE DEF y, a, v
  <2>3. CASE v = 0
    BY <2>1, <2>2, <2>3 DEF Device
  <2>4. CASE v # 0 /\ v # DEFAULT_CONFIGURATION
    BY <2>1, <2>2, <2>4 DEF Fresh, Sound
  <2>5. CASE v = DEFAULT_CONFIGURATION
    <3>1. a.d = [y EXCEPT !.state = "CONFIGURED", !.bulkIn = "nak", !.bulkOut = "armed"]
      BY <2>2, <2>5 DEF DEFAULT_CONFIGURATION
    <3>2. a.d \in Device
      BY <2>1, <3>1 DEF Device
    <3>3. /\ a.d.setup = y.setup /\ a.d.written = y.written /\ (a.d.zlp <=> y.zlp)
          /\ a.d.remaining = y.remaining /\ a.d.direction = y.direction
          /\ a.d.locks = y.locks /\ (a.d.terminal_connected <=> y.terminal_connected)
          /\ a.d.bulkOut = "armed"
      BY <2>1, <3>1 DEF Device
    <3> QED
      BY <2>1, <3>2, <3>3
  <2> QED
    BY <2>3, <2>4, <2>5
<1> HIDE DEF a
<1>3. Becomes(x, a.d)
  BY <1>2 DEF Fresh, Sound, Becomes
<1> QED
  BY <1>1, <1>2, <1>3, PlainIs DEF a

LEMMA SetAddressIs ==
  ASSUME NEW x, Fresh(x), x.setup.request = "SET_ADDRESS"
  PROVE  Answered(x, requestSetAddress(x))
<1> DEFINE a == requestSetAddress(x)
           st == IF x.setup.wValue = 0 THEN "DEFAULT" ELSE "ADDRESS"
<1>1. a.d = [x EXCEPT !.state = st, !.in = 0]
  BY DEF requestSetAddress, Accepted, EP0write, Fresh, Sound, Device
<1>2. 0 \in Sizes
  BY SizesAssumption DEF Sizes
<1>3. /\ a.d \in Device /\ a.d.setup = x.setup /\ a.d.written = x.written
      /\ a.d.remaining = x.remaining /\ a.d.direction = x.direction
      /\ a.d.locks = x.locks /\ (a.d.terminal_connected <=> x.terminal_connected)
      /\ a.d.state # "CONFIGURED" /\ ~a.d.zlp
  BY <1>1, <1>2 DEF Fresh, Sound, Device
<1> HIDE DEF a
<1>4. Becomes(x, a.d) /\ x.setup.request \notin ToHost
  BY <1>3 DEF Fresh, Sound, Becomes, ToHost
<1> QED
  BY <1>3, <1>4, PlainIs DEF a

LEMMA SetFeatureIs ==
  ASSUME NEW x, Fresh(x), x.setup.request = "SET_FEATURE"
  PROVE  Answered(x, requestSetFeature(x))
<1> DEFINE a == requestSetFeature(x)
<1>1. a.d \in {x, [x EXCEPT !.bulkIn = "stall", !.written = 0], [x EXCEPT !.bulkOut = "stall"]}
  BY DEF requestSetFeature, Accepted, Refused
<1>2. /\ a.d \in Device /\ a.d.setup = x.setup /\ a.d.written \in {0, x.written}
      /\ a.d.remaining = x.remaining /\ a.d.direction = x.direction
      /\ a.d.locks = x.locks /\ (a.d.terminal_connected <=> x.terminal_connected)
      /\ a.d.state = "CONFIGURED" => a.d.bulkOut # "nak"
      /\ ~a.d.zlp
  <2> HIDE DEF a
  <2>1. CASE a.d = x
    BY <2>1 DEF Fresh, Sound
  <2>2. CASE a.d = [x EXCEPT !.bulkIn = "stall", !.written = 0]
    <3>0. x \in Device /\ "stall" \in {"nak", "armed", "stall"} /\ 0 \in 0..2
      BY DEF Fresh, Sound
    <3>1. a.d \in Device
      BY <2>2, <3>0 DEF Device
    <3>2. /\ a.d.setup = x.setup /\ a.d.written = 0 /\ (a.d.zlp <=> x.zlp)
          /\ a.d.remaining = x.remaining /\ a.d.direction = x.direction
          /\ a.d.locks = x.locks /\ (a.d.terminal_connected <=> x.terminal_connected)
          /\ a.d.state = x.state /\ a.d.bulkOut = x.bulkOut
      BY <2>2 DEF Fresh, Sound, Device
    <3> QED
      BY <3>1, <3>2 DEF Fresh, Sound
  <2>3. CASE a.d = [x EXCEPT !.bulkOut = "stall"]
    BY <2>3 DEF Fresh, Sound, Device
  <2> QED
    BY <1>1, <2>1, <2>2, <2>3
<1> HIDE DEF a
<1>3. Becomes(x, a.d) /\ x.setup.request \notin ToHost
  BY <1>2 DEF Fresh, Sound, Becomes, ToHost
<1> QED
  BY <1>2, <1>3, PlainIs DEF a

LEMMA ClearFeatureIs ==
  ASSUME NEW x, Fresh(x), x.setup.request = "CLEAR_FEATURE"
  PROVE  Answered(x, requestClearFeature(x))
<1> DEFINE a == requestClearFeature(x)
<1>1. a.d \in {x, [x EXCEPT !.bulkIn = IF @ = "stall" THEN "nak" ELSE @],
                  [x EXCEPT !.bulkOut = IF @ = "stall" THEN "armed" ELSE @]}
  BY DEF requestClearFeature, Accepted, Refused
<1>2. /\ a.d \in Device /\ a.d.setup = x.setup /\ a.d.written = x.written
      /\ a.d.remaining = x.remaining /\ a.d.direction = x.direction
      /\ a.d.locks = x.locks /\ (a.d.terminal_connected <=> x.terminal_connected)
      /\ a.d.state = "CONFIGURED" => a.d.bulkOut # "nak"
      /\ ~a.d.zlp
  <2> HIDE DEF a
  <2>1. CASE a.d = x
    BY <2>1 DEF Fresh, Sound
  <2>2. CASE a.d = [x EXCEPT !.bulkIn = IF @ = "stall" THEN "nak" ELSE @]
    BY <2>2 DEF Fresh, Sound, Device
  <2>3. CASE a.d = [x EXCEPT !.bulkOut = IF @ = "stall" THEN "armed" ELSE @]
    BY <2>3 DEF Fresh, Sound, Device
  <2> QED
    BY <1>1, <2>1, <2>2, <2>3
<1> HIDE DEF a
<1>3. Becomes(x, a.d) /\ x.setup.request \notin ToHost
  BY <1>2 DEF Fresh, Sound, Becomes, ToHost
<1> QED
  BY <1>2, <1>3, PlainIs DEF a

(* Every standard request, answered or refused.                             *)
LEMMA StandardIs ==
  ASSUME NEW x, Fresh(x)
  PROVE  Answered(x, requestSetup(x))
<1> DEFINE q == x.setup.request
           n == Length(x.setup)
<1>1. CASE q \in {"GET_STATUS", "GET_CONFIGURATION"}
           \/ (q = "GET_INTERFACE" /\ x.state = "CONFIGURED")
           \/ (q = "GET_DESCRIPTOR" /\ x.setup.wValue > 0)
  <2>1. requestSetup(x) = Answer(x, n) /\ n > 0 /\ q \in ToHost
    BY <1>1, SizesAssumption DEF requestSetup, Length, ToHost
  <2> QED
    BY <2>1, AnswerIs
<1>2. CASE q = "CLEAR_FEATURE"
  BY <1>2, ClearFeatureIs DEF requestSetup
<1>3. CASE q = "SET_FEATURE"
  BY <1>3, SetFeatureIs DEF requestSetup
<1>4. CASE q = "SET_ADDRESS"
  BY <1>4, SetAddressIs DEF requestSetup
<1>5. CASE q = "SET_CONFIGURATION"
  BY <1>5, SetConfigurationIs DEF requestSetup
<1>6. CASE /\ q \notin {"GET_STATUS", "GET_CONFIGURATION", "CLEAR_FEATURE", "SET_FEATURE",
                        "SET_ADDRESS", "SET_CONFIGURATION"}
           /\ ~(q = "GET_INTERFACE" /\ x.state = "CONFIGURED")
           /\ ~(q = "GET_DESCRIPTOR" /\ x.setup.wValue > 0)
  <2>1. requestSetup(x) = Refused(x)
    BY <1>6 DEF requestSetup
  <2> QED
    BY <2>1, RefusedIs
<1> QED
  BY <1>1, <1>2, <1>3, <1>4, <1>5, <1>6

(***************************************************************************)
(* Control transfers                                                       *)
(***************************************************************************)

LEMMA CompletedIs ==
  ASSUME NEW x, Sound(x), NEW bytes
  PROVE  LET y == Completed(x, bytes)
         IN  /\ Becomes(x, y)
             /\ y.in = x.in /\ y.out = x.out /\ (y.zlp <=> x.zlp)
             /\ y.remaining = x.remaining /\ y.direction = x.direction
<1> DEFINE y == Completed(x, bytes)
<1>1. y \in {x, [x EXCEPT !.notify = FALSE], [x EXCEPT !.coding = "new", !.notify = FALSE]}
  BY DEF Completed, USBCallback_requestCompleted, Sound, Device
<1>2. CASE y = x
  BY <1>2 DEF Becomes
<1>3. CASE y = [x EXCEPT !.notify = FALSE]
  BY <1>3 DEF Becomes, Sound, Device
<1>4. CASE y = [x EXCEPT !.coding = "new", !.notify = FALSE]
  <2>1. y \in Device
    BY <1>4 DEF Sound, Device
  <2>2. /\ y.in = x.in /\ y.out = x.out /\ (y.zlp <=> x.zlp)
        /\ y.remaining = x.remaining /\ y.direction = x.direction
        /\ y.state = x.state /\ y.bulkOut = x.bulkOut /\ y.locks = x.locks
        /\ (y.terminal_connected <=> x.terminal_connected)
        /\ y.setup = x.setup /\ y.written = x.written
    BY <1>4 DEF Sound, Device
  <2> QED
    BY <2>1, <2>2 DEF Becomes, Sound
<1> QED
  BY <1>1, <1>2, <1>3, <1>4

(* Helpers may be called one after another.                                 *)
LEMMA BecomesTrans ==
  ASSUME NEW x, NEW y, NEW z, Becomes(x, y), Becomes(y, z)
  PROVE  Becomes(x, z)
BY DEF Becomes

(* One packet of the data in, or with nothing left the status out. *)
LEMMA ControlInIs ==
  ASSUME NEW x, Sound(x)
  PROVE  LET a == controlIn(x)
             n == Min({x.remaining, MAX_PACKET_SIZE_EP0})
         IN  /\ Becomes(x, a.d)
             /\ a.d.direction = x.direction
             /\ x.remaining = 0 => /\ a.ok /\ a.d.out = "armed" /\ a.d.remaining = 0 /\ ~a.d.zlp
                                   /\ a.d.in = IF x.zlp THEN 0 ELSE x.in
             /\ x.remaining > 0 /\ x.direction = "DEVICE_TO_HOST" =>
                  /\ a.ok /\ a.d.in = n /\ a.d.remaining = x.remaining - n
                  /\ a.d.out = x.out /\ (a.d.zlp <=> x.zlp)
<1> DEFINE a == controlIn(x)
           n == Min({x.remaining, MAX_PACKET_SIZE_EP0})
<1>0. /\ x \in Device /\ x.remaining \in Nat /\ 0 \in Sizes
      /\ MAX_PACKET_SIZE_EP0 \in Nat
  BY SizesAssumption DEF Sound, Device, Sizes
<1>1. CASE x.remaining = 0
  <2> DEFINE y == IF x.zlp THEN [EP0write(x, 0) EXCEPT !.zlp = FALSE] ELSE x
             z == Completed(y, 0)
  <2>1. a = Accepted(EP0read(z))
    BY <1>1 DEF controlIn
  <2>2. /\ Becomes(x, y) /\ ~y.zlp /\ y.in = (IF x.zlp THEN 0 ELSE x.in)
        /\ y.remaining = 0 /\ y.direction = x.direction
    <3>1. CASE x.zlp
      <4>1. y = [x EXCEPT !.in = 0, !.zlp = FALSE]
        BY <1>0, <3>1 DEF EP0write, Device
      <4> HIDE DEF y
      <4>2. y \in Device
        BY <1>0, <4>1 DEF Device
      <4>3. /\ y.in = 0 /\ y.remaining = 0 /\ ~y.zlp /\ y.direction = x.direction
            /\ y.state = x.state /\ y.bulkOut = x.bulkOut /\ y.locks = x.locks
            /\ (y.terminal_connected <=> x.terminal_connected)
            /\ y.setup = x.setup /\ y.written = x.written
        BY <1>0, <1>1, <4>1 DEF Device
      <4> QED
        BY <3>1, <4>2, <4>3 DEF Becomes, Sound
    <3>2. CASE ~x.zlp
      BY <1>1, <3>2 DEF Becomes
    <3> QED
      BY <3>1, <3>2
  <2> HIDE DEF y
  <2>3. /\ Becomes(x, z) /\ ~z.zlp /\ z.in = y.in /\ z.remaining = 0 /\ z.direction = x.direction
    BY <2>2, CompletedIs DEF Becomes
  <2> HIDE DEF z
  <2>4. Becomes(x, EP0read(z))
    BY <2>3, EndpointSteps, BecomesTrans DEF Becomes
  <2>5. /\ EP0read(z).out = "armed" /\ EP0read(z).in = z.in /\ (EP0read(z).zlp <=> z.zlp)
        /\ EP0read(z).remaining = z.remaining /\ EP0read(z).direction = z.direction
    BY <2>3 DEF EP0read, Becomes, Sound, Device
  <2>6. a.ok /\ a.d = EP0read(z)
    BY <2>1 DEF Accepted
  <2> HIDE DEF a
  <2> QED
    BY <1>1, <2>2, <2>3, <2>4, <2>5, <2>6 DEF a
<1>2. CASE x.remaining # 0 /\ x.direction # "DEVICE_TO_HOST"
  BY <1>2 DEF controlIn, Refused, Becomes
<1>3. CASE x.remaining # 0 /\ x.direction = "DEVICE_TO_HOST"
  <2>1. n \in Sizes /\ x.remaining - n \in Nat
    BY <1>0, MinIs DEF Sizes
  <2>2. a.ok /\ a.d = [x EXCEPT !.in = n, !.remaining = x.remaining - n]
    BY <1>0, <1>3 DEF controlIn, Accepted, EP0write, Device
  <2> HIDE DEF n, a
  <2>3. a.d \in Device
    BY <1>0, <2>1, <2>2 DEF Device
  <2>4. /\ a.d.in = n /\ a.d.remaining = x.remaining - n /\ a.d.out = x.out
        /\ (a.d.zlp <=> x.zlp) /\ a.d.direction = x.direction
        /\ a.d.state = x.state /\ a.d.bulkOut = x.bulkOut /\ a.d.locks = x.locks
        /\ (a.d.terminal_connected <=> x.terminal_connected)
        /\ a.d.setup = x.setup /\ a.d.written = x.written
    BY <1>0, <2>2 DEF Device
  <2>5. Becomes(x, a.d)
    BY <2>3, <2>4 DEF Becomes, Sound
  <2> QED
    BY <1>3, <2>2, <2>4, <2>5 DEF n, a
<1> QED
  BY <1>1, <1>2, <1>3

(* One packet of the data out, or the status out. *)
LEMMA ControlOutIs ==
  ASSUME NEW x, Sound(x), NEW n \in Nat
  PROVE  LET a == controlOut(x, n)
         IN  /\ Becomes(x, a.d)
             /\ IF x.direction = "HOST_TO_DEVICE" /\ n <= x.remaining
                  THEN /\ a.ok /\ a.d.direction = x.direction /\ a.d.remaining = x.remaining - n
                       /\ IF n = x.remaining THEN a.d.in = 0
                          ELSE a.d.in = x.in /\ a.d.out = "armed"
                  ELSE ~a.ok
<1> DEFINE a == controlOut(x, n)
           y == [x EXCEPT !.remaining = x.remaining - n, !.out = "nak"]
<1>0. x \in Device /\ x.remaining \in Nat /\ 0 \in Sizes
  BY SizesAssumption DEF Sound, Device, Sizes
<1>1. CASE x.direction # "HOST_TO_DEVICE" \/ n > x.remaining
  <2>1. ~a.ok /\ a.d = [x EXCEPT !.out = "nak"]
    BY <1>1 DEF controlOut, Refused
  <2>2. ~(n <= x.remaining /\ x.direction = "HOST_TO_DEVICE")
    BY <1>0, <1>1
  <2>3. Becomes(x, a.d)
    BY <2>1, EndpointSteps
  <2> HIDE DEF a
  <2> QED
    BY <2>1, <2>2, <2>3 DEF a
<1>2. CASE x.direction = "HOST_TO_DEVICE" /\ n <= x.remaining
  <2>1. x.remaining - n \in Nat /\ ~(n > x.remaining)
    BY <1>0, <1>2
  <2>2. y \in Device
    BY <1>0, <2>1 DEF Device
  <2>3. /\ y.remaining = x.remaining - n /\ y.direction = x.direction /\ y.in = x.in
        /\ y.state = x.state /\ y.bulkOut = x.bulkOut /\ y.locks = x.locks
        /\ (y.terminal_connected <=> x.terminal_connected)
        /\ y.setup = x.setup /\ y.written = x.written
    BY <1>0 DEF Device
  <2>4. Becomes(x, y)
    <3> HIDE DEF y
    <3> QED
      BY <2>2, <2>3 DEF Becomes, Sound
  <2>5. a = IF y.remaining = 0 THEN Accepted(EP0write(Completed(y, n), 0))
            ELSE Accepted(EP0read(y))
    BY <1>0, <1>2, <2>1 DEF controlOut, Device
  <2> HIDE DEF y, a
  <2>6. CASE y.remaining = 0
    <3> DEFINE z == Completed(y, n)
    <3>1. Becomes(x, z) /\ z.remaining = 0 /\ z.direction = x.direction
      BY <2>3, <2>4, <2>6, CompletedIs, BecomesTrans DEF Becomes
    <3> HIDE DEF z
    <3>2. Becomes(x, EP0write(z, 0))
      BY <1>0, <3>1, EndpointSteps, BecomesTrans DEF Becomes
    <3>3. /\ EP0write(z, 0).in = 0 /\ EP0write(z, 0).remaining = z.remaining
          /\ EP0write(z, 0).direction = z.direction
      BY <3>1 DEF EP0write, Becomes, Sound, Device
    <3>4. a.ok /\ a.d = EP0write(z, 0)
      BY <2>5, <2>6 DEF Accepted, z
    <3>5. n = x.remaining
      BY <1>0, <2>3, <2>6
    <3> QED
      BY <1>2, <2>3, <2>6, <3>1, <3>2, <3>3, <3>4, <3>5 DEF a
  <2>7. CASE y.remaining # 0
    <3>1. Becomes(x, EP0read(y))
      BY <2>4, EndpointSteps, BecomesTrans DEF Becomes
    <3>2. /\ EP0read(y).in = y.in /\ EP0read(y).remaining = y.remaining
          /\ EP0read(y).direction = y.direction /\ EP0read(y).out = "armed"
      BY <2>2 DEF EP0read, Device
    <3>3. a.ok /\ a.d = EP0read(y)
      BY <2>5, <2>7 DEF Accepted
    <3>4. n # x.remaining
      BY <1>0, <2>3, <2>7
    <3> QED
      BY <1>2, <2>3, <3>1, <3>2, <3>3, <3>4 DEF a
  <2> QED
    BY <2>6, <2>7
<1> QED
  BY <1>0, <1>1, <1>2

(* The first packet of the answer, with all that is to be sent.             *)
LEMMA DataInStageIs ==
  ASSUME NEW y, Sound(y), y.direction = "DEVICE_TO_HOST", ~y.zlp,
         y.setup.wLength > 0, y.remaining = Length(y.setup), Length(y.setup) > 0
  PROVE  LET s == DataInStage(y)
             z == s.d
             m == Min({y.setup.wLength, Length(y.setup)})
         IN  /\ s.ok /\ Becomes(y, z)
             /\ z.in \in Sizes /\ z.direction = "DEVICE_TO_HOST" /\ z.in + z.remaining = m
             /\ z.remaining > 0 => z.in = MAX_PACKET_SIZE_EP0
             /\ z.zlp <=> /\ y.setup.wLength > m /\ z.in + z.remaining > 0
                          /\ (z.in + z.remaining) % MAX_PACKET_SIZE_EP0 = 0
<1> DEFINE s == DataInStage(y)
           asked == y.setup.wLength
           l == Length(y.setup)
           m == Min({asked, l})
           rest == Min({y.remaining, asked})
           zlp == asked > rest /\ rest % MAX_PACKET_SIZE_EP0 = 0
           x == [y EXCEPT !.remaining = rest, !.zlp = zlp]
           n == Min({m, MAX_PACKET_SIZE_EP0})
<1>0. /\ y \in Device /\ y.setup \in Requests \cup {Nothing} /\ MAX_PACKET_SIZE_EP0 \in Nat \ {0}
  BY SizesAssumption DEF Sound, Device
<1>1. asked \in Nat /\ asked > 0 /\ l \in Nat /\ l > 0 /\ y.remaining = l
  BY <1>0, RequestsAre
<1> HIDE DEF asked, l
<1>2. m = rest /\ m \in Nat /\ m > 0
  BY <1>1, MinIs
<1>3. s.ok /\ s.d = controlIn([y EXCEPT !.remaining = rest, !.zlp = @ \/ zlp]).d
  BY DEF DataInStage, Accepted, asked
<1>4. [y EXCEPT !.remaining = rest, !.zlp = @ \/ zlp] = x
  <2>1. (y.zlp \/ zlp) = zlp
    BY Zenon
  <2> HIDE DEF zlp, rest
  <2> QED
    BY <2>1
<1>5. x \in Device /\ x.remaining = m /\ (x.zlp <=> zlp) /\ x.direction = y.direction
      /\ x.state = y.state /\ x.bulkOut = y.bulkOut /\ x.locks = y.locks
      /\ (x.terminal_connected <=> y.terminal_connected)
      /\ x.setup = y.setup /\ x.written = y.written
  <2>1. zlp \in BOOLEAN
    BY Zenon
  <2> HIDE DEF zlp, rest
  <2> QED
    BY <1>0, <1>2, <2>1 DEF Device
<1> HIDE DEF x
<1>6. Becomes(y, x)
  BY <1>5 DEF Becomes, Sound
<1>7. /\ Becomes(x, controlIn(x).d) /\ controlIn(x).d.direction = x.direction
      /\ controlIn(x).d.in = n /\ controlIn(x).d.remaining = m - n
      /\ (controlIn(x).d.zlp <=> x.zlp)
  <2>1. Sound(x) /\ x.remaining > 0 /\ x.direction = "DEVICE_TO_HOST" /\ x.remaining = m
    BY <1>2, <1>5, <1>6 DEF Becomes
  <2> HIDE DEF m
  <2> QED
    BY <2>1, ControlInIs
<1>8. n \in Sizes /\ n + (m - n) = m /\ (m - n > 0 => n = MAX_PACKET_SIZE_EP0)
  <2>1. m \in Nat /\ MAX_PACKET_SIZE_EP0 \in Nat
    BY <1>0, <1>2
  <2> HIDE DEF m
  <2>2. n = IF m <= MAX_PACKET_SIZE_EP0 THEN m ELSE MAX_PACKET_SIZE_EP0
    BY <2>1, MinIs
  <2> HIDE DEF n
  <2> QED
    BY <2>1, <2>2 DEF Sizes
<1> HIDE DEF s, n
<1>9. Becomes(y, s.d)
  BY <1>3, <1>4, <1>6, <1>7, BecomesTrans
<1>10. /\ s.d.in \in Sizes /\ s.d.direction = "DEVICE_TO_HOST" /\ s.d.in + s.d.remaining = m
       /\ s.d.remaining > 0 => s.d.in = MAX_PACKET_SIZE_EP0
  BY <1>3, <1>4, <1>5, <1>7, <1>8
<1>11. s.d.zlp <=> asked > m /\ m > 0 /\ m % MAX_PACKET_SIZE_EP0 = 0
  BY <1>2, <1>3, <1>4, <1>5, <1>7
<1> QED
  BY <1>3, <1>9, <1>10, <1>11 DEF s, asked, l

(* What a setup packet leaves on endpoint 0, unless it is refused. *)
Prepared(r, z) ==
  /\ r.wLength = 0 => z.in # NAK
  /\ r.wLength > 0 /\ r.request \in ToHost =>
       LET m == Min({r.wLength, Length(r)})
       IN  /\ z.in \in Sizes /\ z.direction = "DEVICE_TO_HOST" /\ z.in + z.remaining = m
           /\ z.remaining > 0 => z.in = MAX_PACKET_SIZE_EP0
           /\ z.zlp <=> /\ r.wLength > m /\ z.in + z.remaining > 0
                        /\ (z.in + z.remaining) % MAX_PACKET_SIZE_EP0 = 0
  /\ r.wLength > 0 /\ r.request \notin ToHost =>
       z.direction = "HOST_TO_DEVICE" /\ z.remaining = r.wLength

(* What a request that sends nothing to the host leaves, if it is refused.  *)
Idle(r, z) ==
  r.request \notin ToHost => z.direction = "HOST_TO_DEVICE" /\ z.remaining \in {0, CodingLength}

(* What the setup handler prepares for the data or the status stage.        *)
LEMMA StagesIs ==
  ASSUME NEW x, Fresh(x), NEW a, Answered(x, a), a.ok
  PROVE  LET s == Stages(a.d)
         IN  /\ Becomes(x, s.d)
             /\ s.ok => Prepared(x.setup, s.d)
             /\ ~s.ok => Idle(x.setup, s.d)
<1> DEFINE s == Stages(a.d)
           y == a.d
           r == x.setup
<1>1. /\ Becomes(x, y) /\ Sound(y) /\ y \in Device /\ y.setup = r /\ 0 \in Sizes
      /\ r.wLength \in Nat /\ Length(r) \in Nat
  BY SizesAssumption, RequestsAre DEF Answered, Becomes, Sound, Fresh, Sizes
<1>2. Idle(r, y)
  BY DEF Answered, Idle
<1>3. CASE r.wLength = 0 /\ y.remaining # 0
  <2>1. s = Refused(y)
    BY <1>1, <1>3 DEF Stages
  <2> QED
    BY <1>1, <1>2, <2>1 DEF Refused
<1>4. CASE r.wLength = 0 /\ y.remaining = 0
  <2>1. s = Accepted(EP0write(y, 0))
    BY <1>1, <1>4 DEF Stages
  <2>2. EP0write(y, 0).in = 0
    BY <1>1 DEF EP0write, Device
  <2>3. Becomes(x, EP0write(y, 0))
    BY <1>1, EndpointSteps, BecomesTrans
  <2>4. s.ok /\ s.d = EP0write(y, 0)
    BY <2>1 DEF Accepted
  <2> QED
    BY <1>4, <2>2, <2>3, <2>4 DEF Prepared, NAK
<1>5. CASE r.wLength > 0 /\ r.request \in ToHost
  <2>1. s = DataInStage(y)
    BY <1>1, <1>5 DEF Stages
  <2>2. /\ y.direction = "DEVICE_TO_HOST" /\ ~y.zlp
        /\ y.remaining = Length(y.setup) /\ Length(y.setup) > 0 /\ y.setup.wLength > 0
    BY <1>1, <1>5 DEF Answered
  <2> DEFINE m == Min({y.setup.wLength, Length(y.setup)})
  <2>3. /\ s.ok /\ Becomes(y, s.d)
        /\ s.d.in \in Sizes /\ s.d.direction = "DEVICE_TO_HOST" /\ s.d.in + s.d.remaining = m
        /\ s.d.remaining > 0 => s.d.in = MAX_PACKET_SIZE_EP0
        /\ s.d.zlp <=> /\ y.setup.wLength > m /\ s.d.in + s.d.remaining > 0
                       /\ (s.d.in + s.d.remaining) % MAX_PACKET_SIZE_EP0 = 0
    BY <1>1, <2>1, <2>2, DataInStageIs
  <2>4. Becomes(x, s.d)
    BY <1>1, <2>3, BecomesTrans
  <2>5. Prepared(r, s.d)
    BY <1>1, <1>5, <2>3 DEF Prepared
  <2> HIDE DEF s
  <2> QED
    BY <2>3, <2>4, <2>5 DEF s
<1>6. CASE r.wLength > 0 /\ r.request \notin ToHost
  <2>1. s = DataOutStage(y)
    BY <1>1, <1>6 DEF Stages
  <2>2. y.direction = "HOST_TO_DEVICE" /\ y.remaining \in {0, CodingLength}
    BY <1>6 DEF Answered
  <2>3. CASE y.remaining # r.wLength
    <3>1. s = Refused(y)
      BY <1>1, <2>1, <2>3 DEF DataOutStage
    <3> QED
      BY <1>1, <1>2, <3>1 DEF Refused
  <2>4. CASE y.remaining = r.wLength
    <3>1. s = Accepted(EP0read(y))
      BY <1>1, <2>1, <2>2, <2>4 DEF DataOutStage
    <3>2. EP0read(y).direction = y.direction /\ EP0read(y).remaining = y.remaining
      BY <1>1 DEF EP0read, Device
    <3>3. Becomes(x, EP0read(y))
      BY <1>1, EndpointSteps, BecomesTrans
    <3>4. s.ok /\ s.d = EP0read(y)
      BY <3>1 DEF Accepted
    <3> QED
      BY <1>6, <2>2, <2>4, <3>2, <3>3, <3>4 DEF Prepared
  <2> QED
    BY <2>3, <2>4
<1> QED
  BY <1>1, <1>3, <1>4, <1>5, <1>6

(* A setup packet: the answer is prepared, or the endpoint stalls; either   *)
(* way it then receives.                                                    *)
LEMMA SetupIs ==
  ASSUME NEW x, Sound(x), NEW r \in Requests
  PROVE  LET z == EP0read(StallUnless(controlSetup(x, r)))
         IN  /\ Sound(z) /\ z.setup = r /\ z.written \in {0, x.written} /\ z.out = "armed"
             /\ Prepared(r, z) \/ (z.in = STALL /\ Idle(r, z))
<1> DEFINE a == controlSetup(x, r)
           s == StallUnless(a)
           z == EP0read(s)
           y == [x EXCEPT !.setup = r, !.remaining = 0, !.direction = "HOST_TO_DEVICE",
                          !.zlp = FALSE, !.notify = FALSE]
           class == USBCallback_request(y)
           standard == requestSetup(y)
<1>0. x \in Device
  BY DEF Sound
<1>1. Fresh(y) /\ y.setup = r /\ y.written = x.written
  <2>1. y \in Device
    BY <1>0 DEF Device
  <2>2. /\ y.setup = r /\ y.remaining = 0 /\ y.direction = "HOST_TO_DEVICE" /\ ~y.zlp
        /\ y.state = x.state /\ y.bulkOut = x.bulkOut /\ y.locks = x.locks
        /\ (y.terminal_connected <=> x.terminal_connected) /\ y.written = x.written
    BY <1>0 DEF Device
  <2> HIDE DEF y
  <2> QED
    BY <2>1, <2>2 DEF Fresh, Sound
<1>2. a = IF class.ok THEN Stages(class.d)
          ELSE IF standard.ok THEN Stages(standard.d) ELSE Refused(standard.d)
  BY DEF controlSetup
<1> HIDE DEF y
<1>3. Answered(y, class) /\ Answered(y, standard)
  BY <1>1, CallbackIs, StandardIs
<1> HIDE DEF class, standard
<1>4. Becomes(y, a.d) /\ (a.ok => Prepared(r, a.d)) /\ (~a.ok => Idle(r, a.d))
  <2> HIDE DEF a
  <2>1. CASE class.ok
    BY <1>1, <1>2, <1>3, <2>1, StagesIs
  <2>2. CASE ~class.ok /\ standard.ok
    BY <1>1, <1>2, <1>3, <2>2, StagesIs
  <2>3. CASE ~class.ok /\ ~standard.ok
    <3>1. ~a.ok /\ a.d = standard.d
      BY <1>2, <2>3 DEF Refused
    <3> QED
      BY <1>1, <1>3, <3>1 DEF Answered, Idle
  <2> QED
    BY <2>1, <2>2, <2>3
<1> HIDE DEF a
<1>5. CASE a.ok
  <2>1. z = [a.d EXCEPT !.out = "armed"]
    BY <1>5 DEF StallUnless, EP0read
  <2>2. /\ z.out = "armed" /\ z.in = a.d.in /\ z.direction = a.d.direction
        /\ z.remaining = a.d.remaining /\ (z.zlp <=> a.d.zlp)
    BY <1>4, <2>1 DEF Becomes, Sound, Device
  <2>3. Becomes(y, z)
    <3>1. Becomes(a.d, EP0read(a.d))
      BY <1>4, EndpointSteps DEF Becomes
    <3> QED
      BY <1>4, <1>5, <3>1, BecomesTrans DEF StallUnless
  <2>4. Prepared(r, z)
    BY <1>4, <1>5, <2>2 DEF Prepared
  <2> HIDE DEF z
  <2> QED
    BY <1>1, <2>2, <2>3, <2>4 DEF Becomes, z, a
<1>6. CASE ~a.ok
  <2>1. z = EP0read(EP0stall(a.d))
    BY <1>6 DEF StallUnless
  <2>2. /\ z.out = "armed" /\ z.in = STALL /\ z.direction = a.d.direction
        /\ z.remaining = a.d.remaining
    BY <1>4, <2>1 DEF Becomes, Sound, Device, EP0read, EP0stall
  <2>3. Becomes(y, z)
    <3> DEFINE t == EP0stall(a.d)
    <3>1. Becomes(a.d, t)
      BY <1>4, EndpointSteps DEF Becomes
    <3>2. Becomes(y, t)
      BY <1>4, <3>1, BecomesTrans
    <3> HIDE DEF t
    <3>3. Becomes(t, EP0read(t))
      BY <3>2, EndpointSteps DEF Becomes
    <3>4. Becomes(y, EP0read(t))
      BY <3>2, <3>3, BecomesTrans
    <3> QED
      BY <2>1, <3>4 DEF t
  <2>4. Idle(r, z)
    BY <1>4, <1>6, <2>2 DEF Idle
  <2> HIDE DEF z
  <2> QED
    BY <1>1, <2>2, <2>3, <2>4 DEF Becomes, z, a
<1> QED
  BY <1>5, <1>6

(***************************************************************************)
(* The steps                                                               *)
(***************************************************************************)

HostType == host \in [stage : {"none", "in", "out", "statusIn", "statusOut"}, data : Nat]

(* The types of what is neither the device nor the host. *)
OtherTypes ==
  /\ pc \in {"idle", "result", "configured"}
  /\ taken \in BOOLEAN /\ revoked \in BOOLEAN
  /\ events \in 0..MaxEvents

LEMMA InvParts ==
  Inv <=> Sound(d) /\ OtherTypes /\ WriteInv /\ HostType /\ ControlInv
BY Zenon DEF Inv, DeviceInv, TypeOK, Receives, LockHeld, Sound, Device, OtherTypes, HostType

LEMMA InvPartsNext ==
  Inv' <=> Sound(d') /\ OtherTypes' /\ WriteInv' /\ HostType' /\ ControlInv'
BY Zenon DEF Inv, DeviceInv, TypeOK, Receives, LockHeld, Sound, Device, OtherTypes, HostType

LEMMA OtherStep == OtherTypes /\ [Next]_vars => OtherTypes'
<1> SUFFICES ASSUME OtherTypes, [Next]_vars PROVE OtherTypes'
  OBVIOUS
<1>1. taken' \in BOOLEAN /\ revoked' \in BOOLEAN
  BY Zenon DEF OtherTypes, Next, Setup, DataIn, DataOut, StatusIn, StatusOut, Stalled,
     busReset, BulkOut, BulkIn, Write, WriteResult, WriteConfigured, vars
<1>2. pc' \in {"idle", "result", "configured"} /\ events' \in 0..MaxEvents
  BY SizesAssumption
     DEF OtherTypes, Next, Setup, DataIn, DataOut, StatusIn, StatusOut, Stalled,
     busReset, BulkOut, BulkIn, Write, WriteResult, WriteConfigured, vars
<1> QED
  BY <1>1, <1>2 DEF OtherTypes

(* What leaves endpoint 0 and the host alone leaves their transfer alone.   *)
LEMMA ControlKept ==
  ASSUME HostType, ControlInv, UNCHANGED host,
         d'.setup = d.setup, d'.in = d.in, d'.out = d.out, d'.remaining = d.remaining,
         d'.direction = d.direction, d'.zlp <=> d.zlp
  PROVE  HostType' /\ ControlInv'
BY DEF HostType, ControlInv, InStage, OutStage, HostNeverWaits, AnswersInFull, Total, Left

(* With no transfer under way there is nothing to say of one. *)
LEMMA ControlIdle ==
  ASSUME HostType, host' = [host EXCEPT !.stage = "none"]
  PROVE  HostType' /\ ControlInv'
BY DEF HostType, ControlInv, InStage, OutStage, HostNeverWaits, AnswersInFull

(* An answer that is not refused, and a stall. *)
LEMMA StallUnlessIs ==
  ASSUME NEW x, NEW a, Becomes(x, a.d)
  PROVE  /\ Becomes(x, StallUnless(a))
         /\ a.ok => StallUnless(a) = a.d
         /\ ~a.ok => StallUnless(a).in = STALL /\ StallUnless(a).out = "stall"
<1>1. CASE a.ok
  BY <1>1 DEF StallUnless
<1>2. CASE ~a.ok
  <2>1. StallUnless(a) = EP0stall(a.d)
    BY <1>2 DEF StallUnless
  <2>2. EP0stall(a.d).in = STALL /\ EP0stall(a.d).out = "stall"
    BY DEF EP0stall, Becomes, Sound, Device
  <2>3. Becomes(x, EP0stall(a.d))
    BY EndpointSteps, BecomesTrans DEF Becomes
  <2> QED
    BY <1>2, <2>1, <2>2, <2>3
<1> QED
  BY <1>1, <1>2

LEMMA SetupStep ==
  ASSUME Inv, NEW r \in Requests, Setup(r)
  PROVE  Sound(d') /\ WriteInv' /\ HostType' /\ ControlInv'
<1> DEFINE x == [d EXCEPT !.in = NAK, !.out = "nak"]
<1>1. Sound(x) /\ x.written = d.written
  <2>1. Sound(d)
    BY InvParts
  <2>2. x \in Device
    BY <2>1 DEF Sound, Device
  <2>3. /\ x.state = d.state /\ x.bulkOut = d.bulkOut /\ x.locks = d.locks
        /\ (x.terminal_connected <=> d.terminal_connected) /\ x.written = d.written
    BY <2>1 DEF Sound, Device
  <2> HIDE DEF x
  <2> QED
    BY <2>1, <2>2, <2>3 DEF Sound
<1>2. d' = EP0read(StallUnless(controlSetup(x, r)))
  BY DEF Setup
<1> HIDE DEF x
<1>3. /\ Sound(d') /\ d'.setup = r /\ d'.written \in {0, d.written} /\ d'.out = "armed"
      /\ Prepared(r, d') \/ (d'.in = STALL /\ Idle(r, d'))
  BY <1>1, <1>2, SetupIs
<1>4. /\ host'.stage = (IF r.wLength = 0 THEN "statusIn"
                        ELSE IF r.request \in ToHost THEN "in" ELSE "out")
      /\ host'.data = 0 /\ HostType' /\ UNCHANGED <<pc, taken>>
  BY DEF Setup, HostType
<1>5. r.wLength \in Nat
  BY RequestsAre
<1>6. WriteInv'
  BY <1>3, <1>4 DEF Inv, WriteInv, Waiting
<1>7. STALL # NAK /\ NAK \notin Sizes
  BY SizesAssumption DEF STALL, NAK, Sizes
<1>8. InStage'
  <2>1. CASE d'.in = STALL
    BY <2>1 DEF InStage
  <2>2. CASE Prepared(r, d')
    BY <1>3, <1>4, <1>5, <2>2, SizesAssumption DEF InStage, Prepared, Total, Left, Sizes, Sound, Device
  <2> QED
    BY <1>3, <2>1, <2>2
<1>9. OutStage'
  BY <1>3, <1>4, <1>5 DEF OutStage, Prepared, Idle
<1>10. HostNeverWaits' /\ AnswersInFull'
  BY <1>3, <1>4, <1>5, <1>7 DEF HostNeverWaits, AnswersInFull, Prepared
<1> QED
  BY <1>3, <1>4, <1>6, <1>8, <1>9, <1>10 DEF ControlInv

LEMMA DataInStep ==
  ASSUME Inv, DataIn
  PROVE  Sound(d') /\ WriteInv' /\ HostType' /\ ControlInv'
<1> DEFINE x == [d EXCEPT !.in = NAK]
           a == controlIn(x)
           asked == d.setup.wLength
           data == host.data + d.in
           n == Min({d.remaining, MAX_PACKET_SIZE_EP0})
<1>0. Sound(d) /\ d \in Device /\ HostType /\ ControlInv
  BY InvParts DEF Sound
<1>1. /\ Becomes(d, x) /\ Sound(x)
      /\ x.remaining = d.remaining /\ x.direction = d.direction /\ (x.zlp <=> d.zlp)
  BY <1>0, EndpointSteps DEF Becomes, Device
<1>2. /\ asked \in Nat /\ Length(d.setup) \in Nat /\ MAX_PACKET_SIZE_EP0 \in Nat \ {0}
      /\ Total \in Nat /\ Total <= asked /\ d.remaining \in Nat
  <2>1. /\ asked \in Nat /\ Length(d.setup) \in Nat /\ MAX_PACKET_SIZE_EP0 \in Nat \ {0}
        /\ d.remaining \in Nat
    BY <1>0, SizesAssumption, RequestsAre DEF Device
  <2> QED
    BY <2>1, MinIs DEF Total
<1>3. /\ host.stage = "in" /\ d.in \in Sizes /\ d.in # STALL
      /\ UNCHANGED <<pc, taken>> /\ d' = StallUnless(a)
      /\ host' = IF data = asked \/ d.in < MAX_PACKET_SIZE_EP0
                   THEN [stage |-> "statusOut", data |-> data] ELSE [host EXCEPT !.data = data]
  BY <1>2 DEF DataIn, Sizes, STALL
<1>4. /\ d.direction = "DEVICE_TO_HOST" /\ host.data + Left = Total
      /\ d.remaining > 0 => d.in = MAX_PACKET_SIZE_EP0
      /\ d.zlp <=> asked > Total /\ Left > 0 /\ Left % MAX_PACKET_SIZE_EP0 = 0
  BY <1>0, <1>3 DEF ControlInv, InStage
<1>5. /\ d.in \in Nat /\ d.in <= MAX_PACKET_SIZE_EP0 /\ host.data \in Nat /\ data \in Nat
      /\ data + d.remaining = Total
  BY <1>0, <1>2, <1>3, <1>4 DEF HostType, Sizes, Left
<1> HIDE DEF x
<1>6. /\ Becomes(x, a.d) /\ a.d.direction = "DEVICE_TO_HOST" /\ a.ok
      /\ d.remaining = 0 => /\ a.d.out = "armed" /\ a.d.remaining = 0 /\ ~a.d.zlp
                            /\ d.zlp => a.d.in = 0
      /\ d.remaining > 0 => /\ a.d.in = n /\ a.d.remaining = d.remaining - n
                            /\ (a.d.zlp <=> d.zlp)
  BY <1>1, <1>2, <1>4, ControlInIs
<1>7. d' = a.d /\ Becomes(d, d') /\ d'.setup = d.setup
  BY <1>1, <1>3, <1>6, StallUnlessIs, BecomesTrans DEF Becomes
<1>8. WriteInv'
  BY <1>3, <1>7 DEF Inv, WriteInv, Waiting, Becomes
<1>9. Total' = Total
  BY <1>7 DEF Total
<1> HIDE DEF a, n
<1>10. CASE data = asked \/ d.in < MAX_PACKET_SIZE_EP0
  <2>1. d.remaining = 0 /\ data = Total
    BY <1>2, <1>4, <1>5, <1>10
  <2>2. host'.stage = "statusOut" /\ host'.data = Total /\ d'.out = "armed" /\ HostType'
    BY <1>2, <1>3, <1>6, <1>7, <1>10, <2>1 DEF HostType
  <2>3. ControlInv'
    BY <1>7, <2>2 DEF ControlInv, InStage, OutStage, HostNeverWaits, AnswersInFull, Total
  <2> QED
    BY <1>7, <1>8, <2>2, <2>3 DEF Becomes
<1>11. CASE data # asked /\ d.in = MAX_PACKET_SIZE_EP0
  <2>1. host' = [host EXCEPT !.data = data]
    BY <1>2, <1>3, <1>11
  <2>2. host'.stage = "in" /\ host'.data = data /\ HostType'
    BY <1>0, <1>3, <1>5, <2>1 DEF HostType
  <2>3. Left = MAX_PACKET_SIZE_EP0 + d.remaining /\ Left % MAX_PACKET_SIZE_EP0 = d.remaining % MAX_PACKET_SIZE_EP0
    <3>1. Left = MAX_PACKET_SIZE_EP0 + d.remaining
      BY <1>11 DEF Left
    <3>2. Left \in Nat /\ Left >= MAX_PACKET_SIZE_EP0 /\ Left - MAX_PACKET_SIZE_EP0 = d.remaining
      BY <1>2, <3>1
    <3> QED
      BY <1>2, <3>1, <3>2, ModMinus
  <2>4. CASE d.remaining = 0
    <3>1. Left = MAX_PACKET_SIZE_EP0 /\ Left % MAX_PACKET_SIZE_EP0 = 0 /\ Left > 0
      BY <1>2, <2>3, <2>4, ModSelf
    <3>2. asked > Total
      BY <1>2, <1>5, <1>11, <2>4
    <3>3. d'.in = 0 /\ d'.remaining = 0 /\ ~d'.zlp /\ d'.direction = "DEVICE_TO_HOST"
      BY <1>4, <1>6, <1>7, <2>4, <3>1, <3>2
    <3>4. Left' = 0 /\ data + Left' = Total /\ 0 \in Sizes
      BY <1>2, <1>5, <2>4, <3>3 DEF Left, Sizes
    <3>5. InStage'
      BY <1>9, <2>2, <3>3, <3>4 DEF InStage
    <3>6. OutStage' /\ HostNeverWaits' /\ AnswersInFull'
      BY <2>2, <3>3 DEF OutStage, HostNeverWaits, AnswersInFull, NAK
    <3> QED
      BY <1>7, <1>8, <2>2, <3>5, <3>6 DEF Becomes, ControlInv
  <2>5. CASE d.remaining > 0
    <3>1. n \in Sizes /\ n + (d.remaining - n) = d.remaining /\ n \in Nat
          /\ (d.remaining - n > 0 => n = MAX_PACKET_SIZE_EP0)
      BY <1>2, MinIs DEF n, Sizes
    <3>2. /\ d'.in = n /\ d'.remaining = d.remaining - n /\ (d'.zlp <=> d.zlp)
          /\ d'.direction = "DEVICE_TO_HOST"
      BY <1>6, <1>7, <2>5
    <3>3. Left' = d.remaining /\ data + Left' = Total /\ Left' > 0
      BY <1>5, <2>5, <3>1, <3>2 DEF Left
    <3>4. Left > 0
      BY <1>2, <2>3
    <3>5. d'.zlp <=> asked > Total /\ Left' > 0 /\ Left' % MAX_PACKET_SIZE_EP0 = 0
      BY <1>4, <2>3, <3>2, <3>3, <3>4
    <3>6. InStage'
      BY <1>7, <1>9, <2>2, <3>1, <3>2, <3>3, <3>5 DEF InStage
    <3>7. OutStage' /\ HostNeverWaits' /\ AnswersInFull'
      BY <2>2, <3>1, <3>2 DEF OutStage, HostNeverWaits, AnswersInFull, NAK
    <3> QED
      BY <1>7, <1>8, <2>2, <3>6, <3>7 DEF Becomes, ControlInv
  <2> QED
    BY <1>2, <2>4, <2>5
<1> QED
  BY <1>2, <1>5, <1>10, <1>11

LEMMA DataOutStep ==
  ASSUME Inv, DataOut
  PROVE  Sound(d') /\ WriteInv' /\ HostType' /\ ControlInv'
<1> DEFINE asked == d.setup.wLength
           n == Min({asked - host.data, MAX_PACKET_SIZE_EP0})
           data == host.data + n
           a == controlOut(d, n)
<1>0. Sound(d) /\ d \in Device /\ HostType /\ ControlInv
  BY InvParts DEF Sound
<1>1. /\ asked \in Nat /\ MAX_PACKET_SIZE_EP0 \in Nat \ {0} /\ CodingLength \in 1..MAX_PACKET_SIZE_EP0 - 1
      /\ d.remaining \in Nat /\ host.data \in Nat
  BY <1>0, SizesAssumption, RequestsAre DEF Device, HostType
<1>2. /\ host.stage = "out" /\ d.out = "armed" /\ UNCHANGED <<pc, taken>> /\ d' = StallUnless(a)
      /\ host' = [stage |-> IF data = asked THEN "statusIn" ELSE "out", data |-> data]
  BY DEF DataOut
<1>3. /\ d.direction = "HOST_TO_DEVICE"
      /\ \/ host.data < asked /\ d.remaining = asked - host.data
         \/ d.in = STALL /\ host.data = 0 /\ asked > 0 /\ d.remaining \in {0, CodingLength} \ {asked}
  BY <1>0, <1>2 DEF ControlInv, OutStage
<1>4. /\ n \in Nat /\ n > 0 /\ data \in Nat /\ data <= asked
      /\ n = IF asked - host.data <= MAX_PACKET_SIZE_EP0 THEN asked - host.data ELSE MAX_PACKET_SIZE_EP0
  <2>1. asked - host.data \in Nat /\ asked - host.data > 0
    BY <1>1, <1>3
  <2>2. n = IF asked - host.data <= MAX_PACKET_SIZE_EP0 THEN asked - host.data ELSE MAX_PACKET_SIZE_EP0
    BY <1>1, <2>1, MinIs
  <2> HIDE DEF n
  <2> QED
    BY <1>1, <2>1, <2>2
<1> HIDE DEF n
<1>5. /\ Becomes(d, a.d)
      /\ n <= d.remaining => /\ a.ok /\ a.d.direction = d.direction /\ a.d.remaining = d.remaining - n
                             /\ IF n = d.remaining THEN a.d.in = 0
                                ELSE a.d.in = d.in /\ a.d.out = "armed"
      /\ ~(n <= d.remaining) => ~a.ok
  BY <1>0, <1>3, <1>4, ControlOutIs
<1> HIDE DEF a
<1>6. Becomes(d, d') /\ d'.setup = d.setup
  BY <1>2, <1>5, StallUnlessIs DEF Becomes
<1>7. WriteInv' /\ HostType'
  BY <1>2, <1>4, <1>6 DEF Inv, WriteInv, Waiting, Becomes, HostType
<1>8. STALL # NAK /\ 0 # NAK
  BY DEF STALL, NAK
<1>9. CASE ~(n <= d.remaining)
  <2>1. d'.in = STALL /\ d'.out = "stall"
    BY <1>2, <1>5, <1>9, StallUnlessIs
  <2> QED
    BY <1>2, <1>6, <1>7, <1>8, <2>1
       DEF Becomes, ControlInv, InStage, OutStage, HostNeverWaits, AnswersInFull
<1>10. CASE n <= d.remaining
  <2>1. d' = a.d /\ d'.direction = "HOST_TO_DEVICE" /\ d'.remaining = d.remaining - n
    BY <1>2, <1>3, <1>5, <1>10, StallUnlessIs
  <2>2. CASE data = asked
    <3>1. d'.in # NAK
      BY <1>1, <1>3, <1>4, <1>5, <1>8, <1>10, <2>1, <2>2
    <3> QED
      BY <1>2, <1>6, <1>7, <2>2, <3>1
         DEF Becomes, ControlInv, InStage, OutStage, HostNeverWaits, AnswersInFull
  <2>3. CASE data # asked
    <3>1. n = MAX_PACKET_SIZE_EP0 /\ n # asked - host.data
      BY <1>1, <1>4, <2>3
    <3>2. host.data < asked /\ d.remaining = asked - host.data
      BY <1>1, <1>3, <1>10, <3>1
    <3>3. n # d.remaining /\ d'.out = "armed"
      BY <1>5, <1>10, <2>1, <3>1, <3>2
    <3>4. data < asked /\ d'.remaining = asked - data
      BY <1>1, <1>4, <2>1, <2>3, <3>2
    <3> QED
      BY <1>2, <1>6, <1>7, <2>1, <2>3, <3>3, <3>4
         DEF Becomes, ControlInv, InStage, OutStage, HostNeverWaits, AnswersInFull
  <2> QED
    BY <2>2, <2>3
<1> QED
  BY <1>9, <1>10

LEMMA StatusStep ==
  ASSUME Inv, StatusIn \/ StatusOut \/ Stalled
  PROVE  Sound(d') /\ WriteInv' /\ HostType' /\ ControlInv'
<1>0. Sound(d) /\ HostType /\ WriteInv /\ 0 \in Nat
  BY InvParts
<1>1. HostType' /\ ControlInv' /\ UNCHANGED <<pc, taken>>
  BY <1>0, ControlIdle DEF StatusIn, StatusOut, Stalled
<1>2. CASE StatusIn
  <2> DEFINE x == [d EXCEPT !.in = NAK]
  <2>1. Becomes(d, x) /\ Sound(x)
    BY <1>0, EndpointSteps DEF Becomes
  <2> HIDE DEF x
  <2>2. Becomes(d, StallUnless(controlIn(x)))
    BY <2>1, ControlInIs, StallUnlessIs, BecomesTrans
  <2>3. Becomes(d, d')
    BY <1>2, <2>2 DEF StatusIn, x
  <2> QED
    BY <1>0, <1>1, <2>3 DEF Becomes, WriteInv, Waiting
<1>3. CASE StatusOut
  <2>1. Becomes(d, StallUnless(controlOut(d, 0)))
    BY <1>0, ControlOutIs, StallUnlessIs
  <2>2. Becomes(d, d')
    BY <1>3, <2>1 DEF StatusOut
  <2> QED
    BY <1>0, <1>1, <2>2 DEF Becomes, WriteInv, Waiting
<1>4. CASE Stalled
  BY <1>0, <1>1, <1>4 DEF Stalled, WriteInv, Waiting
<1> QED
  BY <1>2, <1>3, <1>4

LEMMA ResetStep ==
  ASSUME Inv, busReset
  PROVE  Sound(d') /\ WriteInv' /\ HostType' /\ ControlInv'
<1>0. Sound(d) /\ HostType
  BY InvParts
<1>1. HostType' /\ ControlInv' /\ UNCHANGED <<pc, taken>>
  BY <1>0, ControlIdle DEF busReset
<1> DEFINE x == Unlock(d)
<1>2. Sound(x)
  BY <1>0, UnlockStep DEF Becomes
<1>3. d' = [x EXCEPT !.state = "DEFAULT", !.configuration = 0, !.written = 0,
             !.in = NAK, !.out = "nak", !.bulkIn = "nak", !.bulkOut = "nak"]
  BY DEF busReset
<1> HIDE DEF x
<1>4. d' \in Device
  <2>1. x \in Device /\ 0 \in 0..2 /\ 0 \in Nat
    BY <1>2 DEF Sound
  <2> DEFINE y == [x EXCEPT !.state = "DEFAULT", !.configuration = 0, !.written = 0]
  <2>2. y \in Device
    BY <2>1 DEF Device
  <2>3. d' = [y EXCEPT !.in = NAK, !.out = "nak", !.bulkIn = "nak", !.bulkOut = "nak"]
    BY <1>3
  <2> HIDE DEF y
  <2> QED
    BY <2>2, <2>3 DEF Device
<1>5. /\ d'.state = "DEFAULT" /\ d'.written = 0 /\ d'.locks = x.locks
      /\ (d'.terminal_connected <=> x.terminal_connected)
  BY <1>2, <1>3 DEF Sound, Device
<1>6. Sound(d') /\ WriteInv'
  BY <1>2, <1>4, <1>5 DEF Sound, WriteInv
<1> QED
  BY <1>1, <1>6

(* The bulk endpoints and write. *)
LEMMA BulkStep ==
  ASSUME Inv, BulkOut \/ BulkIn \/ Write \/ WriteResult \/ WriteConfigured \/ UNCHANGED vars
  PROVE  Sound(d') /\ WriteInv' /\ HostType' /\ ControlInv'
<1>0. Sound(d) /\ d \in Device /\ HostType /\ ControlInv /\ WriteInv /\ OtherTypes
  BY InvParts DEF Sound
<1>1. CASE BulkOut
  <2> DEFINE b == IF d.state = "CONFIGURED" THEN "armed" ELSE "nak"
  <2>1. d' = [d EXCEPT !.bulkOut = b] /\ UNCHANGED <<host, pc, taken>>
    BY <1>1 DEF BulkOut
  <2>2. /\ d' \in Device /\ d'.bulkOut = b /\ d'.state = d.state /\ d'.locks = d.locks
        /\ (d'.terminal_connected <=> d.terminal_connected) /\ d'.written = d.written
        /\ d'.setup = d.setup /\ d'.in = d.in /\ d'.out = d.out /\ d'.remaining = d.remaining
        /\ d'.direction = d.direction /\ (d'.zlp <=> d.zlp)
    BY <1>0, <2>1 DEF Device
  <2>3. Sound(d') /\ WriteInv'
    BY <1>0, <2>1, <2>2 DEF Sound, WriteInv, Waiting
  <2> QED
    BY <1>0, <2>1, <2>2, <2>3, ControlKept
<1>2. CASE BulkIn
  <2>1. d' = [d EXCEPT !.bulkIn = "nak", !.written = 1] /\ UNCHANGED <<host, pc>> /\ taken'
    BY <1>2 DEF BulkIn
  <2>2. d' \in Device
    <3>1. 1 \in 0..2
      OBVIOUS
    <3> QED
      BY <1>0, <2>1, <3>1 DEF Device
  <2>3. /\ d'.bulkOut = d.bulkOut /\ d'.state = d.state /\ d'.locks = d.locks
        /\ (d'.terminal_connected <=> d.terminal_connected)
        /\ d'.setup = d.setup /\ d'.in = d.in /\ d'.out = d.out /\ d'.remaining = d.remaining
        /\ d'.direction = d.direction /\ (d'.zlp <=> d.zlp)
    BY <1>0, <2>1 DEF Device
  <2>4. Sound(d') /\ WriteInv'
    BY <1>0, <2>1, <2>2, <2>3 DEF Sound, WriteInv, Waiting
  <2> QED
    BY <1>0, <2>1, <2>3, <2>4, ControlKept
<1>3. CASE Write
  <2> DEFINE b == IF d.bulkIn = "stall" THEN d.bulkIn ELSE "armed"
  <2>1. d' = [d EXCEPT !.written = 2, !.bulkIn = b] /\ UNCHANGED host
    BY <1>0, <1>3 DEF Write, Device
  <2>2. b \in {"nak", "armed", "stall"}
    BY <1>0 DEF Device
  <2> HIDE DEF b
  <2>3. d' \in Device
    <3>1. 2 \in 0..2
      OBVIOUS
    <3> QED
      BY <1>0, <2>1, <2>2, <3>1 DEF Device
  <2>4. /\ d'.bulkOut = d.bulkOut /\ d'.state = d.state /\ d'.locks = d.locks
        /\ (d'.terminal_connected <=> d.terminal_connected) /\ d'.written = 2
        /\ d'.setup = d.setup /\ d'.in = d.in /\ d'.out = d.out /\ d'.remaining = d.remaining
        /\ d'.direction = d.direction /\ (d'.zlp <=> d.zlp)
    BY <1>0, <2>1 DEF Device
  <2>5. Sound(d') /\ WriteInv'
    BY <1>0, <2>3, <2>4 DEF Sound, WriteInv, Waiting
  <2> QED
    BY <1>0, <2>1, <2>4, <2>5, ControlKept
<1>4. CASE WriteResult \/ WriteConfigured \/ UNCHANGED vars
  <2>1. UNCHANGED <<d, host, taken>> /\ (pc = "idle" => pc' = "idle")
    BY <1>4 DEF WriteResult, WriteConfigured, vars
  <2>2. WriteInv'
    BY <1>0, <2>1 DEF WriteInv, Waiting
  <2> QED
    BY <1>0, <2>1, <2>2, ControlKept
<1> QED
  BY <1>1, <1>2, <1>3, <1>4

LEMMA InitInv == Init => Inv
<1> SUFFICES ASSUME Init PROVE Inv
  OBVIOUS
<1>1. OtherTypes
  <2>1. taken \in BOOLEAN /\ revoked \in BOOLEAN
    BY Zenon DEF Init
  <2> QED
    BY <2>1, SizesAssumption DEF Init, OtherTypes
<1>2. d \in Device /\ d.state = "POWERED" /\ d.locks = 0 /\ ~d.terminal_connected
  BY SizesAssumption DEF Init, Device
<1>3. HostType /\ WriteInv /\ ControlInv
  BY DEF Init, HostType, WriteInv, Waiting, ControlInv, InStage, OutStage, HostNeverWaits, AnswersInFull
<1> QED
  BY <1>1, <1>2, <1>3, InvParts DEF Sound

(* Interrupts, bus resets and write keep Inv at each of their steps. *)
THEOREM Invariance == Spec => []Inv
<1>1. ASSUME Inv, [Next]_vars PROVE Inv'
  <2>1. Sound(d') /\ WriteInv' /\ HostType' /\ ControlInv'
    <3>1. CASE \E r \in Requests : Setup(r)
      BY <1>1, <3>1, SetupStep
    <3>2. CASE DataIn
      BY <1>1, <3>2, DataInStep
    <3>3. CASE DataOut
      BY <1>1, <3>3, DataOutStep
    <3>4. CASE StatusIn \/ StatusOut \/ Stalled
      BY <1>1, <3>4, StatusStep
    <3>5. CASE busReset
      BY <1>1, <3>5, ResetStep
    <3>6. CASE BulkOut \/ BulkIn \/ Write \/ WriteResult \/ WriteConfigured \/ UNCHANGED vars
      BY <1>1, <3>6, BulkStep
    <3> QED
      BY <1>1, <3>1, <3>2, <3>3, <3>4, <3>5, <3>6 DEF Next
  <2>2. OtherTypes'
    BY <1>1, InvParts, OtherStep
  <2> QED
    BY <2>1, <2>2, InvPartsNext
<1> QED
  BY <1>1, InitInv, PTL DEF Spec

(* Whatever the host requests or resets, a configured device receives.      *)
THEOREM ConfiguredReceives == Spec => []DeviceInv
<1>1. Inv => DeviceInv
  BY DEF Inv
<1> QED
  BY <1>1, Invariance, PTL

(* Deep sleep is locked while a terminal is connected, and no lock is       *)
(* released twice.                                                          *)
THEOREM LockBalanced == Spec => []LockHeld
<1>1. Inv => LockHeld
  BY DEF Inv
<1> QED
  BY <1>1, Invariance, PTL

(* At each stage of a control transfer the device answers or stalls.        *)
THEOREM EveryStageAnswered == Spec => []HostNeverWaits
<1>1. Inv => HostNeverWaits
  BY DEF Inv, ControlInv
<1> QED
  BY <1>1, Invariance, PTL

(* A read that ends has all the host asked for or all there is.             *)
THEOREM ReadsInFull == Spec => []AnswersInFull
<1>1. Inv => AnswersInFull
  BY DEF Inv, ControlInv
<1> QED
  BY <1>1, Invariance, PTL

(* write reports success only for a packet that the host has taken.         *)
THEOREM SuccessMeansTaken == Spec => SentWhenTrue
<1>1. ASSUME Inv, [Next]_vars PROVE [pc = "result" /\ pc' = "idle" => taken]_vars
  <2>1. ASSUME pc = "result", pc' = "idle", Next PROVE taken
    <3>1. WriteResult
      BY <2>1 DEF Next, Setup, DataIn, DataOut, StatusIn, StatusOut, Stalled,
         busReset, BulkOut, BulkIn, Write, WriteResult, WriteConfigured
    <3> QED
      BY <1>1, <2>1, <3>1 DEF WriteResult, Inv, WriteInv, Waiting
  <2> QED
    BY <1>1, <2>1
<1> QED
  BY <1>1, Invariance, PTL DEF Spec, SentWhenTrue

-----------------------------------------------------------------------------
(***************************************************************************)
(* The receive queue.  Neither side locks, and both move `read'.  What     *)
(* makes it work is that bytes are numbered as they come and byte r is     *)
(* stored at (r - 1) % size: a location stands for the byte stored just    *)
(* before it, Before(r, p) when r bytes have come, and that number never   *)
(* goes down while p stays.  So even a value of `read' that the interrupt  *)
(* has moved meanwhile, and that the main program writes back, stands for  *)
(* a later byte than the last one read.                                    *)
(***************************************************************************)
(* The number of the byte stored last before location p, of r bytes.        *)
Before(r, p) == r - ((r - p) % size)

(***************************************************************************)
(* Rests                                                                   *)
(***************************************************************************)

(* Division by m: the rest, and a multiple of m.                            *)
LEMMA Division ==
  ASSUME NEW a \in Int, NEW m \in Nat \ {0}
  PROVE  \E k \in Int, s \in 0..m - 1 : s = a % m /\ a - s = m * k
<1>1. a \div m \in Int /\ a % m \in 0..m - 1
  BY Z3
<1>2. a % m = a - m * (a \div m) /\ m * (a \div m) \in Int
  BY Z3
<1> DEFINE p == m * (a \div m)
           r == a % m
<1>3. p \in Int /\ r = a - p /\ r \in 0..m - 1
  BY <1>1, <1>2
<1>4. a - r = p
  <2> HIDE DEF p, r
  <2> QED
    BY <1>3
<1> QED
  BY <1>1, <1>4

(* The multiples of m that the lemmas below compare.                        *)
LEMMA Distribute ==
  ASSUME NEW m \in Int, NEW k \in Int, NEW l \in Int
  PROVE  /\ m * k \in Int /\ m * l \in Int
         /\ m * (k - l) = m * k - m * l
         /\ m * (k + 1) = m * k + m /\ m * (k - 1) = m * k - m
  BY Z3

(* The only multiple of m closer to 0 than m is 0 itself.                   *)
LEMMA Multiple ==
  ASSUME NEW m \in Nat \ {0}, NEW k \in Int, m * k \in (1 - m)..(m - 1)
  PROVE k = 0
<1>1. k >= 1 => m * k >= m
 BY Z3
<1>2. k <= -1 => m * k <= -m
 BY Z3
<1> QED BY <1>1, <1>2

(* A number in 0..m - 1 that differs from a by a multiple of m is a % m.    *)
LEMMA ModIs ==
  ASSUME NEW a \in Int, NEW m \in Nat \ {0}, NEW q \in Int, NEW r \in 0..m - 1, a - r = m * q
  PROVE  a % m = r
<1>1. PICK k \in Int, s \in 0..m-1 : s = a % m /\ a - s = m * k
  BY Division
<1>2. m * (k - q) = m * k - m * q
  BY Distribute
<1>3. m * (k - q) = r - s
  <2> DEFINE u == m * k
             v == m * q
  <2>1. u \in Int /\ v \in Int
    OBVIOUS
  <2>2. a - s = u /\ a - r = v /\ m * (k - q) = u - v
    BY <1>1, <1>2
  <2> HIDE DEF u, v
  <2>3. s \in Int /\ u - v = r - s
    BY <1>1, <2>1, <2>2
  <2> QED
    BY <2>2, <2>3
<1>4. k - q = 0
  BY <1>3, Multiple
<1> QED BY <1>1, <1>3, <1>4

(* The rest of the next number.                                             *)
LEMMA ModSucc ==
  ASSUME NEW a \in Int, NEW m \in Nat \ {0}
  PROVE  (a + 1) % m = IF (a % m) = m - 1 THEN 0 ELSE (a % m) + 1
<1>0. PICK k \in Int, s \in 0..m - 1 : s = a % m /\ a - s = m * k
  BY Division
<1>1. a - s = m * k /\ m * k \in Int /\ s \in Int /\ m \in Int
  BY <1>0
<1> DEFINE b == a + 1
<1>4. b \in Int
  OBVIOUS
<1>2. CASE s = m - 1
  <2> DEFINE q == k + 1
  <2>1. m * q = m * k + m /\ q \in Int
    BY Distribute
  <2>2. b - 0 = m * q
    BY <1>1, <1>2, <2>1
  <2>3. 0 \in 0..m - 1
    OBVIOUS
  <2>4. b % m = 0
    <3> HIDE DEF b, q
    <3> QED BY <1>4, <2>1, <2>2, <2>3, ModIs
  <2> QED BY <2>4, <1>2, <1>0
<1>3. CASE s # m - 1
  <2> DEFINE t == s + 1
  <2>1. b - t = m * k
    BY <1>1
  <2>2. t \in 0..m - 1
    BY <1>3
  <2>3. b % m = t
    <3> HIDE DEF b, t
    <3> QED BY <1>4, <2>1, <2>2, ModIs
  <2> QED BY <2>3, <1>3, <1>0
<1> QED BY <1>2, <1>3

(* The rest p before a.                                                     *)
LEMMA ModBefore ==
  ASSUME NEW a \in Int, NEW m \in Nat \ {0}, NEW p \in 0..m
  PROVE  (a - p) % m = IF p = m THEN a % m
                       ELSE IF p <= (a % m) THEN (a % m) - p ELSE (a % m) - p + m
<1>1. PICK k \in Int, s \in 0..m - 1 : s = a % m /\ a - s = m * k
  BY Division
<1>2. a - s = m * k /\ m * k \in Int /\ s \in Int /\ m \in Int
  BY <1>1
<1> DEFINE b == a - p
           t == IF p <= s THEN s - p ELSE s - p + m
           q == IF p <= s THEN k ELSE k - 1
           u == IF p = m THEN s ELSE t
<1>3. b \in Int /\ q \in Int
  OBVIOUS
<1>4. u \in 0..m - 1
  OBVIOUS
<1>5. m * (k - 1) = m * k - m
  BY Distribute
<1>6. b - u = m * q
  <2>1. CASE p <= s
    BY <1>2, <2>1
  <2>2. CASE ~(p <= s)
    BY <1>2, <1>5, <2>2
  <2> QED
    BY <2>1, <2>2
<1>7. b % m = u
  <2> HIDE DEF b, u, q
  <2> QED
    BY <1>3, <1>4, <1>6, ModIs
<1> QED
  BY <1>1, <1>7

(* The rest of what is not larger than m.                                   *)
LEMMA ModSmall ==
  ASSUME NEW m \in Nat \ {0}, NEW p \in 0..m
  PROVE  p % m = IF p = m THEN 0 ELSE p
  OBVIOUS

(***************************************************************************)
(* Locations                                                               *)
(***************************************************************************)

(* Where byte n + 1 is stored.                                              *)
Location(n) == n % size

(* The array has one element more than the buffer holds bytes.              *)
LEMMA SizeIs ==
  /\ size = Size + 1 /\ size \in Nat \ {0} /\ Size \in Nat \ {0}
  /\ Elements = 0..Size /\ Elements = 0..size - 1
BY SizeAssumption DEF size, Elements

(* The one after the last element is the first.                             *)
LEMMA LocationIs ==
  ASSUME NEW p \in 0..size
  PROVE  /\ Location(p) = IF p = Size + 1 THEN 0 ELSE p
         /\ Location(p) \in Elements
<1>1. p % size = IF p = size THEN 0 ELSE p
  BY SizeIs, ModSmall
<1>2. Location(p) = IF p = size THEN 0 ELSE p
  BY <1>1 DEF Location
<1> QED
  BY <1>2, SizeIs

(* Byte after byte is stored in the next location.                          *)
LEMMA LocationNext ==
  ASSUME NEW r \in Nat
  PROVE  /\ Location(r) \in Elements
         /\ Location(r + 1) = IF Location(r) = Size THEN 0 ELSE Location(r) + 1
<1> DEFINE m == size
           s == r % m
           t == (r + 1) % m
<1>1. m \in Nat \ {0} /\ r \in Int
  BY SizeIs
<1>2. s \in 0..m - 1 /\ t = IF s = m - 1 THEN 0 ELSE s + 1
  <2> HIDE DEF m
  <2>1. s \in 0..m - 1
    BY <1>1, Division
  <2> QED
    BY <1>1, <2>1, ModSucc
<1>3. Location(r) = s /\ Location(r + 1) = t
  BY DEF Location
<1> HIDE DEF s, t
<1> QED
  BY <1>2, <1>3, SizeIs

(* The byte before a location, told by where the next one will be stored.   *)
LEMMA BeforeIs ==
  ASSUME NEW r \in Nat, NEW p \in 0..size
  PROVE  Before(r, p) = IF Location(p) <= Location(r) THEN r - (Location(r) - Location(p))
                        ELSE r - (Location(r) - Location(p) + Size + 1)
<1> DEFINE m == size
           x == r % m
           g == (r - p) % m
           l == Location(p)
<1>1. m \in Nat \ {0} /\ r \in Int /\ p \in 0..m /\ m = Size + 1 /\ Size \in Nat
  BY SizeIs
<1>2. x \in 0..m - 1
  <2> HIDE DEF m
  <2> QED
    BY <1>1, Division
<1>3. g = IF p = m THEN x ELSE IF p <= x THEN x - p ELSE x - p + m
  <2> HIDE DEF m
  <2> QED
    BY <1>1, ModBefore
<1>4. l = IF p = Size + 1 THEN 0 ELSE p
  BY LocationIs
<1>5. Before(r, p) = r - g /\ Location(r) = x
  BY DEF Before, Location
<1> HIDE DEF m, x, g, l
<1>6. Before(r, p) = IF l <= x THEN r - (x - l) ELSE r - (x - l + Size + 1)
  BY <1>1, <1>2, <1>3, <1>4, <1>5
<1> QED
  BY <1>5, <1>6 DEF l

(* It is none to come, and the same for the location reduced.               *)
LEMMA BeforeType ==
  ASSUME NEW r \in Nat, NEW p \in 0..size
  PROVE  /\ Before(r, p) \in Int /\ Before(r, p) <= r
         /\ Before(r, Location(p)) = Before(r, p)
<1>1. Location(p) \in Elements /\ Location(r) \in Elements
  BY LocationIs, LocationNext
<1>2. Location(p) \in 0..size /\ Location(p) # Size + 1
  BY <1>1, SizeIs
<1>3. Location(Location(p)) = Location(p)
  BY <1>2, LocationIs
<1>4. Before(r, Location(p)) = Before(r, p)
  BY <1>2, <1>3, BeforeIs
<1> QED
  BY <1>1, <1>4, BeforeIs, SizeIs

(* One more byte changes what is before one location only.                  *)
LEMMA BeforeStep ==
  ASSUME NEW r \in Nat, NEW p \in 0..size
  PROVE  Before(r + 1, p) = IF Location(r + 1) = Location(p) THEN r + 1 ELSE Before(r, p)
<1> DEFINE v == Location(r + 1)
           s == r + 1
<1>0. s \in Nat
  OBVIOUS
<1>1. /\ Location(p) \in Elements /\ Location(r) \in Elements /\ Location(s) \in Elements
      /\ v = IF Location(r) = Size THEN 0 ELSE Location(r) + 1
  <2>1. Location(s) \in Elements
    BY <1>0, LocationNext
  <2> QED
    BY <2>1, LocationIs, LocationNext
<1>2. Before(s, p) = IF Location(p) <= v THEN s - (v - Location(p))
                     ELSE s - (v - Location(p) + Size + 1)
  BY <1>0, BeforeIs
<1>3. Before(r, p) = IF Location(p) <= Location(r) THEN r - (Location(r) - Location(p))
                     ELSE r - (Location(r) - Location(p) + Size + 1)
  BY BeforeIs
<1>4. v \in 0..Size /\ Location(p) \in 0..Size /\ Location(r) \in 0..Size /\ Size \in Nat
  BY <1>1, SizeIs
<1> HIDE DEF v
<1>5. Before(s, p) = IF v = Location(p) THEN s ELSE Before(r, p)
  BY <1>1, <1>2, <1>3, <1>4
<1> QED
  BY <1>5 DEF v

(* The byte stored at a location is the one after the byte before it.       *)
LEMMA BeforeNext ==
  ASSUME NEW r \in Nat, NEW p \in Elements
  PROVE  Before(r, p + 1) = IF p = Location(r) THEN r - Size ELSE Before(r, p) + 1
<1>1. p \in 0..size /\ p + 1 \in 0..size /\ p # Size + 1 /\ p \in 0..Size
  BY SizeIs
<1>2. Location(p) = p /\ Location(p + 1) = IF p = Size THEN 0 ELSE p + 1
  <2> DEFINE k == p + 1
  <2>1. k \in 0..size /\ k = p + 1 /\ (k = Size + 1 <=> p = Size)
    BY <1>1, SizeIs
  <2> HIDE DEF k
  <2>2. Location(k) = IF k = Size + 1 THEN 0 ELSE k
    BY <2>1, LocationIs
  <2> QED
    BY <1>1, <2>1, <2>2, LocationIs DEF k
<1>3. Location(r) \in 0..Size
  BY LocationNext, SizeIs
<1>4. Before(r, p) = IF p <= Location(r) THEN r - (Location(r) - p)
                     ELSE r - (Location(r) - p + Size + 1)
  BY <1>1, <1>2, BeforeIs
<1> DEFINE n == Location(p + 1)
<1>5. Before(r, p + 1) = IF n <= Location(r) THEN r - (Location(r) - n)
                         ELSE r - (Location(r) - n + Size + 1)
  BY <1>1, BeforeIs
<1>6. Size \in Nat /\ p \in 0..Size /\ n = (IF p = Size THEN 0 ELSE p + 1)
  BY <1>1, <1>2, SizeIs
<1> HIDE DEF n
<1> QED
  BY <1>3, <1>4, <1>5, <1>6

(***************************************************************************)
(* The inductive invariant                                                 *)
(***************************************************************************)

(* The main program is not in dequeue, or has not looked at `read' yet.     *)
Resting == access \in {"idle", "poll1", "poll2", "poll3", "readable", "waiting",
                       "dequeue", "asking", "nonempty"}

(* `read' has been moved and not yet been delivered.                        *)
Moved == access \in {"incremented", "reducing", "reduced"}

(* The last bytes are in the buffer, each at its place.                     *)
BufferInv ==
  /\ write = received % size
  /\ received + left <= MaxReceived
  /\ \A i \in Elements :
       buf[i] = IF Before(received, i + 1) > 0 THEN Before(received, i + 1) ELSE 0
  /\ access \notin {"incremented", "reducing"} => read # size

(* Unless the build loads late, what is read next came after what was read. *)
OrderInv ==
  /\ Resting => c = 0
  /\ ~late =>
       /\ Resting => last <= Before(received, read)
       /\ access = "taken" =>
            /\ last < Before(received, pos + 1)
            /\ c # 0 => last < c /\ c <= Before(received, pos + 1)
       /\ Moved /\ c # 0 => last < c /\ c <= Before(received, read)
       /\ access = "reducing" /\ c # 0 => c <= Before(received, loc)

(* Until a byte finds the buffer full, nothing but the main program moves   *)
(* `read', and it does so byte by byte.                                     *)
LossInv ==
  ~overran =>
    /\ ~missed
    /\ Resting => Before(received, read) = last
    /\ access = "taken" => pos = read /\ read # write /\ Before(received, read) = last
    /\ Moved => Before(received, read) = last + 1 /\ Before(received, pos + 1) = last + 1
    /\ Moved => read % size = (pos + 1) % size
    /\ access = "reducing" => loc = read
    /\ c # 0 => c = last + 1

(* While the queue is empty, no byte has come since available began; and    *)
(* `read' stays while no byte is dropped.                                   *)
ReadyInv ==
  /\ access \in {"poll1", "poll2", "poll3"} /\ isEmpty => w = write
  /\ access \in {"poll2", "poll3"} /\ isEmpty => ge
  /\ access = "asking" /\ ~dropped => rd = read
  /\ ReadableIsReady

RxInv == RxTypeOK /\ BufferInv /\ OrderInv /\ LossInv /\ ReadyInv

(***************************************************************************)
(* The interrupt                                                           *)
(***************************************************************************)

(* What the invariant says of the locations, in terms of Location.          *)
LEMMA RxInvIs ==
  ASSUME RxInv
  PROVE  /\ received \in Nat /\ write = Location(received) /\ write \in Elements
         /\ read \in 0..size /\ pos \in 0..size /\ pos + 1 \in 0..size /\ loc \in 0..size
         /\ pos \in Elements
         /\ read # size => read \in Elements
BY SizeIs, SizeAssumption DEF RxInv, RxTypeOK, BufferInv, Location

(* A byte is queued: where it goes, what is dropped for it, and that the    *)
(* queue is not empty then.                                                 *)
LEMMA QueueIs ==
  ASSUME RxInv, queue
  PROVE  /\ received' = received + 1 /\ received' \in Nat
         /\ write' = Location(received') /\ write' \in Elements
         /\ isFull(read) <=> write' = read
         /\ read' = IF write' = read THEN Location(read + 1) ELSE read
         /\ read' \in 0..size
         /\ read # size => read' # size /\ read' # write'
         /\ ~overran' => ~overran /\ write' # Location(read) /\ read' = read
         /\ ~dropped' => ~dropped /\ (read # size => read' = read)
<1>1. /\ received \in Nat /\ write = Location(received) /\ write \in Elements
      /\ read \in 0..size
  BY RxInvIs
<1>2. received' = received + 1 /\ received' \in Nat
  BY <1>1 DEF queue
<1>3. write' = Location(received') /\ write' \in Elements /\ write' = Location(write + 1)
  <2>1. write + 1 \in 0..size /\ (write + 1 = Size + 1 <=> write = Size)
    BY <1>1, SizeIs
  <2>2. Location(write + 1) = IF write = Size THEN 0 ELSE write + 1
    BY <2>1, LocationIs
  <2>3. write' = Location(write + 1)
    BY DEF queue, Location
  <2> QED
    BY <1>1, <1>2, <2>2, <2>3, LocationNext
<1>4. isFull(read) <=> write' = read
  BY DEF queue, isFull
<1>5. read' = IF write' = read THEN Location(read + 1) ELSE read
  BY <1>4 DEF queue, Location
<1>6. write' = read =>
        read + 1 \in 0..size /\ Location(read + 1) = IF read = Size THEN 0 ELSE read + 1
  <2>1. SUFFICES ASSUME write' = read
                 PROVE  /\ read + 1 \in 0..size
                        /\ Location(read + 1) = IF read = Size THEN 0 ELSE read + 1
    OBVIOUS
  <2>2. read + 1 \in 0..size /\ (read + 1 = Size + 1 <=> read = Size)
    BY <1>3, <2>1, SizeIs
  <2> QED
    BY <2>2, LocationIs
<1>7. read' \in 0..size /\ (read # size => read' # size /\ read' # write')
  BY <1>1, <1>3, <1>5, <1>6, SizeIs
<1>8. ASSUME ~overran' PROVE ~overran /\ write' # Location(read) /\ read' = read
  <2>1. ~overran /\ write' # Location(read)
    BY <1>8 DEF queue, isFull, Location
  <2>2. write' # read
    BY <1>1, <1>3, <2>1, LocationIs, SizeIs
  <2> QED
    BY <1>5, <2>1, <2>2
<1>9. ASSUME ~dropped' PROVE ~dropped /\ (read # size => read' = read)
  <2>1. ~dropped /\ write' # Location(read)
    BY <1>9 DEF queue, isFull, Location
  <2>2. read # size => write' # read
    BY <1>1, <2>1, LocationIs, SizeIs
  <2> QED
    BY <1>5, <2>1, <2>2
<1> QED
  BY <1>2, <1>3, <1>4, <1>5, <1>7, <1>8, <1>9

(* Whatever the main program holds of `read', what it stands for only grows *)
(* while bytes are queued ...                                               *)
LEMMA BeforeGrows ==
  ASSUME RxInv, queue, NEW p \in 0..size
  PROVE  Before(received', p) >= Before(received, p)
<1>1. received \in Nat /\ received' = received + 1
  BY RxInvIs, QueueIs
<1>2. Before(received + 1, p) \in {received + 1, Before(received, p)}
  BY <1>1, BeforeStep
<1>3. Before(received, p) \in Int /\ Before(received, p) <= received
  BY <1>1, BeforeType
<1> QED
  BY <1>1, <1>2, <1>3

(* ... and so does what `read' stands for, also when it is moved.           *)
LEMMA ReadGrows ==
  ASSUME RxInv, queue
  PROVE  Before(received', read') >= Before(received, read)
<1>1. /\ received \in Nat /\ received' = received + 1 /\ received' \in Nat
      /\ read \in 0..size /\ write = Location(received) /\ write \in Elements
      /\ write' = Location(received')
      /\ read' = IF write' = read THEN Location(read + 1) ELSE read
  BY RxInvIs, QueueIs
<1>2. CASE write' # read
  BY <1>1, <1>2, BeforeGrows
<1>3. CASE write' = read
  <2>1. read \in Elements /\ read + 1 \in 0..size
    BY <1>1, <1>3, QueueIs, SizeIs
  <2>2. Before(received', read + 1) = received' - Size
    BY <1>1, <1>3, <2>1, BeforeNext
  <2>3. Before(received', read') = received' - Size
    BY <1>1, <1>3, <2>1, <2>2, BeforeType
  <2>4. Before(received, write + 1) = received - Size
    BY <1>1, BeforeNext
  <2>5. write + 1 \in 0..size /\ read = Location(write + 1)
    BY <1>1, <1>3, SizeIs DEF queue, Location
  <2>6. Before(received, read) = received - Size
    BY <1>1, <2>4, <2>5, BeforeType
  <2> QED
    BY <1>1, <2>3, <2>6, SizeIs
<1> QED
  BY <1>2, <1>3

(* A byte is queued at its place, and every part of the invariant holds on. *)
LEMMA QueueKeeps ==
  ASSUME RxInv, queue
  PROVE  RxInv'
<1>1. /\ received \in Nat /\ received' = received + 1 /\ received' \in Nat
      /\ write = Location(received) /\ write' = Location(received')
      /\ write \in Elements /\ write' \in Elements
      /\ read \in 0..size /\ read' \in 0..size
      /\ read # size => read' # size /\ read' # write'
  BY RxInvIs, QueueIs
<1>2. UNCHANGED mainVars /\ RxInv
  BY DEF queue
<1>3. received + left <= MaxReceived /\ left \in 0..MaxPacket /\ left > 0
      /\ MaxReceived \in Nat /\ MaxPacket \in Nat /\ left' = left - 1
  BY SizeAssumption DEF RxInv, BufferInv, RxTypeOK, queue
<1>4. received' \in 0..MaxReceived /\ left' \in 0..MaxPacket
      /\ received' + left' <= MaxReceived
  BY <1>1, <1>3
<1>5. /\ buf \in [Elements -> 0..MaxReceived]
      /\ buf' = [buf EXCEPT ![write] = received']
  BY <1>1 DEF RxInv, RxTypeOK, queue
<1>6. RxTypeOK'
  <2>1. buf' \in [Elements -> 0..MaxReceived]
    BY <1>4, <1>5
  <2>2. overran' \in BOOLEAN /\ dropped' \in BOOLEAN
    BY DEF queue
  <2> QED
    BY <1>1, <1>2, <1>4, <2>1, <2>2 DEF RxInv, RxTypeOK, mainVars, pollVars
<1>7. BufferInv'
  <2>1. write' = received' % size
    BY <1>1 DEF Location
  <2>2. ASSUME NEW i \in Elements
        PROVE  buf'[i] = IF Before(received', i + 1) > 0 THEN Before(received', i + 1) ELSE 0
    <3>1. i + 1 \in 0..size /\ i \in 0..Size /\ write + 1 \in 0..size /\ write \in 0..Size
      BY <1>1, SizeIs
    <3>2. Location(i + 1) = Location(write + 1) <=> i = write
      <4>1. \A n \in 0..size : Location(n) = IF n = Size + 1 THEN 0 ELSE n
        BY LocationIs
      <4>2. \A k \in 0..Size : k + 1 \in 0..size /\ (k + 1 = Size + 1 <=> k = Size)
        BY SizeIs
      <4>3. \A k \in 0..Size : Location(k + 1) = IF k = Size THEN 0 ELSE k + 1
        BY <4>1, <4>2
      <4> QED
        BY <3>1, <4>3, SizeIs
    <3>3. write' = Location(write + 1)
      BY DEF queue, Location
    <3>4. Before(received', i + 1) = IF i = write THEN received' ELSE Before(received, i + 1)
      BY <1>1, <3>1, <3>2, <3>3, BeforeStep
    <3>5. buf[i] = IF Before(received, i + 1) > 0 THEN Before(received, i + 1) ELSE 0
      BY DEF RxInv, BufferInv
    <3>6. buf'[i] = IF i = write THEN received' ELSE buf[i]
      BY <1>1, <1>5
    <3>7. received' > 0
      BY <1>1
    <3> QED
      BY <3>4, <3>5, <3>6, <3>7
  <2>3. access' \notin {"incremented", "reducing"} => read' # size
    BY <1>1, <1>2 DEF RxInv, BufferInv, mainVars
  <2> QED
    BY <1>4, <2>1, <2>2, <2>3, SizeIs DEF BufferInv, size, Elements
<1>8. OrderInv'
  <2>1. Before(received', read') >= Before(received, read)
    BY ReadGrows
  <2>2. /\ pos + 1 \in 0..size /\ loc \in 0..size
        /\ Before(received', pos + 1) >= Before(received, pos + 1)
        /\ Before(received', loc) >= Before(received, loc)
    BY RxInvIs, BeforeGrows
  <2>3. /\ Before(received', read') \in Int /\ Before(received, read) \in Int
        /\ Before(received', pos + 1) \in Int /\ Before(received, pos + 1) \in Int
        /\ Before(received', loc) \in Int /\ Before(received, loc) \in Int
    BY <1>1, <2>2, BeforeType
  <2>4. last \in Nat /\ c \in Nat
    BY SizeAssumption DEF RxInv, RxTypeOK
  <2>5. /\ access' = access /\ pos' = pos /\ loc' = loc /\ c' = c /\ last' = last
        /\ (late' <=> late)
    BY <1>2 DEF mainVars
  <2>6. Resting => c = 0
    BY DEF RxInv, OrderInv
  <2>7. ASSUME ~late
        PROVE  /\ Resting => last <= Before(received', read')
               /\ access = "taken" =>
                    /\ last < Before(received', pos + 1)
                    /\ c # 0 => last < c /\ c <= Before(received', pos + 1)
               /\ Moved /\ c # 0 => last < c /\ c <= Before(received', read')
               /\ access = "reducing" /\ c # 0 => c <= Before(received', loc)
    <3>1. /\ Resting => last <= Before(received, read)
          /\ access = "taken" =>
               /\ last < Before(received, pos + 1)
               /\ c # 0 => last < c /\ c <= Before(received, pos + 1)
          /\ Moved /\ c # 0 => last < c /\ c <= Before(received, read)
          /\ access = "reducing" /\ c # 0 => c <= Before(received, loc)
      BY <2>7 DEF RxInv, OrderInv
    <3> QED
      BY <2>1, <2>2, <2>3, <2>4, <3>1
  <2> QED
    BY <2>5, <2>6, <2>7 DEF OrderInv, Resting, Moved
<1>9. LossInv'
  <2>1. SUFFICES ASSUME ~overran' PROVE LossInv'
    BY DEF LossInv
  <2>2. ~overran /\ write' # Location(read) /\ read' = read
    BY <2>1, QueueIs
  <2>3. Before(received', read) = Before(received, read)
    BY <1>1, <2>2, BeforeStep
  <2>4. Moved => Location(pos + 1) = Location(read)
    BY <2>2 DEF RxInv, LossInv, Location
  <2>5. Moved => Before(received', pos + 1) = Before(received, pos + 1)
    BY <1>1, <2>2, <2>4, BeforeStep, RxInvIs
  <2>6. access = "taken" => read # write'
    BY <1>1, <2>2 DEF RxInv, BufferInv
  <2> QED
    BY <1>2, <2>2, <2>3, <2>5, <2>6
    DEF RxInv, LossInv, mainVars, Resting, Moved
<1>10. ReadyInv'
  <2>1. ~dropped' => ~dropped /\ (read # size => read' = read)
    BY QueueIs
  <2> QED
  BY <1>1, <1>2, <2>1 DEF RxInv, BufferInv, ReadyInv, ReadableIsReady, isEmpty, mainVars, pollVars
<1> QED
  BY <1>6, <1>7, <1>8, <1>9, <1>10 DEF RxInv

(***************************************************************************)
(* The main program                                                        *)
(***************************************************************************)

(* available and isEmpty look only.                                         *)
LEMMA PollKeeps ==
  ASSUME RxInv, Poll \/ Compare \/ PollAgain \/ Wait \/ Waited \/ Nonempty \/ NothingRead
  PROVE  RxInv'
<1> USE DEF RxInv, queueVars, pollVars, interruptVars
<1>1. CASE Poll
  BY <1>1 DEF Poll, RxTypeOK, Accesses, BufferInv, OrderInv, LossInv, ReadyInv,
              ReadableIsReady, isEmpty, Resting, Moved
<1>2. CASE Compare
  <2>1. /\ access = "poll1" /\ access' = "poll2" /\ ge' \in BOOLEAN
        /\ UNCHANGED <<queueVars, w, rd, pos, loc, c, interruptVars, late, last, missed>>
    BY <1>2 DEF Compare
  <2>2. isEmpty => ge'
    <3>1. isEmpty => w = read /\ read \in Nat
      BY <2>1, RxInvIs, SizeIs DEF ReadyInv, isEmpty
    <3>2. isEmpty => w >= read
      BY <3>1
    <3>3. ge' = (w >= read)
      BY <1>2 DEF Compare
    <3> QED
      BY <3>2, <3>3, Zenon
  <2> QED
    BY <2>1, <2>2
    DEF RxTypeOK, Accesses, BufferInv, OrderInv, LossInv, ReadyInv,
        ReadableIsReady, isEmpty, Resting, Moved
<1>3. CASE PollAgain
  BY <1>3, RxInvIs
  DEF PollAgain, RxTypeOK, Accesses, BufferInv, OrderInv, LossInv, ReadyInv,
      ReadableIsReady, isEmpty, Resting, Moved
<1>4. CASE Wait
  BY <1>4, RxInvIs
  DEF Wait, RxTypeOK, Accesses, BufferInv, OrderInv, LossInv, ReadyInv,
      ReadableIsReady, isEmpty, Resting, Moved
<1>5. CASE Waited
  <2>1. /\ access = "waiting" /\ access' \in {"readable", "dequeue"}
        /\ UNCHANGED <<queueVars, pollVars, pos, loc, c, interruptVars, late, last, missed>>
    BY <1>5 DEF Waited
  <2> QED
    BY <2>1 DEF RxTypeOK, Accesses, BufferInv, OrderInv, LossInv, ReadyInv,
                ReadableIsReady, isEmpty, Resting, Moved
<1>6. CASE Nonempty
  BY <1>6 DEF Nonempty, RxTypeOK, Accesses, BufferInv, OrderInv, LossInv, ReadyInv,
              ReadableIsReady, isEmpty, Resting, Moved
<1>7. CASE NothingRead
  BY <1>7 DEF NothingRead, RxTypeOK, Accesses, BufferInv, OrderInv, LossInv, ReadyInv,
              ReadableIsReady, isEmpty, Resting, Moved
<1> QED
  BY <1>1, <1>2, <1>3, <1>4, <1>5, <1>6, <1>7

(* dequeue asks with the `read' of this moment.                             *)
LEMMA AskKeeps ==
  ASSUME RxInv, Ask
  PROVE  RxInv'
<1> USE DEF RxInv, queueVars, pollVars, interruptVars
<1>1. /\ access = "dequeue" /\ access' = "asking" /\ rd' = read /\ dropped' = FALSE
      /\ UNCHANGED <<queueVars, ge, w, pos, loc, c, left, received, overran, late, last, missed>>
  BY DEF Ask
<1> QED
  BY <1>1, RxInvIs
  DEF RxTypeOK, Accesses, BufferInv, OrderInv, LossInv, ReadyInv,
      ReadableIsReady, isEmpty, Resting, Moved

(* An empty queue has nothing available, whatever has been looked at.       *)
LEMMA ReadableKeeps ==
  ASSUME RxInv, Readable
  PROVE  RxInv'
<1> USE DEF RxInv, queueVars, pollVars, interruptVars
<1>1. access = "poll3" /\ access' \in {"readable", "idle"}
  BY DEF Readable
<1>2. UNCHANGED <<queueVars, pollVars, pos, loc, c, interruptVars, late, last, missed>>
  BY DEF Readable
<1>3. access' = "readable" => ~isEmpty
  <2>1. SUFFICES ASSUME isEmpty PROVE available(ge) = 0
    BY DEF Readable
  <2>2. ge /\ w = read /\ read \in Nat
    BY <1>1, <2>1, RxInvIs, SizeIs DEF ReadyInv, isEmpty
  <2>3. w - read = 0
    BY <2>2
  <2> QED
    BY <2>2, <2>3, ModSmall DEF available, AsByte
<1>4. RxTypeOK' /\ BufferInv'
  BY <1>1, <1>2 DEF RxTypeOK, Accesses, BufferInv
<1>5. OrderInv' /\ LossInv'
  BY <1>1, <1>2 DEF OrderInv, LossInv, Resting, Moved
<1>6. ReadyInv'
  BY <1>1, <1>2, <1>3 DEF ReadyInv, ReadableIsReady, isEmpty
<1> QED
  BY <1>4, <1>5, <1>6

(* dequeue takes: the queue is not empty, wherever `read' is by now.        *)
LEMMA TakeKeeps ==
  ASSUME RxInv, Take
  PROVE  RxInv'
<1> USE DEF RxInv, queueVars, pollVars, interruptVars
<1>1. /\ access = "nonempty" /\ access' = "taken" /\ pos' = read
      /\ UNCHANGED <<queueVars, pollVars, loc, c, interruptVars, late, last, missed>>
  BY DEF Take
<1>2. ~isEmpty
  BY <1>1 DEF ReadyInv, ReadableIsReady
<1>3. read \in Elements /\ read \in 0..size /\ received \in Nat /\ write = Location(received)
  BY <1>1, RxInvIs DEF BufferInv
<1>4. Before(received, read + 1) = Before(received, read) + 1
  BY <1>2, <1>3, BeforeNext DEF isEmpty
<1>5. Before(received, read) \in Int /\ last \in Nat
  BY <1>3, BeforeType, SizeAssumption DEF RxTypeOK
<1>6. RxTypeOK' /\ BufferInv'
  BY <1>1, <1>3 DEF RxTypeOK, Accesses, BufferInv
<1>7. OrderInv'
  <2>1. c = 0 /\ (~late => last <= Before(received, read))
    BY <1>1 DEF OrderInv, Resting
  <2>2. ~late => last < Before(received, read + 1)
    BY <1>4, <1>5, <2>1
  <2> QED
    BY <1>1, <2>1, <2>2 DEF OrderInv, Resting, Moved
<1>8. LossInv' /\ ReadyInv'
  BY <1>1, <1>2 DEF LossInv, ReadyInv, ReadableIsReady, isEmpty, Resting, Moved, OrderInv
<1> QED
  BY <1>6, <1>7, <1>8

(* The byte loaded is the one after the byte before the location taken.     *)
LEMMA LoadKeeps ==
  ASSUME RxInv, LoadByte
  PROVE  RxInv'
<1> USE DEF RxInv, queueVars, pollVars, interruptVars
<1>1. /\ access \in {"taken", "incremented", "reducing", "reduced"} /\ c = 0
      /\ c' = buf[pos] /\ (late' <=> late \/ access # "taken")
  BY DEF LoadByte
<1>2. UNCHANGED <<queueVars, access, pollVars, pos, loc, interruptVars, last, missed>>
  BY DEF LoadByte
<1> DEFINE b == Before(received, pos + 1)
<1>3. /\ pos \in Elements /\ pos + 1 \in 0..size /\ received \in Nat
      /\ write = Location(received)
  BY RxInvIs
<1>4. b \in Int /\ last \in Nat
  BY <1>3, BeforeType, SizeAssumption DEF RxTypeOK
<1>5. c' = IF b > 0 THEN b ELSE 0
  BY <1>1, <1>3 DEF BufferInv
<1>6. RxTypeOK'
  <2>1. c' \in 0..MaxReceived
    BY <1>1, <1>3 DEF RxTypeOK
  <2>2. late' \in BOOLEAN
    BY DEF LoadByte
  <2> QED
    BY <1>2, <2>1, <2>2 DEF RxTypeOK
<1>7. BufferInv' /\ ReadyInv'
  BY <1>1, <1>2 DEF BufferInv, ReadyInv, ReadableIsReady, isEmpty
<1>8. OrderInv'
  <2>1. CASE ~late'
    <3>1. access = "taken" /\ ~late
      BY <1>1, <2>1
    <3>2. last < b
      BY <3>1 DEF OrderInv
    <3>3. last < c' /\ c' <= b
      BY <1>4, <1>5, <3>2
    <3> HIDE DEF b
    <3> QED
      BY <1>2, <3>1, <3>2, <3>3 DEF OrderInv, Resting, Moved, b
  <2>2. CASE late'
    BY <1>1, <1>2, <2>2 DEF OrderInv, Resting
  <2> QED
    BY <2>1, <2>2
<1>9. LossInv'
  <2>1. SUFFICES ASSUME ~overran PROVE LossInv'
    BY <1>2 DEF LossInv
  <2>2. b = last + 1
    <3>1. CASE access = "taken"
      <4>1. pos = read /\ read # write /\ Before(received, read) = last
        BY <2>1, <3>1 DEF LossInv
      <4> QED
        BY <1>3, <4>1, BeforeNext
    <3>2. CASE access # "taken"
      BY <1>1, <2>1, <3>2 DEF LossInv, Moved
    <3> QED
      BY <3>1, <3>2
  <2>3. c' = last + 1
    BY <1>4, <1>5, <2>2
  <2> HIDE DEF b
  <2> QED
    BY <1>1, <1>2, <2>1, <2>3 DEF LossInv, Resting, Moved
<1> QED
  BY <1>6, <1>7, <1>8, <1>9

(* `read' is moved: first it is written, then read again, then reduced.     *)
LEMMA IncrementKeeps ==
  ASSUME RxInv, Increment
  PROVE  RxInv'
<1> USE DEF RxInv, queueVars, pollVars, interruptVars
<1>1. /\ access = "taken" /\ access' = "incremented" /\ read' = pos + 1
      /\ UNCHANGED <<write, buf, pollVars, pos, loc, c, interruptVars, late, last, missed>>
  BY DEF Increment
<1>2. /\ pos \in Elements /\ pos + 1 \in 0..size /\ received \in Nat
      /\ write = Location(received)
  BY RxInvIs
<1>3. RxTypeOK' /\ BufferInv' /\ ReadyInv'
  BY <1>1, <1>2 DEF RxTypeOK, Accesses, BufferInv, ReadyInv, ReadableIsReady, isEmpty
<1>4. OrderInv'
  BY <1>1 DEF OrderInv, Resting, Moved
<1>5. LossInv'
  <2>1. SUFFICES ASSUME ~overran PROVE LossInv'
    BY <1>1 DEF LossInv
  <2>2. pos = read /\ read # write /\ Before(received, read) = last
    BY <1>1, <2>1 DEF LossInv
  <2>3. Before(received, pos + 1) = last + 1
    BY <1>2, <2>2, BeforeNext
  <2> QED
    BY <1>1, <2>1, <2>3 DEF LossInv, Resting, Moved
<1> QED
  BY <1>3, <1>4, <1>5

(* What is read again may be what the interrupt has moved to meanwhile.     *)
LEMMA ReadAgainKeeps ==
  ASSUME RxInv, ReadAgain
  PROVE  RxInv'
<1> USE DEF RxInv, queueVars, pollVars, interruptVars
<1>1. /\ access = "incremented" /\ access' = "reducing" /\ loc' = read
      /\ UNCHANGED <<queueVars, pollVars, pos, c, interruptVars, late, last, missed>>
  BY DEF ReadAgain
<1>2. RxTypeOK' /\ BufferInv' /\ ReadyInv'
  BY <1>1 DEF RxTypeOK, Accesses, BufferInv, ReadyInv, ReadableIsReady, isEmpty
<1>3. OrderInv' /\ LossInv'
  BY <1>1 DEF OrderInv, LossInv, Resting, Moved
<1> QED
  BY <1>2, <1>3

(* Reduced, a location stands for the same byte; if it is an old one, for   *)
(* none that was read.                                                      *)
LEMMA ReduceKeeps ==
  ASSUME RxInv, Reduce
  PROVE  RxInv'
<1> USE DEF RxInv, queueVars, pollVars, interruptVars
<1>1. /\ access = "reducing" /\ access' = "reduced" /\ read' = Location(loc)
      /\ UNCHANGED <<write, buf, pollVars, pos, loc, c, interruptVars, late, last, missed>>
  BY DEF Reduce, Location
<1>2. loc \in 0..size /\ received \in Nat
  BY RxInvIs
<1>3. Location(loc) \in Elements /\ Location(loc) # size /\ Location(loc) \in 0..size
  BY <1>2, LocationIs, SizeIs
<1>4. Before(received, Location(loc)) = Before(received, loc)
  BY <1>2, BeforeType
<1>5. RxTypeOK' /\ BufferInv' /\ ReadyInv'
  BY <1>1, <1>3 DEF RxTypeOK, Accesses, BufferInv, ReadyInv, ReadableIsReady, isEmpty
<1>6. OrderInv'
  BY <1>1, <1>4 DEF OrderInv, Resting, Moved
<1>7. LossInv'
  <2>1. SUFFICES ASSUME ~overran PROVE LossInv'
    BY <1>1 DEF LossInv
  <2>2. loc = read /\ Location(read) = Location(pos + 1)
    BY <1>1, <2>1 DEF LossInv, Moved, Location
  <2>3. Location(Location(loc)) = Location(loc)
    BY <1>3, LocationIs, SizeIs
  <2>4. read' % size = (pos' + 1) % size
    BY <1>1, <2>2, <2>3 DEF Location
  <2> QED
    BY <1>1, <1>4, <2>1, <2>2, <2>4 DEF LossInv, Resting, Moved
<1> QED
  BY <1>5, <1>6, <1>7

(* dequeue ends.                                                            *)
LEMMA DeliverKeeps ==
  ASSUME RxInv, Deliver
  PROVE  RxInv'
<1> USE DEF RxInv, queueVars, pollVars, interruptVars
<1>1. /\ access = "reduced" /\ access' = "idle" /\ c # 0 /\ last' = c /\ c' = 0
      /\ (missed' <=> missed \/ c # last + 1)
      /\ UNCHANGED <<queueVars, pollVars, pos, loc, interruptVars, overran, late>>
  BY DEF Deliver
<1>2. RxTypeOK'
  <2>1. missed' \in BOOLEAN /\ 0 \in 0..MaxReceived
    BY SizeAssumption DEF Deliver
  <2> QED
    BY <1>1, <2>1 DEF RxTypeOK, Accesses
<1>3. BufferInv' /\ ReadyInv'
  BY <1>1 DEF BufferInv, ReadyInv, ReadableIsReady, isEmpty
<1>4. OrderInv'
  BY <1>1 DEF OrderInv, Resting, Moved
<1>5. LossInv'
  BY <1>1 DEF LossInv, Resting, Moved
<1> QED
  BY <1>2, <1>3, <1>4, <1>5

(***************************************************************************)
(* The theorems                                                            *)
(***************************************************************************)

LEMMA RxInitInv == RxInit => RxInv
<1> SUFFICES ASSUME RxInit PROVE RxInv
  OBVIOUS
<1> USE DEF RxInit
<1>1. size \in Nat \ {0} /\ 0 \in Elements /\ 0 \in 0..size /\ 0 # size
  BY SizeIs
<1>2. Location(0) = 0
  BY <1>1, LocationIs, SizeIs
<1>3. \A i \in Elements : Before(0, i + 1) <= 0
  <2>1. SUFFICES ASSUME NEW i \in Elements PROVE Before(0, i + 1) <= 0
    OBVIOUS
  <2>2. i + 1 \in 0..size
    BY SizeIs
  <2> QED
    BY <2>2, BeforeType
<1>4. Before(0, 0) = 0
  BY <1>1, <1>2, BeforeIs
<1>5. RxTypeOK
  <2>1. 0 \in 0..MaxReceived /\ 0 \in 0..MaxPacket
    BY SizeAssumption
  <2>2. buf \in [Elements -> 0..MaxReceived]
    BY <2>1
  <2> QED
    BY <1>1, <2>1, <2>2 DEF RxTypeOK, Accesses
<1>6. BufferInv
  <2>1. \A i \in Elements : Before(0, i + 1) \in Int
    <3>1. \A i \in Elements : i + 1 \in 0..size
      BY SizeIs
    <3> QED
      BY <3>1, BeforeType
  <2>2. \A i \in Elements : ~(Before(0, i + 1) > 0)
    BY <1>3, <2>1
  <2> QED
    BY <1>1, <1>2, <2>2, SizeAssumption DEF BufferInv, Location
<1>7. OrderInv /\ LossInv /\ ReadyInv
  BY <1>4 DEF OrderInv, LossInv, ReadyInv, ReadableIsReady, Resting, Moved
<1> QED
  BY <1>5, <1>6, <1>7 DEF RxInv

LEMMA RxStepInv == RxInv /\ [RxNext]_rxVars => RxInv'
<1> SUFFICES ASSUME RxInv, [RxNext]_rxVars PROVE RxInv'
  OBVIOUS
<1>1. CASE queue
  BY <1>1, QueueKeeps
<1>2. ASSUME NEW n \in 1..MaxPacket, EPBULK_OUT_callback(n) PROVE RxInv'
  <2>1. left' = n /\ received + left' <= MaxReceived
        /\ UNCHANGED <<queueVars, mainVars, received, overran, dropped>>
    BY <1>2 DEF EPBULK_OUT_callback
  <2>2. left' \in 0..MaxPacket
    BY <2>1, SizeAssumption
  <2> QED
    BY <2>1, <2>2
    DEF RxInv, RxTypeOK, BufferInv, OrderInv, LossInv, ReadyInv, ReadableIsReady, isEmpty,
        Resting, Moved, queueVars, mainVars, pollVars
<1>3. CASE Main
  BY <1>3, PollKeeps, AskKeeps, ReadableKeeps, TakeKeeps, LoadKeeps, IncrementKeeps,
     ReadAgainKeeps, ReduceKeeps, DeliverKeeps DEF Main
<1>4. CASE UNCHANGED rxVars
  BY <1>4
  DEF RxInv, RxTypeOK, BufferInv, OrderInv, LossInv, ReadyInv, ReadableIsReady, isEmpty,
      Resting, Moved, rxVars, queueVars, mainVars, pollVars, interruptVars
<1> QED
  BY <1>1, <1>2, <1>3, <1>4 DEF RxNext, Interrupt

(* The inductive invariant holds, for a buffer and packets of any size.     *)
THEOREM RxInvariance == RxSpec => []RxInv
<1>1. RxInit => RxInv
  BY RxInitInv
<1>2. RxInv /\ [RxNext]_rxVars => RxInv'
  BY RxStepInv
<1> QED
  BY <1>1, <1>2, PTL DEF RxSpec

(* `read' and `write' stay in the array whoever moves them, and bytes are   *)
(* lost only by one that finds the buffer full (CircBuffer.h:26-54).        *)
THEOREM OnlyFullLoses == RxSpec => []ReceiveInv
<1>1. RxInv => ReceiveInv
  <2>1. SUFFICES ASSUME RxInv PROVE ReceiveInv
    OBVIOUS
  <2>2. ~overran => ~missed
    BY <2>1 DEF RxInv, LossInv
  <2> QED
    BY <2>1, <2>2 DEF RxInv, ReceiveInv, LostOnlyWhenFull
<1> QED
  BY <1>1, RxInvariance, PTL

(* getc does not wait after readable has said yes (USBSerial.h:99).         *)
THEOREM GetcDoesNotWait == RxSpec => []ReadableIsReady
<1>1. RxInv => ReadableIsReady
  BY DEF RxInv, ReadyInv
<1> QED
  BY <1>1, RxInvariance, PTL

(* No byte is read twice or out of order, though the interrupt drops bytes  *)
(* and moves `read' in the middle of dequeue; and _getc returns a byte that *)
(* never came only if one was dropped between the two loads of isEmpty      *)
(* (CircBuffer.h:30-54, USBSerial.cpp:34-39).                               *)
THEOREM BytesReadInOrder == RxSpec => ReadInOrder
<1>1. RxInv /\ [RxNext]_rxVars =>
        [/\ access = "reduced" /\ access' = "idle" /\ ~late => last' > last
         /\ access = "asking" /\ access' = "idle" => dropped]_rxVars
  <2> SUFFICES ASSUME RxInv, RxNext, access \in {"reduced", "asking"}, access' = "idle"
               PROVE  IF access = "reduced" THEN ~late => last' > last ELSE dropped
    OBVIOUS
  <2>1. ~Interrupt
    <3>1. access' # access
      OBVIOUS
    <3> QED
      BY <3>1 DEF Interrupt, queue, EPBULK_OUT_callback, mainVars
  <2>2. CASE access = "reduced"
    <3>1. Deliver
      BY <2>1, <2>2 DEF RxNext, Main, Poll, Compare, PollAgain, Readable, Wait, Waited, Ask,
                        Nonempty, NothingRead, Take, LoadByte, Increment, ReadAgain, Reduce
    <3>2. last' = c /\ (~late => last < c)
      BY <2>2, <3>1 DEF Deliver, RxInv, OrderInv, Moved
    <3> QED
      BY <2>2, <3>2, SizeAssumption DEF RxInv, RxTypeOK
  <2>3. CASE access = "asking"
    <3>1. NothingRead
      BY <2>1, <2>3 DEF RxNext, Main, Poll, Compare, PollAgain, Readable, Wait, Waited, Ask,
                        Nonempty, Take, LoadByte, Increment, ReadAgain, Reduce, Deliver
    <3>2. rd = write /\ read # write
      BY <2>3, <3>1 DEF NothingRead, RxInv, ReadyInv, ReadableIsReady, isEmpty
    <3> QED
      BY <2>3, <3>2 DEF RxInv, ReadyInv
  <2> QED
    BY <2>2, <2>3
<1> QED
  BY <1>1, RxInvariance, PTL DEF RxSpec, ReadInOrder
=============================================================================
