----------------------------- MODULE UsbReceive -----------------------------
(***************************************************************************)
(* The receive queue of the USB serial port (CircBuffer.h, USBSerial.cpp). *)
(* The USB interrupt queues the bytes of a packet, and when the buffer is  *)
(* full it moves `read' to drop the oldest.  The main program polls        *)
(* readable and dequeues.  So both move `read', and there is no lock.      *)
(*                                                                         *)
(* The interrupt runs to completion between any two accesses of the main   *)
(* program to the volatile `write' and `read', which come in the order in  *)
(* which they are written; the byte is loaded at any moment after `read'   *)
(* has been read.  Bytes are numbered as they come.                        *)
(***************************************************************************)
EXTENDS Integers, Sequences

CONSTANTS
  Size,        \* bytes the buffer holds
  MaxPacket,   \* bytes of a packet, MAX_PACKET_SIZE_EPBULK
  MaxReceived  \* bound: bytes received in a behaviour

ASSUME SizeAssumption ==
  /\ Size \in Nat \ {0} /\ MaxPacket \in Nat /\ MaxReceived \in Nat

VARIABLES
  write, read, buf,  \* CircBuffer
  access,            \* the main program's last access
  ge, w,             \* available: what it has found out so far
  rd,                 \* available, isEmpty: `read' as read for a comparison
  pos, loc,          \* dequeue: `read' as read for the increment, for the `%='
  c,                 \* dequeue: the byte, 0 until it is loaded
  left,              \* the interrupt: bytes of its packet not queued yet
  received,          \* bytes queued so far
  overran,           \* history: some byte found the buffer full
  dropped,           \* history: one did since dequeue began to ask
  late,              \* history: some byte was loaded after `read' had been moved
  last, missed       \* history: the byte read last; some byte before it was not read

queueVars == <<write, read, buf>>
pollVars == <<ge, w, rd>>
mainVars == <<access, pollVars, pos, loc, c, late, last, missed>>
interruptVars == <<left, received, overran, dropped>>
rxVars == <<queueVars, mainVars, interruptVars>>

size == Size + 1
Elements == 0..Size

Accesses == {"idle", "poll1", "poll2", "poll3", "readable",
             "waiting", "dequeue", "asking", "nonempty", "taken", "incremented", "reducing", "reduced"}

RxTypeOK ==
  /\ write \in Elements /\ read \in 0..size
  /\ buf \in [Elements -> 0..MaxReceived]
  /\ access \in Accesses
  /\ ge \in BOOLEAN /\ w \in Elements /\ rd \in 0..size
  /\ pos \in Elements /\ loc \in 0..size
  /\ c \in 0..MaxReceived
  /\ left \in 0..MaxPacket /\ received \in 0..MaxReceived
  /\ overran \in BOOLEAN /\ dropped \in BOOLEAN /\ late \in BOOLEAN
  /\ last \in 0..MaxReceived /\ missed \in BOOLEAN

RxInit ==
  /\ write = 0 /\ read = 0 /\ buf = [i \in Elements |-> 0]
  /\ access = "idle" /\ ge = FALSE /\ w = 0 /\ rd = 0 /\ pos = 0 /\ loc = 0 /\ c = 0
  /\ left = 0 /\ received = 0 /\ overran = FALSE /\ dropped = FALSE /\ late = FALSE
  /\ last = 0 /\ missed = FALSE

(***************************************************************************)
(* The interrupt                                                           *)
(***************************************************************************)
isFull(r) == (write + 1) % size = r
isEmpty == read = write

(* A packet of n bytes.                                                     *)
EPBULK_OUT_callback(n) ==
  /\ left = 0 /\ received + n <= MaxReceived
  /\ left' = n
  /\ UNCHANGED <<queueVars, mainVars, received, overran, dropped>>

(* A byte of it that finds the buffer full drops the oldest.  It cannot     *)
(* tell that the buffer is full while the main program has not reduced      *)
(* `read' yet.                                                              *)
queue ==
  /\ left > 0
  /\ read' = IF isFull(read) THEN (read + 1) % size ELSE read
  /\ buf' = [buf EXCEPT ![write] = received + 1]
  /\ write' = (write + 1) % size
  /\ overran' = (overran \/ isFull(read % size))
  /\ dropped' = (dropped \/ isFull(read % size))
  /\ received' = received + 1 /\ left' = left - 1
  /\ UNCHANGED mainVars

Interrupt == queue \/ \E n \in 1..MaxPacket : EPBULK_OUT_callback(n)

(***************************************************************************)
(* The main program                                                        *)
(***************************************************************************)

(* available: write >= read ? write - read : size - read + write, each      *)
(* operand read anew.                                                       *)
Poll ==
  /\ access = "idle" /\ w' = write /\ access' = "poll1"
  /\ UNCHANGED <<queueVars, ge, rd, pos, loc, c, interruptVars, late, last, missed>>

Compare ==
  /\ access = "poll1" /\ ge' = (w >= read) /\ access' = "poll2"
  /\ UNCHANGED <<queueVars, w, rd, pos, loc, c, interruptVars, late, last, missed>>

PollAgain ==
  /\ access = "poll2" /\ access' = "poll3"
  /\ IF ge THEN w' = write /\ UNCHANGED rd ELSE rd' = read /\ UNCHANGED w
  /\ UNCHANGED <<queueVars, ge, pos, loc, c, interruptVars, late, last, missed>>

AsByte(n) == n % 256

(* The variant that takes the bytes up to the end for all of them.          *)
countToTheEnd(isGe) == AsByte(IF isGe THEN size - read ELSE size - rd + write)

available(isGe) == AsByte(IF isGe THEN w - read ELSE size - rd + write)

Readable ==
  /\ access = "poll3"
  /\ access' = IF available(ge) # 0 THEN "readable" ELSE "idle"
  /\ UNCHANGED <<queueVars, pollVars, pos, loc, c, interruptVars, late, last, missed>>

(* _getc: waits until isEmpty, which reads `read' and then `write', says no.*)
Wait ==
  /\ access = "readable" /\ rd' = read /\ access' = "waiting"
  /\ UNCHANGED <<queueVars, ge, w, pos, loc, c, interruptVars, late, last, missed>>

Waited ==
  /\ access = "waiting"
  /\ access' = IF rd = write THEN "readable" ELSE "dequeue"
  /\ UNCHANGED <<queueVars, pollVars, pos, loc, c, interruptVars, late, last, missed>>

(* dequeue asks again.                                                      *)
Ask ==
  /\ access = "dequeue" /\ rd' = read /\ access' = "asking"
  /\ dropped' = FALSE
  /\ UNCHANGED <<queueVars, ge, w, pos, loc, c, left, received, overran, late, last, missed>>

Nonempty ==
  /\ access = "asking" /\ rd # write /\ access' = "nonempty"
  /\ UNCHANGED <<queueVars, pollVars, pos, loc, c, interruptVars, late, last, missed>>

(* dequeue has nothing; _getc does not look at its result and returns a 0   *)
(* nobody has sent.                                                         *)
NothingRead ==
  /\ access = "asking" /\ rd = write /\ access' = "idle"
  /\ UNCHANGED <<queueVars, pollVars, pos, loc, c, interruptVars, late, last, missed>>

Take ==
  /\ access = "nonempty" /\ pos' = read /\ access' = "taken"
  /\ UNCHANGED <<queueVars, pollVars, loc, c, interruptVars, late, last, missed>>

(* The variant that looks the byte up where `read' points by now.           *)
LoadAtRead ==
  /\ access \in {"taken", "incremented", "reducing", "reduced"} /\ c = 0
  /\ c' = buf[read % size] /\ late' = (late \/ access # "taken")
  /\ UNCHANGED <<queueVars, access, pollVars, pos, loc, interruptVars, last, missed>>

LoadByte ==
  /\ access \in {"taken", "incremented", "reducing", "reduced"} /\ c = 0
  /\ c' = buf[pos] /\ late' = (late \/ access # "taken")
  /\ UNCHANGED <<queueVars, access, pollVars, pos, loc, interruptVars, last, missed>>

Increment ==
  /\ access = "taken"
  /\ read' = pos + 1 /\ access' = "incremented"
  /\ UNCHANGED <<write, buf, pollVars, pos, loc, c, interruptVars, late, last, missed>>

ReadAgain ==
  /\ access = "incremented"
  /\ loc' = read /\ access' = "reducing"
  /\ UNCHANGED <<queueVars, pollVars, pos, c, interruptVars, late, last, missed>>

(* The variant that steps once more.                                       *)
StepBack ==
  /\ access = "reducing"
  /\ read' = (loc + Size) % size /\ access' = "reduced"
  /\ UNCHANGED <<write, buf, pollVars, pos, loc, c, interruptVars, late, last, missed>>

Reduce ==
  /\ access = "reducing"
  /\ read' = loc % size /\ access' = "reduced"
  /\ UNCHANGED <<write, buf, pollVars, pos, loc, c, interruptVars, late, last, missed>>

Deliver ==
  /\ access = "reduced" /\ c # 0
  /\ last' = c /\ missed' = (missed \/ c # last + 1)
  /\ c' = 0 /\ access' = "idle"
  /\ UNCHANGED <<queueVars, pollVars, pos, loc, interruptVars, late>>

(* The main program goes on when the interrupt has returned.                *)
Main ==
  /\ left = 0
  /\ \/ Poll \/ Compare \/ PollAgain \/ Readable \/ Wait \/ Waited
     \/ Ask \/ Nonempty \/ NothingRead \/ Take
     \/ LoadByte \/ Increment \/ ReadAgain \/ Reduce \/ Deliver

RxNext == Interrupt \/ Main

RxSpec == RxInit /\ [][RxNext]_rxVars
RxFairSpec == RxSpec /\ WF_rxVars(queue) /\ WF_rxVars(Main)

(***************************************************************************)
(* Properties                                                              *)
(***************************************************************************)

(* Even when the interrupt drops bytes and moves `read' in the middle of    *)
(* dequeue, no byte is read twice, out of order or before it came, unless   *)
(* the build loads a byte after it moved.  What _getc returns otherwise is  *)
(* the 0 of a dequeue that took the queue for empty, and that happens only  *)
(* if a byte found the buffer full between isEmpty's two loads              *)
(* (CircBuffer.h:30-54, USBSerial.cpp:34-39).                               *)
ReadInOrder ==
  [][/\ access = "reduced" /\ access' = "idle" /\ ~late => last' > last
     /\ access = "asking" /\ access' = "idle" => dropped]_rxVars

(* Bytes are lost only by a byte that finds the buffer full.                *)
LostOnlyWhenFull == missed => overran

(* The invariant of receiving: `read' and `write' stay in the array whoever *)
(* moves them, and only a full buffer costs bytes (CircBuffer.h:26-54).     *)
ReceiveInv == RxTypeOK /\ LostOnlyWhenFull

(* When readable has said yes there is a byte until it is taken, however    *)
(* the interrupt changes the operands of available while it is computed     *)
(* (USBSerial.h:99, CircBuffer.h:43-45, USBSerial.cpp:34-39).               *)
ReadableIsReady ==
  access \in {"readable", "waiting", "dequeue", "asking", "nonempty"} => ~isEmpty

(* Every byte is read, and the queue empties, as long as none finds it full.*)
AllRead == <>[](overran \/ last = received)
=============================================================================
