----------------------------- MODULE SerialSend -----------------------------
(***************************************************************************)
(* The sending side of a buffered UART (BufferedSerial.cpp): write puts    *)
(* the bytes of a message into _txbuf and primes the transmitter; the      *)
(* transmit interrupt sends what is in _txbuf while the hardware has room, *)
(* and turns itself off when nothing is left.                              *)
(*                                                                         *)
(* The main program writes messages (dprintf), and so do interrupts.  An   *)
(* interrupt runs to completion between two accesses of the main program,  *)
(* while the hardware goes on sending: put and get read a location, write  *)
(* it back plus one, and reduce it with another read and another write.    *)
(* The byte itself is stored or loaded at any moment after the location    *)
(* has been read, because _buf is not volatile.                            *)
(***************************************************************************)
EXTENDS MyBuffer

CONSTANTS
  Room,          \* bytes the hardware takes: data and shift register
  MaxMain,       \* bound: length of a message of the main program
  MaxIrq,        \* bound: length of a message of an interrupt, 0: none
  MaxWritten     \* bound: bytes written in a behaviour

ASSUME SendAssumption ==
  /\ Room \in Nat \ {0}
  /\ MaxMain \in Nat /\ MaxIrq \in Nat /\ MaxWritten \in Nat

(* Bytes are numbered as they are written; the array is filled with zeros.  *)
Numbers == 0..MaxWritten

VARIABLES
  buf, wloc, rloc,  \* _txbuf: _buf, _wloc, _rloc
  room,      \* bytes the hardware has room for
  attached,  \* the transmit interrupt is attached
  last,      \* history: the last byte that was sent
  inOrder,   \* history: each was one more than the one before
  handler,   \* the interrupt under way: "put" and "prime" in a write, "tx"
  ileft,     \* its write: bytes to put
  pc,        \* the main program's next step
  left,      \* its write: bytes to put, those of a message have increasing numbers
  stage,     \* put, get: the last access made to the location
  pos,       \* put, get: the location that was read
  loc,       \* put, get: the location that `%=' read
  byte,      \* put: the byte, until it is stored; get: the byte that was loaded
  written,   \* bytes written so far
  shared,    \* history: an interrupt has logged
  orderly    \* history: main's put was left alone, see Undisturbed and PutDone

txbuf     == <<buf, wloc, rloc>>
sent      == <<last, inOrder>>
uart      == <<room, attached, sent>>
interrupt == <<handler, ileft>>
access    == <<stage, pos, loc>>
main      == <<pc, left, access, byte>>
history   == <<shared, orderly>>
vars      == <<txbuf, uart, interrupt, main, written, history>>

zero == 0

Stages == {"none", "read", "written", "reducing", "reduced"}

TypeOK ==
  /\ buf \in [Elements -> Numbers] /\ wloc \in Elements /\ rloc \in Elements
  /\ room \in 0..Room /\ attached \in BOOLEAN
  /\ last \in Numbers /\ inOrder \in BOOLEAN
  /\ handler \in {"none", "put", "prime", "tx"}
  /\ ileft \in Seq(Numbers) /\ Len(ileft) <= MaxIrq
  /\ pc \in {"idle", "put", "prime", "detach", "loop", "get", "send", "none", "attach"}
  /\ left \in Seq(Numbers) /\ Len(left) <= MaxMain
  /\ stage \in Stages
  /\ pos \in Elements /\ loc \in Elements
  /\ byte \in Numbers
  /\ written \in 0..MaxWritten
  /\ shared \in BOOLEAN /\ orderly \in BOOLEAN

Init ==
  /\ buf = [i \in Elements |-> zero] /\ wloc = 0 /\ rloc = 0
  /\ room = Room /\ attached = FALSE
  /\ last = zero /\ inOrder = TRUE
  /\ handler = "none" /\ ileft = <<>>
  /\ pc = "idle" /\ left = <<>>
  /\ stage = "none" /\ pos = 0 /\ loc = 0 /\ byte = zero
  /\ written = 0
  /\ shared = FALSE /\ orderly = TRUE

Message(n) == [i \in 1..n |-> written + i]

Send(b) == room' = room - 1 /\ last' = b /\ inOrder' = (inOrder /\ b = last + 1)

(* The hardware has sent a byte.                                            *)
Shift ==
  /\ room < Room
  /\ room' = room + 1
  /\ UNCHANGED <<txbuf, attached, sent, interrupt, main, written, history>>

(***************************************************************************)
(* Interrupts                                                              *)
(***************************************************************************)

(* No put is past its first write with its byte not stored yet, or its      *)
(* location not reduced yet.                                                *)
Undisturbed ==
  pc = "put" /\ stage \in {"written", "reducing", "reduced"} =>
    byte = zero /\ wloc \in Locations

TxInterrupt ==
  /\ handler = "none" /\ attached /\ room > 0
  /\ handler' = "tx"
  /\ orderly' = (orderly /\ Undisturbed)
  /\ UNCHANGED <<txbuf, uart, ileft, main, written, shared>>

(* An interrupt that logs.                                                  *)
IrqWrite(n) ==
  /\ handler = "none" /\ written + n <= MaxWritten
  /\ handler' = "put" /\ ileft' = Message(n)
  /\ written' = written + n
  /\ shared' = TRUE /\ orderly' = FALSE
  /\ UNCHANGED <<txbuf, uart, main>>

IrqPut ==
  /\ handler = "put" /\ ileft # <<>>
  /\ buf' = [buf EXCEPT ![wloc] = Head(ileft)]
  /\ wloc' = Reduce(wloc + 1)
  /\ ileft' = Tail(ileft)
  /\ UNCHANGED <<rloc, uart, handler, main, written, history>>

(* prime.  If already busy then the irq will pick this up.                  *)
IrqPrime ==
  /\ handler = "put" /\ ileft = <<>>
  /\ handler' = IF room > 0 THEN "prime" ELSE "none"
  /\ UNCHANGED <<txbuf, uart, ileft, main, written, history>>

(* The loop of txIrq ...                                                    *)
IrqSend ==
  /\ handler \in {"tx", "prime"} /\ room > 0 /\ available(wloc, rloc)
  /\ Send(buf[rloc])
  /\ rloc' = Reduce(rloc + 1)
  /\ UNCHANGED <<buf, wloc, attached, interrupt, main, written, history>>

IrqReturns ==
  /\ handler' = "none"
  /\ UNCHANGED <<txbuf, room, sent, ileft, main, written, history>>

(* The variant that takes a full transmitter for the end of the log.        *)
IrqGivesUp ==
  /\ handler \in {"tx", "prime"} /\ (room = 0 \/ ~available(wloc, rloc))
  /\ attached' = (handler = "prime")
  /\ IrqReturns

(* The variant that leaves the interrupt as txIrq left it.                  *)
IrqUnattached ==
  /\ handler \in {"tx", "prime"} /\ (room = 0 \/ ~available(wloc, rloc))
  /\ attached' = (handler = "tx" /\ room = 0)
  /\ IrqReturns

(* ... ends with the interrupt off if nothing is left, on again in prime.   *)
IrqSent ==
  /\ handler \in {"tx", "prime"} /\ (room = 0 \/ ~available(wloc, rloc))
  /\ attached' = (handler = "prime" \/ room = 0)
  /\ IrqReturns

Handler == IrqPut \/ IrqPrime \/ IrqSend \/ IrqSent

(***************************************************************************)
(* The main program                                                        *)
(***************************************************************************)
write(n) ==
  /\ pc = "idle" /\ handler = "none" /\ written + n <= MaxWritten
  /\ left' = Message(n)
  /\ written' = written + n
  /\ pc' = "put"
  /\ UNCHANGED <<txbuf, uart, interrupt, access, byte, history>>

NextByte ==
  /\ pc = "put" /\ stage = "none" /\ left # <<>>
  /\ pos' = wloc /\ stage' = "read"
  /\ byte' = Head(left) /\ left' = Tail(left)
  /\ UNCHANGED <<txbuf, uart, pc, loc, history>>

WrittenAll ==
  /\ pc = "put" /\ stage = "none" /\ left = <<>>
  /\ pc' = "prime"
  /\ UNCHANGED <<txbuf, uart, left, access, byte, history>>

(* The location that put, or get, moves.                                    *)
Moved == IF pc = "put" THEN wloc ELSE rloc

Move(l) ==
  /\ IF pc = "put" THEN wloc' = l /\ UNCHANGED rloc ELSE rloc' = l /\ UNCHANGED wloc
  /\ UNCHANGED buf

Increment ==
  /\ stage = "read"
  /\ Move(pos + 1)
  /\ stage' = "written"
  /\ UNCHANGED <<uart, pc, left, pos, loc, byte, history>>

ReadAgain ==
  /\ stage = "written"
  /\ loc' = Moved
  /\ stage' = "reducing"
  /\ UNCHANGED <<txbuf, uart, pc, left, pos, byte, history>>

WriteReduced ==
  /\ stage = "reducing"
  /\ Move(Reduce(loc))
  /\ stage' = "reduced"
  /\ UNCHANGED <<uart, pc, left, pos, loc, byte, history>>

StoreByte ==
  /\ pc = "put" /\ stage # "none" /\ byte # zero
  /\ buf' = [buf EXCEPT ![pos] = byte]
  /\ byte' = zero
  /\ UNCHANGED <<wloc, rloc, uart, pc, left, access, history>>

(* A location that has come round to the other one makes the buffer empty.  *)
PutDone ==
  /\ pc = "put" /\ stage = "reduced" /\ byte = zero
  /\ stage' = "none"
  /\ orderly' = (orderly /\ wloc # rloc)
  /\ UNCHANGED <<txbuf, uart, pc, left, pos, loc, byte, shared>>

(* prime.  If already busy then the irq will pick this up.                  *)
Prime ==
  /\ pc = "prime"
  /\ pc' = IF room > 0 THEN "detach" ELSE "idle"
  /\ UNCHANGED <<txbuf, uart, left, access, byte, history>>

(* The variant that does not detach.                                        *)
AttachOnly(from, on, to) ==
  /\ pc = from
  /\ attached' = (attached \/ on)
  /\ pc' = to
  /\ UNCHANGED <<txbuf, room, sent, left, access, byte, history>>

Attach(from, on, to) ==
  /\ pc = from
  /\ attached' = on
  /\ pc' = to
  /\ UNCHANGED <<txbuf, room, sent, left, access, byte, history>>

(* Main's own txIrq.                                                        *)
Loop ==
  /\ pc = "loop"
  /\ pc' = IF room = 0 THEN "attach"
           ELSE IF available(wloc, rloc) THEN "get" ELSE "none"
  /\ UNCHANGED <<txbuf, uart, left, access, byte, history>>

ReadLocation ==
  /\ pc = "get" /\ stage = "none"
  /\ pos' = rloc /\ stage' = "read"
  /\ UNCHANGED <<txbuf, uart, pc, left, loc, byte, history>>

(* get: the byte is loaded as soon as the location is known, or at the end. *)
LoadEarly ==
  /\ pc = "get" /\ stage = "read" /\ byte = zero
  /\ byte' = buf[pos]
  /\ UNCHANGED <<txbuf, uart, pc, left, access, history>>

GetDone ==
  /\ pc = "get" /\ stage = "reduced"
  /\ byte' = IF byte = zero THEN buf[pos] ELSE byte
  /\ stage' = "none" /\ pc' = "send"
  /\ UNCHANGED <<txbuf, uart, left, pos, loc, history>>

(* serial_putc waits for room.                                              *)
SendByte ==
  /\ pc = "send" /\ room > 0
  /\ Send(byte)
  /\ byte' = zero
  /\ pc' = "loop"
  /\ UNCHANGED <<txbuf, attached, left, access, history>>

Main ==
  /\ handler = "none" /\ UNCHANGED <<interrupt, written>>
  /\ \/ NextByte \/ WrittenAll
     \/ Increment \/ ReadAgain \/ WriteReduced \/ StoreByte \/ PutDone
     \/ Prime
     \/ Attach("detach", FALSE, "loop")
     \/ Loop \/ ReadLocation \/ LoadEarly \/ GetDone \/ SendByte
     \/ Attach("none", FALSE, "attach")
     \/ Attach("attach", TRUE, "idle")

Next ==
  \/ \E n \in 1..MaxMain : write(n)
  \/ \E n \in 1..MaxIrq : IrqWrite(n)
  \/ TxInterrupt \/ Handler \/ Shift
  \/ Main

Spec == Init /\ [][Next]_vars

(* The main program goes on between interrupts, the hardware sends,         *)
(* interrupts are taken and end, the loop being faster than the hardware.   *)
FairSpec ==
  /\ Spec /\ SF_vars(Main) /\ WF_vars(Shift) /\ WF_vars(TxInterrupt)
  /\ WF_vars(Handler) /\ []<>(handler = "none")

(***************************************************************************)
(* Properties                                                              *)
(***************************************************************************)

(* "If already busy then the irq will pick this up": whoever has put bytes  *)
(* into _txbuf and gone leaves the transmit interrupt attached, even when   *)
(* prime found no room, and when an interrupt has logged in the middle of   *)
(* the main program's prime (BufferedSerial.cpp:130-156).                   *)
NothingStuck ==
  pc = "idle" /\ handler = "none" /\ available(wloc, rloc) => attached

(* The invariant of sending: locations and room stay in bounds, also        *)
(* between the two writes of a location, and nothing is stuck               *)
(* (BufferedSerial.cpp:103-156).                                            *)
SendInv == TypeOK /\ NothingStuck

(* Every log ends up with the transmitter: once the main program writes no  *)
(* more, and no interrupt has logged, the software buffer empties for good  *)
(* (BufferedSerial.cpp:130-156).                                            *)
Drains == <>[](shared \/ (pc = "idle" /\ ~available(wloc, rloc)))

(* The bytes leave in order, each of them once, round the end of the buffer *)
(* too: as long as no interrupt logs, the buffer is not filled up and the   *)
(* transmit interrupt does not come between put's two writes of its         *)
(* location or before its byte is stored (BufferedSerial.cpp:103-156).      *)
InOrder == orderly => inOrder
=============================================================================
