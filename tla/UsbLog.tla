------------------------------- MODULE UsbLog -------------------------------
(***************************************************************************)
(* The buffered log on the USB serial port (USBSerialBuffered.cpp).  The   *)
(* main program puts single bytes into a buffer and flushes it; interrupts *)
(* append whole messages to the same buffer at any moment.  The main       *)
(* program holds no lock: it works with compare-and-swap on m_irq_buffused *)
(* and relies on the interrupts never decreasing that.                     *)
(*                                                                         *)
(* An interrupt runs to completion between two steps of the main program.  *)
(* Bytes are told apart by who printed them and a running number.          *)
(***************************************************************************)
EXTENDS Integers, Sequences, FiniteSetsExt

CONSTANTS
  CorkBuffSize,   \* bytes the main program may buffer; also the block size
  FullBuffSize,   \* mFullBuffSize
  Mark,           \* length of "...\n"
  MaxMessage,     \* bound: length of an interrupt's message
  MaxBytes        \* bound: bytes printed in a behaviour

(* The mark of a truncated message cannot reach what the main program wrote.*)
ASSUME SizesAssumption ==
  /\ CorkBuffSize \in Nat \ {0} /\ Mark \in Nat \ {0}
  /\ MaxMessage \in Nat /\ MaxBytes \in Nat
  /\ FullBuffSize \in Nat /\ CorkBuffSize + Mark <= FullBuffSize

VARIABLES
  m_buff,          \* the buffer
  m_irq_buffused,  \* bytes of it in use
  pc,              \* the next step of the main program
  c,               \* _putc: the byte to print
  newline,         \* _putc: it is '\n'
  ret,             \* where flush returns to
  buffused,        \* putc_normal, flush: what was read of m_irq_buffused
  flushedbytes,    \* flush: bytes that have left
  out,             \* what the USB host received
  printed          \* bytes printed so far

main == <<c, newline, ret, buffused, flushedbytes>>
vars == <<m_buff, m_irq_buffused, pc, main, out, printed>>

Slots == 0..(FullBuffSize - 1)
Bytes == [by : {"main", "irq"}, n : 1..MaxBytes] \cup [by : {"mark"}, n : 1..Mark]
Junk  == [by |-> "mark", n |-> 1]

TypeOK ==
  /\ m_buff \in [Slots -> Bytes]
  /\ m_irq_buffused \in 0..FullBuffSize
  /\ pc \in {"idle", "load", "reserve", "store", "cas", "fetch", "block"}
  /\ c \in Bytes /\ newline \in BOOLEAN /\ ret \in {"idle", "load"}
  /\ buffused \in 0..FullBuffSize /\ flushedbytes \in 0..FullBuffSize
  /\ out \in Seq(Bytes)
  /\ printed \in 0..MaxBytes

Init ==
  /\ m_buff = [i \in Slots |-> Junk]
  /\ m_irq_buffused = 0
  /\ pc = "idle" /\ c = Junk /\ newline = FALSE /\ ret = "idle"
  /\ buffused = 0 /\ flushedbytes = 0
  /\ out = <<>> /\ printed = 0

-----------------------------------------------------------------------------
(* _putc and putc_normal *)

Putc ==
  /\ pc = "idle" /\ printed < MaxBytes
  /\ pc' = "load"
  /\ printed' = printed + 1
  /\ c' = [by |-> "main", n |-> printed']
  /\ newline' \in BOOLEAN
  /\ UNCHANGED <<m_buff, m_irq_buffused, ret, buffused, flushedbytes, out>>

Flush(after) ==
  /\ pc' = "cas" /\ ret' = after
  /\ buffused' = 0 /\ flushedbytes' = 0

Load ==
  /\ pc = "load"
  /\ \/ m_irq_buffused >= CorkBuffSize /\ Flush("load")
     \/ /\ m_irq_buffused < CorkBuffSize
        /\ pc' = "reserve" /\ buffused' = m_irq_buffused
        /\ UNCHANGED <<ret, flushedbytes>>
  /\ UNCHANGED <<m_buff, m_irq_buffused, c, newline, out, printed>>

(* Faulty variant: the slot is taken without a look at the interrupts.      *)
ReserveBlindly ==
  /\ pc = "reserve"
  /\ m_irq_buffused' = buffused + 1 /\ pc' = "store"
  /\ UNCHANGED <<m_buff, main, out, printed>>

Reserve ==
  /\ pc = "reserve"
  /\ IF m_irq_buffused = buffused
       THEN m_irq_buffused' = buffused + 1 /\ pc' = "store"
       ELSE pc' = "load" /\ UNCHANGED m_irq_buffused
  /\ UNCHANGED <<m_buff, main, out, printed>>

Store ==
  /\ pc = "store"
  /\ m_buff' = [m_buff EXCEPT ![buffused] = c]
  /\ IF newline THEN Flush("idle")
                ELSE pc' = "idle" /\ UNCHANGED <<ret, buffused, flushedbytes>>
  /\ UNCHANGED <<m_irq_buffused, c, newline, out, printed>>

-----------------------------------------------------------------------------
(* flush *)

(* The buffer is emptied if all of it has left; the first time this only    *)
(* succeeds on an empty buffer.                                             *)
FlushDone ==
  /\ pc = "cas"
  /\ IF m_irq_buffused = buffused
       THEN m_irq_buffused' = 0 /\ pc' = ret
       ELSE pc' = "fetch" /\ UNCHANGED m_irq_buffused
  /\ UNCHANGED <<m_buff, main, out, printed>>

Fetch ==
  /\ pc = "fetch"
  /\ buffused' = m_irq_buffused /\ pc' = "block"
  /\ UNCHANGED <<m_buff, m_irq_buffused, c, newline, ret, flushedbytes, out, printed>>

(* Faulty variant: every block is taken from the start of the buffer.       *)
BlockFromStart(from, n) == [i \in 1..n |-> m_buff[i - 1]]

Block(from, n) == [i \in 1..n |-> m_buff[from + i - 1]]

(* Blocks of CorkBuffSize, sent if a terminal is connected.                 *)
WriteBlock ==
  /\ pc = "block"
  /\ IF buffused = flushedbytes
       THEN pc' = "cas" /\ UNCHANGED <<flushedbytes, out>>
       ELSE LET towrite == Min({buffused - flushedbytes, CorkBuffSize})
            IN  /\ out' \in {out, out \o Block(flushedbytes, towrite)}
                /\ flushedbytes' = flushedbytes + towrite
                /\ UNCHANGED pc
  /\ UNCHANGED <<m_buff, m_irq_buffused, c, newline, ret, buffused, printed>>

-----------------------------------------------------------------------------
(* vprintf_irqsafe in an interrupt prints nchars bytes.  It has the room    *)
(* from m_irq_buffused to the end, one byte of it for the closing NUL; a    *)
(* message that does not fit fills the buffer and ends in the mark.         *)

Fits(nchars) == nchars < FullBuffSize - m_irq_buffused

Marked(i) == i >= FullBuffSize - Mark

IrqPrint(nchars) ==
  LET byte(i) == [by |-> "irq", n |-> printed + 1 + i - m_irq_buffused]
  IN  /\ printed + nchars <= MaxBytes
      /\ printed' = printed + nchars
      /\ IF Fits(nchars)
           THEN /\ m_buff' = [i \in Slots |->
                     IF i \in m_irq_buffused..(m_irq_buffused + nchars - 1)
                       THEN byte(i) ELSE m_buff[i]]
                /\ m_irq_buffused' = m_irq_buffused + nchars
           ELSE /\ m_buff' = [i \in Slots |->
                     IF Marked(i) THEN [by |-> "mark", n |-> i + 1 + Mark - FullBuffSize]
                     ELSE IF i >= m_irq_buffused THEN byte(i) ELSE m_buff[i]]
                /\ m_irq_buffused' = FullBuffSize
      /\ UNCHANGED <<pc, main, out>>

(* The program has nothing to print.  It must not stop anywhere else.       *)
Silent == pc = "idle" /\ UNCHANGED vars

Main == Putc \/ Load \/ Reserve \/ Store \/ FlushDone \/ Fetch \/ WriteBlock \/ Silent

Next == Main \/ \E nchars \in 1..MaxMessage : IrqPrint(nchars)

Spec == Init /\ [][Next]_vars

-----------------------------------------------------------------------------
(* The bytes accepted and not gone yet.  A reserved slot counts as filled.  *)
Left    == IF pc \in {"cas", "fetch", "block"} THEN flushedbytes ELSE 0
Slot(i) == IF pc = "store" /\ i = buffused THEN c ELSE m_buff[i]
Pending == [i \in 1..(m_irq_buffused - Left) |-> Slot(Left + i - 1)]

Pipe == INSTANCE LogPipe WITH pending <- Pending

Message(n) == [i \in 1..n |-> [by |-> "irq", n |-> printed + i]]

PipeNext ==
  \/ Pipe!Put(c)
  \/ \E n \in 1..MaxMessage :
       \/ Pipe!Message(Message(n))
       \/ \E room \in 0..FullBuffSize : Pipe!Truncated(Message(n), room)
  \/ \E k \in 1..CorkBuffSize : Pipe!Leave(k)

(* Main program and interrupts together are one LogPipe: no byte is lost,   *)
(* doubled or overtaken, whenever an interrupt prints; what truncation      *)
(* costs is always an interrupt's.                                          *)
RefinesLogPipe == Pipe!Init /\ [][PipeNext]_(Pipe!vars)

(* What the main program printed reaches the host in the order in which it  *)
(* was printed, and so do the messages of the interrupts: the host never    *)
(* sees old buffer contents again, nor a slot reserved but not yet stored.  *)
OutInOrder ==
  \A i, j \in 1..Len(out) :
    i < j /\ out[i].by = out[j].by /\ out[i].by # "mark" => out[i].n < out[j].n

(* The invariant of the log: its indices and pending steps keep their       *)
(* types, and bytes leave in order (USBSerialBuffered.cpp:86-182).          *)
LogInv == TypeOK /\ OutInOrder
=============================================================================
