----------------------------- MODULE ByteQueue -----------------------------
(***************************************************************************)
(* What the receiving side of a buffered UART promises: bytes are read in  *)
(* the order in which they came, each once.  The reader asks whether there *)
(* is one, and then takes it.  Nothing stops the writer: the byte that     *)
(* comes when Capacity bytes are unread makes the queue look empty.  All   *)
(* of it is lost, and so may be a byte that is just being read; but if the *)
(* reader had its answer before and takes before another byte comes, it    *)
(* takes from the empty queue and all that was lost is back.               *)
(***************************************************************************)
EXTENDS Naturals, Sequences

CONSTANTS
  Bytes,     \* what can come
  NoByte,    \* no byte is being read
  Capacity   \* bytes that can wait

VARIABLES
  queue,     \* bytes nobody has begun to read
  taken,     \* the byte that is being read
  told,      \* the reader knows that there is a byte, and has not taken it
  lost       \* what comes back if it takes one now

vars == <<queue, taken, told, lost>>

Init == queue = <<>> /\ taken = NoByte /\ told = FALSE /\ lost = <<>>

Put(b) ==
  /\ Len(queue) < Capacity
  /\ queue' = Append(queue, b)
  /\ lost' = <<>>
  /\ UNCHANGED <<taken, told>>

Overrun(b) ==
  /\ Len(queue) = Capacity
  /\ queue' = <<>>
  /\ lost' = IF told THEN Append(queue, b) ELSE <<>>
  /\ \/ UNCHANGED taken
     \/ taken # NoByte /\ taken' = b
  /\ UNCHANGED told

Ask ==
  /\ queue # <<>> /\ taken = NoByte /\ ~told
  /\ told' = TRUE
  /\ UNCHANGED <<queue, taken, lost>>

Take ==
  /\ told /\ queue # <<>>
  /\ taken' = Head(queue)
  /\ queue' = Tail(queue)
  /\ told' = FALSE
  /\ UNCHANGED lost

TakeBack ==
  /\ told /\ queue = <<>>
  /\ taken' = Head(lost)
  /\ queue' = Tail(lost)
  /\ told' = FALSE /\ lost' = <<>>

Deliver ==
  /\ taken # NoByte
  /\ taken' = NoByte
  /\ UNCHANGED <<queue, told, lost>>

Next ==
  \/ \E b \in Bytes : Put(b) \/ Overrun(b)
  \/ Ask \/ Take \/ TakeBack \/ Deliver

Spec == Init /\ [][Next]_vars
=============================================================================
