---------------------------- MODULE UsbLogProofs ----------------------------
(***************************************************************************)
(* For buffers, marks and messages of any size: the main program and the   *)
(* interrupts, without a lock, keep the bytes of the USB log in order, and *)
(* are together the queue of LogPipe.                                      *)
(***************************************************************************)
EXTENDS UsbLog, SequenceTheorems, TLAPS

(* Two bytes of one producer, in the order in which they were printed.      *)
Before(x, y) == x.by = y.by /\ x.by # "mark" => x.n < y.n

(* The byte x, if it is no mark, was printed already. *)
Old(x) == x.by # "mark" => x.n <= printed

Flushing == pc \in {"cas", "fetch", "block"}

(* The byte c of _putc is on its way and has no slot yet. *)
Waiting == pc \in {"load", "reserve"} \/ (Flushing /\ ret = "load")

(* The slots in use that have not left. *)
Live == Left..(m_irq_buffused - 1)

(* Where the indices of the main program are at its steps: what it has read *)
(* of m_irq_buffused is never more than that has become since.              *)
StepInv ==
  /\ pc = "reserve" => buffused < CorkBuffSize
  /\ pc = "store" => buffused < CorkBuffSize /\ buffused < m_irq_buffused
  /\ Flushing => flushedbytes <= buffused /\ buffused <= m_irq_buffused
  /\ pc \in {"cas", "fetch"} => flushedbytes = buffused

(* The bytes that wait are in order, later than those that have left, and   *)
(* earlier than the one of _putc; those of the main program are where no    *)
(* mark of a truncated message reaches.                                     *)
OrderInv ==
  /\ \A i \in Live : Old(Slot(i)) /\ (Slot(i).by = "main" => i < CorkBuffSize)
  /\ \A i, j \in Live : i < j => Before(Slot(i), Slot(j))
  /\ \A k \in 1..Len(out) : Old(out[k])
  /\ \A k, l \in 1..Len(out) : k < l => Before(out[k], out[l])
  /\ \A k \in 1..Len(out), i \in Live : Before(out[k], Slot(i))
  /\ Waiting \/ pc = "store" => c.by = "main" /\ c.n <= printed
  /\ Waiting => /\ \A i \in Live : Before(Slot(i), c)
                /\ \A k \in 1..Len(out) : Before(out[k], c)

Inv == TypeOK /\ StepInv /\ OrderInv

(***************************************************************************)
(* Bytes and minima                                                        *)
(***************************************************************************)

LEMMA BytesAre ==
  /\ \A x \in Bytes : /\ x.by \in {"main", "irq", "mark"} /\ x.n \in Nat
                      /\ x.by # "mark" => x.n <= MaxBytes
  /\ \A n \in 1..MaxBytes : /\ [by |-> "main", n |-> n] \in Bytes
                            /\ [by |-> "irq", n |-> n] \in Bytes
  /\ \A n \in 1..Mark : [by |-> "mark", n |-> n] \in Bytes
  /\ Junk \in Bytes
BY SizesAssumption DEF Bytes, Junk

LEMMA MinIs ==
  ASSUME NEW a \in Nat, NEW b \in Nat
  PROVE  Min({a, b}) = IF a <= b THEN a ELSE b
<1> DEFINE m == IF a <= b THEN a ELSE b
<1>1. m \in {a, b} /\ \A y \in {a, b} : m =< y
  OBVIOUS
<1>2. \A x \in {a, b} : (\A y \in {a, b} : x =< y) => x = m
  OBVIOUS
<1> QED
  BY <1>1, <1>2 DEF Min

(***************************************************************************)
(* Types and indices                                                       *)
(***************************************************************************)

LEMMA InitInv == Init => Inv
<1> SUFFICES ASSUME Init PROVE Inv
  OBVIOUS
<1>1. newline \in BOOLEAN
  BY Zenon DEF Init
<1>2. out \in Seq(Bytes) /\ Len(out) = 0
  BY EmptySeq DEF Init
<1>3. TypeOK
  BY <1>1, <1>2, BytesAre, SizesAssumption DEF Init, TypeOK, Slots
<1>4. StepInv
  BY DEF Init, StepInv, Flushing
<1>5. Live = {} /\ ~Waiting /\ pc = "idle"
  BY DEF Init, Live, Left, Waiting, Flushing
<1>6. OrderInv
  BY <1>2, <1>5 DEF OrderInv
<1> QED
  BY <1>3, <1>4, <1>6 DEF Inv

LEMMA NewlineStep == newline \in BOOLEAN /\ [Next]_vars => newline' \in BOOLEAN
BY Zenon DEF Next, Main, Putc, Load, Flush, Reserve, Store, FlushDone, Fetch,
   WriteBlock, IrqPrint, Silent, vars, main

(* The types and the indices, step by step.                                 *)
LEMMA StepTypes ==
  ASSUME Inv, [Next]_vars
  PROVE  TypeOK' /\ StepInv'
<1> USE SizesAssumption DEF Inv, TypeOK, StepInv, Flushing, main, Slots
<1>0. newline' \in BOOLEAN
  BY NewlineStep
<1>1. CASE Putc
  <2>1. printed' \in 1..MaxBytes /\ c' = [by |-> "main", n |-> printed']
    BY <1>1 DEF Putc
  <2>2. c' \in Bytes
    BY <2>1, BytesAre
  <2> QED
    BY <1>0, <1>1, <2>2 DEF Putc
<1>2. CASE Load
  BY <1>0, <1>2 DEF Load, Flush
<1>3. CASE Reserve
  BY <1>0, <1>3 DEF Reserve
<1>4. CASE Store
  BY <1>0, <1>4 DEF Store, Flush
<1>5. CASE FlushDone
  BY <1>0, <1>5 DEF FlushDone
<1>6. CASE Fetch
  BY <1>0, <1>6 DEF Fetch
<1>7. CASE WriteBlock
  <2>1. CASE buffused = flushedbytes
    BY <1>0, <1>7, <2>1 DEF WriteBlock
  <2>2. CASE buffused # flushedbytes
    <3> DEFINE n == Min({buffused - flushedbytes, CorkBuffSize})
               b == Block(flushedbytes, n)
    <3>1. n \in Nat /\ n <= buffused - flushedbytes
      BY <1>7, <2>2, MinIs DEF WriteBlock
    <3>2. \A i \in 1..n : m_buff[flushedbytes + i - 1] \in Bytes
      BY <1>7, <3>1 DEF WriteBlock
    <3>3. b \in [1..n -> Bytes]
      BY <3>2 DEF Block
    <3>4. b \in Seq(Bytes)
      BY <3>1, <3>3
    <3>5. out \o b \in Seq(Bytes)
      BY <3>4, ConcatProperties
    <3>6. /\ out' \in {out, out \o b} /\ flushedbytes' = flushedbytes + n
          /\ pc' = pc /\ pc = "block"
          /\ UNCHANGED <<m_buff, m_irq_buffused, c, newline, ret, buffused, printed>>
      BY <1>7, <2>2 DEF WriteBlock
    <3>7. out' \in Seq(Bytes)
      BY <3>5, <3>6
    <3> HIDE DEF n, b
    <3> QED
      BY <1>0, <3>1, <3>6, <3>7
  <2> QED
    BY <2>1, <2>2
<1>8. ASSUME NEW nchars \in 1..MaxMessage, IrqPrint(nchars) PROVE TypeOK' /\ StepInv'
  <2>1. m_buff' \in [Slots -> Bytes]
    <3>1. CASE Fits(nchars)
      <4>1. \A i \in m_irq_buffused..(m_irq_buffused + nchars - 1) :
              printed + 1 + i - m_irq_buffused \in 1..MaxBytes
        BY <1>8 DEF IrqPrint
      <4>2. m_buff' = [i \in Slots |->
                        IF i \in m_irq_buffused..(m_irq_buffused + nchars - 1)
                          THEN [by |-> "irq", n |-> printed + 1 + i - m_irq_buffused]
                          ELSE m_buff[i]]
        BY <1>8, <3>1 DEF IrqPrint
      <4> QED
        BY <4>1, <4>2, BytesAre
    <3>2. CASE ~Fits(nchars)
      <4>1. \A i \in Slots : i >= m_irq_buffused
              => printed + 1 + i - m_irq_buffused \in 1..MaxBytes
        BY <1>8, <3>2 DEF IrqPrint, Fits
      <4>2. \A i \in Slots : Marked(i) => i + 1 + Mark - FullBuffSize \in 1..Mark
        BY DEF Marked
      <4>3. m_buff' = [i \in Slots |->
                        IF Marked(i) THEN [by |-> "mark", n |-> i + 1 + Mark - FullBuffSize]
                        ELSE IF i >= m_irq_buffused
                          THEN [by |-> "irq", n |-> printed + 1 + i - m_irq_buffused]
                        ELSE m_buff[i]]
        BY <1>8, <3>2 DEF IrqPrint
      <4> QED
        BY <4>1, <4>2, <4>3, BytesAre
    <3> QED
      BY <3>1, <3>2
  <2>2. printed' \in 0..MaxBytes
    BY <1>8 DEF IrqPrint
  <2>3. m_irq_buffused' \in m_irq_buffused..FullBuffSize
    BY <1>8 DEF IrqPrint, Fits
  <2> QED
    BY <1>0, <1>8, <2>1, <2>2, <2>3 DEF IrqPrint
<1>9. CASE Silent \/ UNCHANGED vars
  BY <1>0, <1>9 DEF Silent, vars
<1> QED
  BY <1>1, <1>2, <1>3, <1>4, <1>5, <1>6, <1>7, <1>8, <1>9 DEF Next, Main

(***************************************************************************)
(* The order of the bytes                                                  *)
(***************************************************************************)

(* What is live was stored, or is about to be.                              *)
LEMMA LiveIs ==
  ASSUME Inv
  PROVE  /\ Left \in 0..m_irq_buffused
         /\ \A i \in Live : i \in Slots /\ Slot(i) \in Bytes
         /\ \A k \in 1..Len(out) : out[k] \in Bytes
         /\ Len(out) \in Nat
<1> USE SizesAssumption DEF Inv, TypeOK, StepInv, Flushing
<1>1. Left \in 0..m_irq_buffused
  BY DEF Left
<1>2. \A i \in Live : i \in Slots
  BY <1>1 DEF Live, Slots
<1>3. \A i \in Slots : Slot(i) \in Bytes
  BY DEF Slot
<1>4. Len(out) \in Nat /\ \A k \in 1..Len(out) : out[k] \in Bytes
  BY LenProperties, ElementOfSeq
<1> QED
  BY <1>1, <1>2, <1>3, <1>4

(* A step after which no more bytes wait than before, in the same slots.    *)
LEMMA OrderKept ==
  ASSUME Inv, UNCHANGED <<out, c, printed>>,
         \A i \in Live' : i \in Live /\ Slot(i)' = Slot(i),
         Waiting' => Waiting,
         pc' = "store" => Waiting \/ pc = "store"
  PROVE  OrderInv'
BY LiveIs DEF Inv, OrderInv, Before, Old

LEMMA PutcOrder ==
  ASSUME Inv, Putc
  PROVE  OrderInv'
<1>1. /\ Live' = Live /\ \A i : Slot(i)' = Slot(i)
      /\ UNCHANGED out /\ pc' = "load"
  BY DEF Putc, Live, Left, Slot
<1>2. /\ printed \in Nat /\ printed' = printed + 1
      /\ c'.by = "main" /\ c'.n = printed'
  BY SizesAssumption DEF Inv, TypeOK, Putc
<1>3. /\ \A i \in Live : Slot(i).n \in Nat /\ (Slot(i).by # "mark" => Slot(i).n <= printed)
      /\ \A k \in 1..Len(out) : out[k].n \in Nat /\ (out[k].by # "mark" => out[k].n <= printed)
  BY LiveIs, BytesAre DEF Inv, OrderInv, Old
<1> QED
  BY <1>1, <1>2, <1>3 DEF Inv, OrderInv, Before, Old

(* A slot is reserved: no interrupt has come since it was read, so that the *)
(* byte goes behind all others.                                             *)
LEMMA ReserveOrder ==
  ASSUME Inv, Reserve, m_irq_buffused = buffused
  PROVE  OrderInv'
<1>1. /\ Live = 0..(buffused - 1) /\ Live' = Live \cup {buffused} /\ buffused \in Nat
      /\ buffused < CorkBuffSize /\ buffused \notin Live
      /\ Waiting /\ ~Waiting' /\ pc' = "store"
  BY SizesAssumption DEF Inv, TypeOK, StepInv, Reserve, Live, Left, Waiting, Flushing
<1>2. /\ \A i : Slot(i)' = IF i = buffused THEN c ELSE Slot(i)
      /\ UNCHANGED <<c, out, printed>>
  BY <1>1 DEF Reserve, Slot, main
<1>3. /\ \A i \in Live : Old(Slot(i)) /\ (Slot(i).by = "main" => i < CorkBuffSize)
      /\ \A i, j \in Live : i < j => Before(Slot(i), Slot(j))
      /\ \A k \in 1..Len(out) : Old(out[k])
      /\ \A k, l \in 1..Len(out) : k < l => Before(out[k], out[l])
      /\ \A k \in 1..Len(out), i \in Live : Before(out[k], Slot(i))
      /\ c.by = "main" /\ c.n <= printed
      /\ \A i \in Live : Before(Slot(i), c)
      /\ \A k \in 1..Len(out) : Before(out[k], c)
  BY <1>1 DEF Inv, OrderInv
<1>4. \A i \in Live' : Old(Slot(i)') /\ (Slot(i)'.by = "main" => i < CorkBuffSize)
  BY <1>1, <1>2, <1>3 DEF Old
<1>5. \A i, j \in Live' : i < j => Before(Slot(i)', Slot(j)')
  BY <1>1, <1>2, <1>3
<1>6. \A k \in 1..Len(out), i \in Live' : Before(out[k], Slot(i)')
  BY <1>1, <1>2, <1>3
<1> QED
  BY <1>1, <1>2, <1>3, <1>4, <1>5, <1>6 DEF OrderInv, Before, Old

(* A block leaves from the front of what waits, printed or refused.          *)
LEMMA WriteOrder ==
  ASSUME Inv, WriteBlock, buffused # flushedbytes
  PROVE  OrderInv'
<1> DEFINE n == Min({buffused - flushedbytes, CorkBuffSize})
           b == Block(flushedbytes, n)
<1>1. /\ flushedbytes \in Nat /\ buffused \in Nat /\ m_irq_buffused \in 0..FullBuffSize
      /\ flushedbytes <= buffused /\ buffused <= m_irq_buffused /\ FullBuffSize \in Nat
      /\ pc = "block"
  BY SizesAssumption DEF Inv, TypeOK, StepInv, Flushing, WriteBlock
<1>2. n \in Nat /\ n >= 1 /\ flushedbytes + n <= buffused
  BY <1>1, MinIs, SizesAssumption
<1>3. /\ out' \in {out, out \o b} /\ flushedbytes' = flushedbytes + n /\ pc' = pc
      /\ UNCHANGED <<m_buff, m_irq_buffused, c, newline, ret, buffused, printed>>
  BY <1>1 DEF WriteBlock
<1> HIDE DEF n
<1>4. /\ Live = flushedbytes..(m_irq_buffused - 1)
      /\ Live' = (flushedbytes + n)..(m_irq_buffused - 1)
      /\ \A i : Slot(i)' = Slot(i) /\ Slot(i) = m_buff[i]
      /\ Waiting' <=> Waiting
  BY <1>1, <1>3 DEF Live, Left, Slot, Waiting, Flushing
<1>5. CASE out' = out
  <2>1. \A i \in Live' : i \in Live
    BY <1>1, <1>2, <1>4
  <2> QED
    BY <1>1, <1>3, <1>4, <1>5, <2>1, OrderKept
<1>6. CASE out' = out \o b
  <2>1. \A i \in 1..n : flushedbytes + i - 1 \in Live
    BY <1>1, <1>2, <1>4
  <2>2. \A i \in 1..n : m_buff[flushedbytes + i - 1] \in Bytes
    BY <2>1, <1>4, LiveIs
  <2>3. b \in [1..n -> Bytes] /\ \A i \in 1..n : b[i] = Slot(flushedbytes + i - 1)
    BY <2>2, <1>4 DEF Block
  <2>4. b \in Seq(Bytes) /\ Len(b) = n
    BY <1>2, <2>3
  <2> HIDE DEF b
  <2>5. out \in Seq(Bytes) /\ Len(out) \in Nat
    BY LiveIs DEF Inv, TypeOK
  <2>6. /\ Len(out') = Len(out) + n
        /\ \A i \in 1..Len(out) + n : out'[i] = IF i <= Len(out) THEN out[i] ELSE b[i - Len(out)]
    BY <1>6, <2>4, <2>5, ConcatProperties
  <2>7. ASSUME NEW k \in 1..Len(out')
        PROVE  \/ k \in 1..Len(out) /\ out'[k] = out[k]
               \/ \E i \in Live : /\ i < flushedbytes + n /\ k > Len(out)
                                 /\ k = i - flushedbytes + 1 + Len(out) /\ out'[k] = Slot(i)
    <3>1. CASE k <= Len(out)
      BY <3>1, <2>5, <2>6
    <3>2. CASE k > Len(out)
      <4>1. k - Len(out) \in 1..n
        BY <3>2, <1>2, <2>5, <2>6
      <4>2. out'[k] = Slot(flushedbytes + (k - Len(out)) - 1)
        BY <3>2, <4>1, <2>3, <2>5, <2>6
      <4>3. flushedbytes + (k - Len(out)) - 1 \in Live
        BY <4>1, <2>1
      <4>4. \E i \in Live : i = flushedbytes + (k - Len(out)) - 1
        BY <4>3
      <4> QED
        BY <3>2, <4>1, <4>2, <4>4, <1>1, <1>2, <2>5
    <3> QED
      BY <3>1, <3>2, <2>5, <2>6
  <2>8. \A i \in Live' : i \in Live /\ i \in Nat /\ i >= flushedbytes + n /\ Slot(i)' = Slot(i)
    BY <1>1, <1>2, <1>4
  <2>9. /\ \A i \in Live : i \in Nat /\ Old(Slot(i)) /\ (Slot(i).by = "main" => i < CorkBuffSize)
        /\ \A i, j \in Live : i < j => Before(Slot(i), Slot(j))
        /\ \A k \in 1..Len(out) : Old(out[k])
        /\ \A k, l \in 1..Len(out) : k < l => Before(out[k], out[l])
        /\ \A k \in 1..Len(out), i \in Live : Before(out[k], Slot(i))
        /\ Waiting => /\ \A i \in Live : Before(Slot(i), c)
                      /\ \A k \in 1..Len(out) : Before(out[k], c)
    BY LiveIs DEF Inv, OrderInv, Slots
  <2>10. \A x : Old(x)' <=> Old(x)
    BY <1>3 DEF Old
  <2>11. \A k \in 1..Len(out') : Old(out'[k])
    BY <2>7, <2>9
  <2>12. ASSUME NEW k \in 1..Len(out'), NEW l \in 1..Len(out'), k < l
         PROVE  Before(out'[k], out'[l])
    BY <2>5, <2>7, <2>9, <2>12, <1>1, <1>2
  <2>13. \A k \in 1..Len(out'), i \in Live' : Before(out'[k], Slot(i))
    BY <2>7, <2>8, <2>9, <1>1, <1>2
  <2>14. Waiting => \A k \in 1..Len(out') : Before(out'[k], c)
    BY <2>7, <2>9
  <2>15. Waiting => c.by = "main" /\ c.n <= printed
    BY DEF Inv, OrderInv
  <2> QED
    BY <1>1, <1>3, <1>4, <2>8, <2>9, <2>10, <2>11, <2>12, <2>13, <2>14, <2>15 DEF OrderInv, Before, Old
<1> QED
  BY <1>3, <1>5, <1>6

(* What waits after a message: what waited, the message behind it, and over *)
(* the end of both the mark, if the message did not fit.                    *)
LEMMA IrqPrintIs ==
  ASSUME Inv, NEW nchars \in 1..MaxMessage, IrqPrint(nchars)
  PROVE  /\ UNCHANGED <<pc, c, ret, buffused, out>> /\ Left' = Left
         /\ printed' = printed + nchars
         /\ m_irq_buffused' =
              IF Fits(nchars) THEN m_irq_buffused + nchars ELSE FullBuffSize
         /\ m_irq_buffused' \in m_irq_buffused..FullBuffSize
         /\ ~Fits(nchars) => FullBuffSize <= m_irq_buffused + nchars
         /\ \A i \in Live' : /\ i \in Slots /\ i >= Left
              /\ Slot(i)' = IF ~Fits(nchars) /\ Marked(i)
                              THEN [by |-> "mark", n |-> i + 1 + Mark - FullBuffSize]
                            ELSE IF i < m_irq_buffused THEN Slot(i)
                            ELSE [by |-> "irq", n |-> printed + 1 + i - m_irq_buffused]
<1> USE SizesAssumption DEF Inv, TypeOK, StepInv, Flushing
<1>1. UNCHANGED <<pc, c, ret, buffused, flushedbytes, out>> /\ Left' = Left
  BY DEF IrqPrint, main, Left
<1>2. /\ m_irq_buffused' = IF Fits(nchars) THEN m_irq_buffused + nchars ELSE FullBuffSize
      /\ m_irq_buffused' \in m_irq_buffused..FullBuffSize
      /\ ~Fits(nchars) => FullBuffSize <= m_irq_buffused + nchars
      /\ printed' = printed + nchars
  BY DEF IrqPrint, Fits
<1>3. Left \in 0..m_irq_buffused
  BY LiveIs
<1>4. \A i \in Live' : i \in Slots /\ i >= Left /\ i < m_irq_buffused'
  BY <1>1, <1>2, <1>3 DEF Live, Slots
<1>5. \A i \in Slots : i < m_irq_buffused' =>
        m_buff'[i] = IF ~Fits(nchars) /\ Marked(i)
                       THEN [by |-> "mark", n |-> i + 1 + Mark - FullBuffSize]
                     ELSE IF i < m_irq_buffused THEN m_buff[i]
                     ELSE [by |-> "irq", n |-> printed + 1 + i - m_irq_buffused]
  <2>1. CASE Fits(nchars)
    BY <2>1, <1>2 DEF IrqPrint, Slots
  <2>2. CASE ~Fits(nchars)
    BY <2>2, <1>2 DEF IrqPrint, Slots
  <2> QED
    BY <2>1, <2>2
<1>6. pc = "store" => buffused < m_irq_buffused /\ ~Marked(buffused)
  BY DEF Marked
<1>7. \A i \in Live' :
        Slot(i)' = IF ~Fits(nchars) /\ Marked(i)
                     THEN [by |-> "mark", n |-> i + 1 + Mark - FullBuffSize]
                   ELSE IF i < m_irq_buffused THEN Slot(i)
                   ELSE [by |-> "irq", n |-> printed + 1 + i - m_irq_buffused]
  BY <1>1, <1>4, <1>5, <1>6 DEF Slot
<1> QED
  BY <1>1, <1>2, <1>4, <1>7

(* An interrupt prints a message, cut and marked if it does not fit.        *)
LEMMA IrqPrintOrder ==
  ASSUME Inv, NEW nchars \in 1..MaxMessage, IrqPrint(nchars)
  PROVE  OrderInv'
<1> DEFINE S(i) == IF ~Fits(nchars) /\ Marked(i)
                     THEN [by |-> "mark", n |-> i + 1 + Mark - FullBuffSize]
                   ELSE IF i < m_irq_buffused THEN Slot(i)
                   ELSE [by |-> "irq", n |-> printed + 1 + i - m_irq_buffused]
<1>1. /\ UNCHANGED <<pc, c, ret, buffused, out>> /\ Left' = Left
      /\ printed' = printed + nchars
      /\ \A i \in Live' : i \in Slots /\ i >= Left /\ Slot(i)' = S(i)
  BY IrqPrintIs
<1>2. /\ printed \in Nat /\ printed' \in Nat /\ printed <= printed'
      /\ m_irq_buffused \in Nat /\ Left \in Nat
  BY <1>1, LiveIs, SizesAssumption DEF Inv, TypeOK
<1>3. \A i \in Live' : i >= m_irq_buffused => printed + 1 + i - m_irq_buffused <= printed'
  BY IrqPrintIs, <1>2, SizesAssumption DEF Live, Slots
<1>4. \A i \in Live' : \/ S(i).by = "mark"
                       \/ i < m_irq_buffused /\ S(i) = Slot(i) /\ i \in Live
                       \/ /\ S(i).by = "irq" /\ i >= m_irq_buffused
                          /\ S(i).n = printed + 1 + i - m_irq_buffused
  BY <1>1, <1>2, SizesAssumption DEF Live, Slots
<1> HIDE DEF S
<1>5. /\ \A i \in Live : /\ Slot(i).by \in {"main", "irq", "mark"} /\ Slot(i).n \in Nat
                         /\ Slot(i).by # "mark" => Slot(i).n <= printed
                         /\ Slot(i).by = "main" => i < CorkBuffSize
      /\ \A i, j \in Live : i < j => Before(Slot(i), Slot(j))
      /\ \A k \in 1..Len(out) : out[k].n \in Nat
      /\ \A k \in 1..Len(out) : out[k].by # "mark" => out[k].n <= printed
      /\ \A k, l \in 1..Len(out) : k < l => Before(out[k], out[l])
      /\ \A k \in 1..Len(out), i \in Live : Before(out[k], Slot(i))
      /\ Waiting \/ pc = "store" => c.by = "main" /\ c.n \in Nat /\ c.n <= printed
      /\ Waiting => /\ \A i \in Live : Before(Slot(i), c)
                    /\ \A k \in 1..Len(out) : Before(out[k], c)
  BY LiveIs, BytesAre DEF Inv, TypeOK, OrderInv, Old
<1>6. \A i \in Live' : /\ S(i).by # "mark" => S(i).n <= printed'
                       /\ S(i).by = "main" => i < CorkBuffSize
  BY <1>2, <1>3, <1>4, <1>5
<1>7. ASSUME NEW i \in Live', NEW j \in Live', i < j PROVE Before(S(i), S(j))
  <2>1. i \in Nat /\ j \in Nat
    BY <1>1 DEF Slots
  <2>2. CASE S(i).by = "mark" \/ S(i).by # S(j).by
    BY <2>2 DEF Before
  <2>3. CASE j < m_irq_buffused /\ S(i) = Slot(i) /\ S(j) = Slot(j) /\ i \in Live /\ j \in Live
    BY <1>5, <1>7, <2>3
  <2>4. CASE /\ S(j).by = "irq" /\ j >= m_irq_buffused
             /\ S(j).n = printed + 1 + j - m_irq_buffused
    BY <1>2, <1>4, <1>5, <1>7, <2>1, <2>4 DEF Before
  <2> QED
    BY <1>2, <1>4, <1>7, <2>1, <2>2, <2>3, <2>4
<1>8. ASSUME NEW k \in 1..Len(out), NEW i \in Live' PROVE Before(out[k], S(i))
  <2>1. out[k].n \in Nat /\ (out[k].by # "mark" => out[k].n <= printed) /\ i \in Nat
    BY <1>1, <1>5 DEF Slots
  <2>2. CASE S(i) = Slot(i) /\ i \in Live
    BY <1>5, <2>2
  <2>3. CASE S(i).by = "mark"
    BY <2>3 DEF Before
  <2>4. CASE i >= m_irq_buffused /\ S(i).n = printed + 1 + i - m_irq_buffused
    BY <1>2, <2>1, <2>4 DEF Before
  <2> QED
    BY <1>4, <2>2, <2>3, <2>4
<1>9. Waiting => \A i \in Live' : Before(S(i), c)
  BY <1>4, <1>5 DEF Before
<1>10. ASSUME NEW k \in 1..Len(out), out[k].by # "mark" PROVE out[k].n <= printed'
  <2>1. out[k].n \in Nat /\ out[k].n <= printed
    BY <1>5, <1>10
  <2> QED
    BY <1>2, <2>1
<1>11. Waiting' <=> Waiting
  BY <1>1 DEF Waiting, Flushing
<1>12. Waiting \/ pc = "store" => c.by = "main" /\ c.n <= printed'
  BY <1>2, <1>5
<1>13. \A i \in Live' : /\ Old(Slot(i))' /\ (Slot(i)'.by = "main" => i < CorkBuffSize)
                        /\ \A k \in 1..Len(out) : Before(out[k], Slot(i)')
                        /\ Waiting => Before(Slot(i)', c)
                        /\ \A j \in Live' : i < j => Before(Slot(i)', Slot(j)')
  BY <1>1, <1>6, <1>7, <1>8, <1>9 DEF Old
<1> QED
  BY <1>1, <1>5, <1>10, <1>11, <1>12, <1>13 DEF OrderInv, Before, Old

LEMMA StepOrder ==
  ASSUME Inv, [Next]_vars
  PROVE  OrderInv'
<1> USE DEF Live, Left, Slot, Waiting, Flushing, main
<1>1. CASE Putc
  BY <1>1, PutcOrder
<1>2. CASE Load
  BY <1>2, OrderKept DEF Load, Flush
<1>3. CASE Reserve
  <2>1. CASE m_irq_buffused = buffused
    BY <1>3, <2>1, ReserveOrder
  <2>2. CASE m_irq_buffused # buffused
    BY <1>3, <2>2, OrderKept DEF Reserve
  <2> QED
    BY <2>1, <2>2
<1>4. CASE Store
  <2>1. \A i \in Live : i \in Slots
    BY LiveIs
  <2>2. Live' = Live /\ \A i \in Live : Slot(i)' = Slot(i)
    BY <1>4, <2>1 DEF Store, Flush, Inv, TypeOK
  <2> QED
    BY <1>4, <2>2, OrderKept DEF Store, Flush
<1>5. CASE FlushDone
  <2>1. CASE m_irq_buffused = buffused
    <3>1. Live' = {} /\ pc' = ret /\ ret \in {"idle", "load"} /\ pc = "cas"
      BY <1>5, <2>1 DEF FlushDone, Inv, TypeOK
    <3> QED
      BY <1>5, <3>1, OrderKept DEF FlushDone
  <2>2. CASE m_irq_buffused # buffused
    BY <1>5, <2>2, OrderKept DEF FlushDone
  <2> QED
    BY <2>1, <2>2
<1>6. CASE Fetch
  BY <1>6, OrderKept DEF Fetch
<1>7. CASE WriteBlock
  <2>1. CASE buffused = flushedbytes
    BY <1>7, <2>1, OrderKept DEF WriteBlock
  <2> QED
    BY <1>7, <2>1, WriteOrder
<1>8. ASSUME NEW nchars \in 1..MaxMessage, IrqPrint(nchars) PROVE OrderInv'
  BY <1>8, IrqPrintOrder
<1>9. CASE Silent \/ UNCHANGED vars
  BY <1>9, OrderKept DEF Silent, vars
<1> QED
  BY <1>1, <1>2, <1>3, <1>4, <1>5, <1>6, <1>7, <1>8, <1>9 DEF Next, Main

(* The main program and the interrupts keep Inv at each of their steps.     *)
THEOREM Invariance == Spec => []Inv
<1>1. Inv /\ [Next]_vars => Inv'
  BY StepTypes, StepOrder DEF Inv
<1> QED
  BY <1>1, InitInv, PTL DEF Spec

(* However the interrupts come between the steps of _putc and flush, the    *)
(* indices stay in the buffer, and what the main program printed reaches    *)
(* the host in order, and so does what the interrupts printed.              *)
THEOREM BytesInOrder == Spec => []LogInv
<1>1. Inv => LogInv
  BY DEF Inv, OrderInv, Before, LogInv, OutInOrder
<1> QED
  BY <1>1, Invariance, PTL

(***************************************************************************)
(* The log is a LogPipe                                                    *)
(***************************************************************************)

LEMMA SeqIs ==
  ASSUME NEW S, NEW n \in Nat, NEW f \in [1..n -> S]
  PROVE  f \in Seq(S) /\ Len(f) = n
OBVIOUS

(* The bytes that wait, as LogPipe sees them, one by one.                   *)
LEMMA PendingIs ==
  ASSUME Inv
  PROVE  /\ m_irq_buffused - Left \in Nat
         /\ Pending \in Seq(Bytes) /\ Len(Pending) = m_irq_buffused - Left
         /\ \A i \in 1..(m_irq_buffused - Left) :
              Left + i - 1 \in Live /\ Pending[i] = Slot(Left + i - 1)
<1>1. m_irq_buffused \in Nat /\ Left \in 0..m_irq_buffused
  BY LiveIs, SizesAssumption DEF Inv, TypeOK
<1>2. m_irq_buffused - Left \in Nat
  BY <1>1
<1>3. \A i \in 1..(m_irq_buffused - Left) : Left + i - 1 \in Live
  BY <1>1 DEF Live
<1>4. \A i \in 1..(m_irq_buffused - Left) : Slot(Left + i - 1) \in Bytes
  BY <1>3, LiveIs
<1>5. Pending \in [1..(m_irq_buffused - Left) -> Bytes]
  BY <1>4, Zenon DEF Pending
<1>6. \A i \in 1..(m_irq_buffused - Left) : Pending[i] = Slot(Left + i - 1)
  BY Zenon DEF Pending
<1> QED
  BY <1>2, <1>3, <1>5, <1>6, SeqIs

(* The slots in use after a step, if they hold s from the first that has    *)
(* not left.                                                                *)
LEMMA NextPending ==
  ASSUME Inv', NEW s \in Seq(Bytes),
         Len(s) = m_irq_buffused' - Left',
         \A i \in 1..Len(s) : s[i] = Slot(Left + i - 1)'
  PROVE  Pending' = s
<1>1. Len(s) \in Nat
  BY LenProperties
<1>2. Pending' = [i \in 1..Len(s) |-> Slot(Left + i - 1)']
  BY DEF Pending
<1>3. Pending' = [i \in 1..Len(s) |-> s[i]]
  BY <1>2
<1>4. s = [i \in 1..Len(s) |-> s[i]]
  BY LenProperties
<1> QED
  BY <1>3, <1>4

(* A step that moves no byte is none of the pipe.                           *)
LEMMA Stutter ==
  ASSUME Inv, Inv', UNCHANGED out, Left' = Left, m_irq_buffused' = m_irq_buffused,
         \A i \in Live : Slot(i)' = Slot(i)
  PROVE  UNCHANGED Pipe!vars
<1>1. /\ Pending \in Seq(Bytes) /\ Len(Pending) = m_irq_buffused - Left
      /\ \A i \in 1..(m_irq_buffused - Left) :
              Left + i - 1 \in Live /\ Pending[i] = Slot(Left + i - 1)
  BY PendingIs
<1>2. Pending' = Pending
  <2> QED
    BY <1>1, NextPending
<1> QED
  BY <1>2 DEF Pipe!vars

(* Reserving puts the byte into the queue.                                  *)
LEMMA ReservePuts ==
  ASSUME Inv, Inv', Reserve, m_irq_buffused = buffused
  PROVE  Pipe!Put(c)
<1> DEFINE s == Append(Pending, c)
<1>1. /\ Left = 0 /\ Left' = 0 /\ m_irq_buffused' = m_irq_buffused + 1
      /\ m_irq_buffused \in Nat /\ pc = "reserve"
      /\ c \in Bytes /\ c.by = "main" /\ UNCHANGED <<c, out>>
  BY SizesAssumption DEF Inv, TypeOK, OrderInv, Waiting, Reserve, Left, main
<1>2. \A i : Slot(i)' = IF i = m_irq_buffused THEN c ELSE Slot(i)
  BY <1>1 DEF Reserve, Slot, main
<1>3. /\ Pending \in Seq(Bytes) /\ Len(Pending) = m_irq_buffused
      /\ \A i \in 1..m_irq_buffused : Pending[i] = Slot(i - 1)
  BY <1>1, PendingIs
<1>4. /\ s \in Seq(Bytes) /\ Len(s) = m_irq_buffused + 1
      /\ \A i \in 1..m_irq_buffused : s[i] = Pending[i]
      /\ s[m_irq_buffused + 1] = c
  BY <1>1, <1>3, AppendProperties
<1> HIDE DEF s
<1>5. \A i \in 1..Len(s) : s[i] = Slot(Left + i - 1)'
  BY <1>1, <1>2, <1>3, <1>4
<1>6. Pending' = s
  BY <1>1, <1>4, <1>5, NextPending
<1> QED
  BY <1>1, <1>6 DEF Pipe!Put, s

(* Writing a block takes it out of the queue.                               *)
LEMMA WriteLeaves ==
  ASSUME Inv, Inv', WriteBlock, buffused # flushedbytes
  PROVE  \E k \in 1..CorkBuffSize : Pipe!Leave(k)
<1> DEFINE n == Min({buffused - flushedbytes, CorkBuffSize})
           b == Block(flushedbytes, n)
           s == SubSeq(Pending, n + 1, Len(Pending))
<1>1. /\ flushedbytes \in Nat /\ buffused \in Nat /\ m_irq_buffused \in Nat
      /\ flushedbytes <= buffused /\ buffused <= m_irq_buffused /\ pc = "block"
  BY SizesAssumption DEF Inv, TypeOK, StepInv, Flushing, WriteBlock
<1>2. n \in 1..CorkBuffSize /\ flushedbytes + n <= buffused
  BY <1>1, MinIs, SizesAssumption
<1>3. /\ out' \in {out, out \o b} /\ flushedbytes' = flushedbytes + n /\ pc' = pc
      /\ UNCHANGED <<m_buff, m_irq_buffused, c, newline, ret, buffused, printed>>
  BY <1>1 DEF WriteBlock
<1>4. /\ Left = flushedbytes /\ Left' = flushedbytes + n
      /\ \A i : Slot(i)' = Slot(i) /\ Slot(i) = m_buff[i]
  BY <1>1, <1>3 DEF Left, Slot
<1> HIDE DEF n
<1>5. /\ Pending \in Seq(Bytes) /\ Len(Pending) = m_irq_buffused - flushedbytes
      /\ \A i \in 1..Len(Pending) : Pending[i] = m_buff[flushedbytes + i - 1]
  BY <1>4, PendingIs
<1>6. n \in 1..Len(Pending) /\ Len(Pending) \in Nat
  BY <1>1, <1>2, <1>5, SizesAssumption
<1>7. Pending' = s
  <2>1. /\ s \in Seq(Bytes) /\ Len(s) = Len(Pending) - n
        /\ \A i \in 1..Len(Pending) - n : s[i] = Pending[n + i]
    <3>1. \A i \in n + 1 .. Len(Pending) : Pending[i] \in Bytes
      BY <1>5, <1>6, ElementOfSeq
    <3> QED
      BY <1>6, <3>1, SubSeqProperties
  <2> HIDE DEF s
  <2>2. ASSUME NEW i \in 1..Len(s) PROVE s[i] = Slot(Left + i - 1)'
    <3>0. i \in 1..Len(Pending) - n
      BY <2>1, <2>2
    <3>1. n + i \in 1..Len(Pending) /\ s[i] = Pending[n + i]
      BY <1>6, <2>1, <3>0
    <3>2. s[i] = m_buff[flushedbytes + (n + i) - 1]
      BY <1>5, <3>1
    <3>3. flushedbytes + (n + i) - 1 = Left' + i - 1
      BY <1>1, <1>4, <1>6, <2>1, <2>2
    <3> QED
      BY <1>1, <1>3, <3>2, <3>3 DEF Slot
  <2>3. Len(s) = m_irq_buffused' - Left'
    BY <1>1, <1>3, <1>4, <1>5, <1>6, <2>1
  <2>4. Pending' = s
    BY <2>1, <2>2, <2>3, NextPending
  <2> QED
    BY <2>4 DEF s
<1>8. b = SubSeq(Pending, 1, n)
  <2> DEFINE t == SubSeq(Pending, 1, n)
  <2>1. \A i \in 1..n : Pending[i] \in Bytes
    BY <1>5, <1>6, ElementOfSeq
  <2>2. t \in Seq(Bytes) /\ Len(t) = n /\ \A i \in 1..n : t[i] = Pending[i]
    BY <1>6, <2>1, SubSeqProperties
  <2>3. b = [i \in 1..n |-> Pending[i]]
    BY <1>5, <1>6 DEF Block
  <2> HIDE DEF t, b
  <2>4. t = [i \in 1..n |-> Pending[i]]
    BY <2>2, LenProperties
  <2> QED
    BY <2>3, <2>4 DEF t
<1>9. Pipe!Leave(n)
  BY <1>3, <1>6, <1>7, <1>8 DEF Pipe!Leave
<1> QED
  BY <1>2, <1>9

(* A message of an interrupt is appended, as far as it fits.                *)
LEMMA IrqPrintAppends ==
  ASSUME Inv, Inv', NEW nchars \in 1..MaxMessage, IrqPrint(nchars)
  PROVE  \/ Pipe!Message(Message(nchars))
         \/ \E room \in 0..FullBuffSize : Pipe!Truncated(Message(nchars), room)
<1> DEFINE m == Message(nchars)
           all == Pending \o m
           h == m_irq_buffused - Left
           S(i) == IF ~Fits(nchars) /\ Marked(i)
                     THEN [by |-> "mark", n |-> i + 1 + Mark - FullBuffSize]
                   ELSE IF i < m_irq_buffused THEN Slot(i)
                   ELSE [by |-> "irq", n |-> printed + 1 + i - m_irq_buffused]
<1>1. /\ UNCHANGED <<pc, out>> /\ Left' = Left
      /\ m_irq_buffused' = IF Fits(nchars) THEN m_irq_buffused + nchars ELSE FullBuffSize
      /\ m_irq_buffused' \in m_irq_buffused..FullBuffSize
      /\ ~Fits(nchars) => FullBuffSize <= m_irq_buffused + nchars
      /\ \A i \in Live' : i \in Slots /\ Slot(i)' = S(i)
  BY IrqPrintIs
<1>2. /\ m_irq_buffused \in Nat /\ Left \in 0..m_irq_buffused /\ printed \in Nat /\ nchars \in Nat
      /\ printed + nchars <= MaxBytes /\ m_irq_buffused' \in Nat
  BY <1>1, LiveIs, SizesAssumption DEF Inv, TypeOK, IrqPrint
<1>3. /\ Pending \in Seq(Bytes) /\ Len(Pending) = h /\ h \in Nat
      /\ \A i \in 1..h : Left + i - 1 \in Live /\ Pending[i] = Slot(Left + i - 1)
  BY PendingIs
<1>4. /\ m \in Seq(Bytes) /\ Len(m) = nchars
      /\ \A i \in 1..nchars : m[i] = [by |-> "irq", n |-> printed + i]
  <2>1. \A i \in 1..nchars : printed + i \in 1..MaxBytes
    BY <1>2, SizesAssumption
  <2>2. m \in [1..nchars -> Bytes]
    BY <2>1, BytesAre DEF Message
  <2> QED
    BY <1>2, <2>2, SeqIs DEF Message
<1> HIDE DEF m
<1>5. /\ all \in Seq(Bytes) /\ Len(all) = h + nchars
      /\ \A i \in 1..h + nchars : all[i] = IF i <= h THEN Pending[i] ELSE m[i - h]
  <2>1. /\ all \in Seq(Bytes) /\ Len(all) = Len(Pending) + Len(m)
        /\ \A i \in 1..Len(Pending) + Len(m) :
             all[i] = IF i <= Len(Pending) THEN Pending[i] ELSE m[i - Len(Pending)]
    BY <1>3, <1>4, ConcatProperties
  <2> HIDE DEF all
  <2> QED
    BY <2>1, <1>3, <1>4
<1> HIDE DEF all
<1>6. \A i \in 1..(m_irq_buffused' - Left) :
         Slot(Left + i - 1)' = IF ~Fits(nchars) /\ i + Mark > FullBuffSize - Left
                                 THEN [by |-> "mark", n |-> i + Mark - (FullBuffSize - Left)]
                               ELSE all[i]
  <2> SUFFICES ASSUME NEW i \in 1..(m_irq_buffused' - Left)
               PROVE  Slot(Left + i - 1)' = IF ~Fits(nchars) /\ i + Mark > FullBuffSize - Left
                                 THEN [by |-> "mark", n |-> i + Mark - (FullBuffSize - Left)]
                               ELSE all[i]
    OBVIOUS
  <2>1. Left + i - 1 \in Live'
    BY <1>1, <1>2 DEF Live
  <2>2. Slot(Left + i - 1)' = S(Left + i - 1)
    BY <1>1, <2>1
  <2>3. i \in 1..h + nchars
    BY <1>1, <1>2, SizesAssumption
  <2>4. Marked(Left + i - 1) <=> i + Mark > FullBuffSize - Left
    BY <1>2, SizesAssumption DEF Marked
  <2>5. Left + i - 1 + 1 + Mark - FullBuffSize = i + Mark - (FullBuffSize - Left)
    BY <1>2, SizesAssumption
  <2>6. CASE i <= h
    <3>1. all[i] = Slot(Left + i - 1) /\ Left + i - 1 < m_irq_buffused
      BY <1>2, <1>3, <1>5, <2>3, <2>6
    <3> QED
      BY <2>2, <2>4, <2>5, <3>1
  <2>7. CASE i > h
    <3>1. all[i] = m[i - h] /\ i - h \in 1..nchars
      BY <1>2, <1>3, <1>5, <2>3, <2>7
    <3>2. all[i] = [by |-> "irq", n |-> printed + (i - h)]
      BY <1>4, <3>1
    <3>3. Left + i - 1 >= m_irq_buffused
      BY <1>2, <2>7
    <3>4. printed + 1 + (Left + i - 1) - m_irq_buffused = printed + (i - h)
      BY <1>2
    <3>5. Left + i - 1 \in Int
      BY <1>2
    <3> QED
      BY <1>2, <2>2, <2>4, <2>5, <3>2, <3>3, <3>4, <3>5
  <2> QED
    BY <1>3, <2>6, <2>7
<1>7. CASE Fits(nchars)
  <2>1. Len(all) = m_irq_buffused' - Left'
    BY <1>1, <1>2, <1>5, <1>7
  <2>2. \A i \in 1..Len(all) : all[i] = Slot(Left + i - 1)'
    BY <1>1, <1>6, <1>7, <2>1
  <2>3. Pending' = all
    BY <1>1, <1>5, <2>1, <2>2, NextPending
  <2> QED
    BY <1>1, <2>3 DEF Pipe!Message, all, m
<1>8. CASE ~Fits(nchars)
  <2> DEFINE room == FullBuffSize - Left
             s == [i \in 1..room |->
                    IF i + Mark > room THEN [by |-> "mark", n |-> i + Mark - room] ELSE all[i]]
  <2>1. /\ room \in 0..FullBuffSize /\ room \in h..(h + nchars)
        /\ room = m_irq_buffused' - Left' /\ room \in Nat
    BY <1>1, <1>2, <1>8, SizesAssumption
  <2>2. \A i \in 1..room :
          (IF i + Mark > room THEN [by |-> "mark", n |-> i + Mark - room] ELSE all[i]) \in Bytes
    <3>1. \A i \in 1..room : i + Mark > room => i + Mark - room \in 1..Mark
      BY <2>1, SizesAssumption
    <3>2. \A i \in 1..room : all[i] \in Bytes
      BY <1>3, <1>5, <2>1, ElementOfSeq
    <3> QED
      BY <3>1, <3>2, BytesAre
  <2>3. s \in [1..room -> Bytes]
    BY <2>2
  <2>4. s \in Seq(Bytes) /\ Len(s) = room
    BY <2>1, <2>3, SeqIs
  <2>5. \A i \in 1..room : s[i] = Slot(Left + i - 1)'
    BY <1>1, <1>6, <1>8, <2>1
  <2>6. Pending' = s
    <3> HIDE DEF s, room
    <3> QED
      BY <1>1, <2>1, <2>4, <2>5, NextPending
  <2>7. ASSUME NEW i \in 1..Len(Pending), i + Mark > room PROVE Pending[i].by # "main"
    <3>1. Left + i - 1 \in Live /\ Pending[i] = Slot(Left + i - 1)
      BY <1>3
    <3>2. Left + i - 1 >= CorkBuffSize
      BY <1>2, <1>3, <2>7, SizesAssumption
    <3>3. Left + i - 1 \in Nat
      BY <1>2, <1>3
    <3> QED
      BY <3>1, <3>2, <3>3, SizesAssumption DEF Inv, OrderInv
  <2>8. room \in Len(Pending)..Len(all)
    BY <1>3, <1>5, <2>1
  <2>9. Pipe!Truncated(m, room)
    BY <1>1, <2>6, <2>7, <2>8 DEF Pipe!Truncated, all
  <2> QED
    BY <2>1, <2>9 DEF m
<1> QED
  BY <1>7, <1>8

LEMMA StepRefines ==
  ASSUME Inv, Inv', [Next]_vars
  PROVE  [PipeNext]_(Pipe!vars)
<1> USE DEF Live, Left, Slot, main
<1>1. CASE Putc
  BY <1>1, Stutter DEF Putc
<1>2. CASE Load
  BY <1>2, Stutter DEF Load, Flush
<1>3. CASE Reserve
  <2>1. CASE m_irq_buffused = buffused
    <3>1. Pipe!Put(c)
      BY <1>3, <2>1, ReservePuts
    <3> QED
      BY <3>1, Zenon DEF PipeNext
  <2>2. CASE m_irq_buffused # buffused
    BY <1>3, <2>2, Stutter DEF Reserve
  <2> QED
    BY <2>1, <2>2
<1>4. CASE Store
  <2>1. \A i \in Live : i \in Slots
    BY LiveIs
  <2>2. Left' = Left /\ \A i \in Live : Slot(i)' = Slot(i)
    BY <1>4, <2>1 DEF Store, Flush, Inv, TypeOK
  <2> QED
    BY <1>4, <2>2, Stutter DEF Store
<1>5. CASE FlushDone
  <2>1. CASE m_irq_buffused = buffused
    <3>1. /\ m_irq_buffused - Left = 0 /\ m_irq_buffused' - Left' = 0
          /\ UNCHANGED out
      BY <1>5, <2>1, SizesAssumption DEF FlushDone, Inv, TypeOK, StepInv
    <3>2. Pending' = Pending
      BY <3>1 DEF Pending
    <3> QED
      BY <3>1, <3>2 DEF Pipe!vars
  <2>2. CASE m_irq_buffused # buffused
    BY <1>5, <2>2, Stutter DEF FlushDone
  <2> QED
    BY <2>1, <2>2
<1>6. CASE Fetch
  BY <1>6, Stutter DEF Fetch
<1>7. CASE WriteBlock
  <2>1. CASE buffused = flushedbytes
    BY <1>7, <2>1, Stutter DEF WriteBlock
  <2>2. CASE buffused # flushedbytes
    BY <1>7, <2>2, WriteLeaves, Zenon DEF PipeNext
  <2> QED
    BY <2>1, <2>2
<1>8. ASSUME NEW nchars \in 1..MaxMessage, IrqPrint(nchars) PROVE [PipeNext]_(Pipe!vars)
  BY <1>8, IrqPrintAppends, Zenon DEF PipeNext
<1>9. CASE Silent \/ UNCHANGED vars
  BY <1>9, Stutter DEF Silent, vars
<1> QED
  BY <1>1, <1>2, <1>3, <1>4, <1>5, <1>6, <1>7, <1>8, <1>9 DEF Next, Main

(* The buffer, its cursors and its users implement one queue: every byte    *)
(* that is accepted leaves once and in its place, the bytes of the main     *)
(* program always, those of an interrupt unless the mark tells otherwise.   *)
THEOREM LogImplementsLogPipe == Spec => RefinesLogPipe
<1>1. Init => Pipe!Init
  <2> SUFFICES ASSUME Init PROVE Pipe!Init
    OBVIOUS
  <2>1. Pending = <<>>
    <3>1. Pending \in Seq(Bytes) /\ Len(Pending) = 0
      BY InitInv, PendingIs DEF Init, Left
    <3> QED
      BY <3>1, EmptySeq
  <2> QED
    BY <2>1 DEF Init, Pipe!Init
<1>2. Inv /\ Inv' /\ [Next]_vars => [PipeNext]_(Pipe!vars)
  BY StepRefines
<1> QED
  BY <1>1, <1>2, Invariance, PTL DEF Spec, RefinesLogPipe
=============================================================================
