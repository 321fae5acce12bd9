---------------------------- MODULE SerialProofs ----------------------------
(***************************************************************************)
(* The two sides of a buffered UART, for ring buffers of any size: the     *)
(* receive interrupt and the main program together are a queue             *)
(* (ByteQueue); and whatever the main program and interrupts send leaves,  *)
(* in order as long as they keep out of each other's way.                  *)
(***************************************************************************)
EXTENDS SerialReceive, SerialSend, SequenceTheorems, TLAPS

(***************************************************************************)
(* The ring buffer                                                         *)
(***************************************************************************)

LEMMA ModSelf == ASSUME NEW m \in Nat \ {0} PROVE m % m = 0
  OBVIOUS

LEMMA ModLess == ASSUME NEW m \in Nat \ {0}, NEW i \in Nat, i < m PROVE i % m = i
  OBVIOUS

(* A location that `%=' reduces is a location, and moves only at the end.   *)
LEMMA ReduceIs ==
  ASSUME NEW i \in Elements
  PROVE  /\ Reduce(i) = IF i = Size - 1 THEN 0 ELSE i
         /\ Reduce(i) \in Locations
<1>1. Size \in Nat /\ Size >= 2 /\ i \in Nat /\ i <= Size - 1
  BY SizeAssumption DEF Elements
<1>2. Size - 1 \in Nat \ {0}
  BY <1>1
<1>3. i < Size - 1 => i % (Size - 1) = i
  BY <1>1, <1>2, ModLess
<1>4. (Size - 1) % (Size - 1) = 0
  BY <1>2, ModSelf
<1>5. Reduce(i) = IF i = Size - 1 THEN 0 ELSE i
  BY <1>1, <1>3, <1>4 DEF Reduce
<1> QED
  BY <1>1, <1>5 DEF Locations

(* The location after one more byte.                                        *)
LEMMA NextLocation ==
  ASSUME NEW w \in Locations
  PROVE  /\ w \in Elements /\ w + 1 \in Elements
         /\ Reduce(w + 1) = IF w + 1 = Size - 1 THEN 0 ELSE w + 1
         /\ Reduce(w + 1) \in Locations
<1>1. w \in Elements /\ w + 1 \in Elements
  BY SizeAssumption DEF Locations, Elements
<1> QED
  BY <1>1, ReduceIs

(* The bytes that wait, one by one.                                         *)
LEMMA UnreadIs ==
  ASSUME NEW f \in [Elements -> Bytes], NEW w \in Locations, NEW r \in Locations
  PROVE  /\ Held(w, r) \in 0..Capacity
         /\ Unread(f, w, r) \in Seq(Bytes)
         /\ Len(Unread(f, w, r)) = Held(w, r)
         /\ \A i \in 1..Held(w, r) : Unread(f, w, r)[i] = f[Element(r, i)]
<1>1. Held(w, r) \in 0..Capacity
  BY SizeAssumption DEF Held, Capacity, Locations
<1>2. \A i \in 1..Held(w, r) : Element(r, i) \in Elements
  BY <1>1, SizeAssumption DEF Capacity, Locations, Elements, Element
<1>3. Unread(f, w, r) \in [1..Held(w, r) -> Bytes]
  BY <1>2 DEF Unread
<1>4. Held(w, r) \in Nat
  BY <1>1, SizeAssumption DEF Capacity
<1>5. Unread(f, w, r) \in Seq(Bytes)
  BY <1>3, <1>4
<1>6. Len(Unread(f, w, r)) = Held(w, r)
  BY <1>4 DEF Unread
<1> QED
  BY <1>1, <1>5, <1>6 DEF Unread

LEMMA AppendIs ==
  ASSUME NEW S, NEW s \in Seq(S), NEW t \in Seq(S), NEW e \in S,
         Len(t) = Len(s) + 1, t[Len(s) + 1] = e,
         \A i \in 1..Len(s) : t[i] = s[i]
  PROVE  t = Append(s, e)
<1> DEFINE a == Append(s, e)
<1>1. /\ a \in Seq(S) /\ Len(a) = Len(s) + 1 /\ a[Len(s) + 1] = e
      /\ \A i \in 1..Len(s) : a[i] = s[i]
  BY AppendProperties
<1>2. Len(s) \in Nat
  BY LenProperties
<1> HIDE DEF a
<1>3. \A i \in 1..Len(t) : t[i] = a[i]
  BY <1>1, <1>2
<1> QED
  BY <1>1, <1>3, SeqEqual DEF a

LEMMA TailIs ==
  ASSUME NEW S, NEW s \in Seq(S), NEW t \in Seq(S),
         Len(s) = Len(t) + 1, \A i \in 1..Len(t) : t[i] = s[i + 1]
  PROVE  s # <<>> /\ t = Tail(s) /\ s[1] = Head(s)
<1>1. Len(t) \in Nat
  BY LenProperties
<1>2. s # <<>>
  BY <1>1, EmptySeq
<1>3. /\ Tail(s) \in Seq(S) /\ Len(Tail(s)) = Len(t)
      /\ \A i \in 1..Len(t) : Tail(s)[i] = s[i + 1]
  BY <1>1, <1>2, HeadTailProperties
<1>4. t = Tail(s)
  BY <1>3, SeqEqual
<1> QED
  BY <1>2, <1>4

(* put appends as long as the buffer is not full ...                        *)
LEMMA PutAppends ==
  ASSUME NEW f \in [Elements -> Bytes], NEW w \in Locations, NEW r \in Locations,
         NEW b \in Bytes, Held(w, r) < Capacity
  PROVE  Unread([f EXCEPT ![w] = b], Reduce(w + 1), r) = Append(Unread(f, w, r), b)
<1> DEFINE g == [f EXCEPT ![w] = b]
           w2 == Reduce(w + 1)
           h == Held(w, r)
           s == Unread(f, w, r)
           t == Unread(g, w2, r)
<1>1. /\ w \in Elements /\ w2 \in Locations
      /\ w2 = (IF w + 1 = Size - 1 THEN 0 ELSE w + 1)
  BY NextLocation
<1>2. g \in [Elements -> Bytes] /\ g[w] = b /\ \A i \in Elements \ {w} : g[i] = f[i]
  BY <1>1
<1>3. Held(w2, r) = h + 1 /\ h \in Nat
  BY <1>1, SizeAssumption DEF Held, Locations, Capacity
<1>4. \A i \in 1..h : Element(r, i) \in Elements \ {w}
  BY SizeAssumption DEF Held, Locations, Capacity, Elements, Element
<1>5. Element(r, h + 1) = w
  BY SizeAssumption DEF Held, Locations, Capacity, Element
<1>6. s \in Seq(Bytes) /\ Len(s) = h /\ \A i \in 1..h : s[i] = f[Element(r, i)]
  BY UnreadIs
<1> HIDE DEF g, w2
<1>7. /\ t \in Seq(Bytes) /\ Len(t) = Held(w2, r)
      /\ \A i \in 1..Held(w2, r) : t[i] = g[Element(r, i)]
  BY UnreadIs, <1>1, <1>2
<1> HIDE DEF h, s, t
<1>8. \A i \in 1..h : t[i] = s[i]
  BY <1>2, <1>3, <1>4, <1>6, <1>7
<1>9. t[h + 1] = b
  BY <1>2, <1>3, <1>5, <1>7
<1>10. t = Append(s, b)
  BY <1>3, <1>6, <1>7, <1>8, <1>9, AppendIs
<1> QED
  BY <1>10 DEF g, w2, s, t

(* ... and the byte that fills it makes it look empty.                      *)
LEMMA PutOverruns ==
  ASSUME NEW f \in [Elements -> Bytes], NEW w \in Locations, NEW r \in Locations,
         Held(w, r) = Capacity
  PROVE  Unread(f, Reduce(w + 1), r) = <<>>
<1>1. Reduce(w + 1) = r
  BY NextLocation, SizeAssumption DEF Held, Locations, Capacity
<1>2. Held(r, r) = 0
  BY SizeAssumption DEF Held, Locations
<1>3. Unread(f, r, r) \in Seq(Bytes) /\ Len(Unread(f, r, r)) = 0
  BY <1>2, UnreadIs
<1> QED
  BY <1>1, <1>3, EmptySeq

(* get takes the oldest byte and leaves the others.                         *)
LEMMA GetTakes ==
  ASSUME NEW f \in [Elements -> Bytes], NEW w \in Locations, NEW r \in Locations,
         w # r
  PROVE  /\ Unread(f, w, r) # <<>>
         /\ f[r] = Head(Unread(f, w, r))
         /\ Unread(f, w, Reduce(r + 1)) = Tail(Unread(f, w, r))
<1> DEFINE r2 == Reduce(r + 1)
           h == Held(w, r)
           s == Unread(f, w, r)
           t == Unread(f, w, r2)
<1>1. r2 \in Locations /\ r2 = (IF r + 1 = Size - 1 THEN 0 ELSE r + 1)
  BY NextLocation
<1>2. Held(w, r2) = h - 1 /\ h \in Nat /\ h >= 1
  BY <1>1, SizeAssumption DEF Held, Locations
<1>3. \A i \in 1..(h - 1) : Element(r2, i) = Element(r, i + 1)
  BY <1>1, SizeAssumption DEF Held, Locations, Element
<1>4. Element(r, 1) = r
  BY SizeAssumption DEF Locations, Element
<1>5. s \in Seq(Bytes) /\ Len(s) = h /\ \A i \in 1..h : s[i] = f[Element(r, i)]
  BY UnreadIs
<1> HIDE DEF r2
<1>6. /\ t \in Seq(Bytes) /\ Len(t) = Held(w, r2)
      /\ \A i \in 1..Held(w, r2) : t[i] = f[Element(r2, i)]
  BY UnreadIs, <1>1
<1> HIDE DEF h, s, t
<1>7. \A i \in 1..(h - 1) : t[i] = s[i + 1]
  BY <1>2, <1>3, <1>5, <1>6
<1>8. s[1] = f[r]
  BY <1>2, <1>4, <1>5
<1>9. s # <<>> /\ t = Tail(s) /\ s[1] = Head(s)
  BY <1>2, <1>5, <1>6, <1>7, TailIs
<1> QED
  BY <1>8, <1>9 DEF r2, s, t

(***************************************************************************)
(* Receiving: the interrupt and get                                        *)
(***************************************************************************)

(* How far get has come with _rloc.                                         *)
Position ==
  /\ ~getting => rx_rloc \in Locations /\ rxByte = NoByte
  /\ rxStage = "read" => rx_rloc = rxPos
  /\ rxStage = "written" => rx_rloc = rxPos + 1
  /\ rxStage = "reduced" => rx_rloc = Reduce(rxPos + 1)

RecvInv == RxTypeOK /\ Position

LEMMA InitRecv == RxInit => RecvInv
<1> SUFFICES ASSUME RxInit PROVE RecvInv
  OBVIOUS
<1>1. 0 \in Locations /\ 0 \in Elements
  BY SizeAssumption DEF Locations, Elements
<1> QED
  BY <1>1 DEF RxInit, RecvInv, RxTypeOK, Position, getting

LEMMA NextRecv == RecvInv /\ [RxNext]_rxVars => RecvInv'
<1> SUFFICES ASSUME RecvInv, [RxNext]_rxVars PROVE RecvInv'
  OBVIOUS
<1> USE DEF RecvInv
<1>0. \A l \in Locations : l \in Elements /\ l + 1 \in Elements /\ Reduce(l + 1) \in Locations
  BY NextLocation
<1>1. ASSUME NEW b \in Bytes, rxIrq(b) PROVE RecvInv'
  <2>1. Reduce(rx_wloc + 1) \in Locations
    BY NextLocation DEF RxTypeOK
  <2> QED BY <1>1, <2>1 DEF rxIrq, RxTypeOK, Position, getting
<1>8. CASE readable
  BY <1>8 DEF readable, RxTypeOK, Position, getting
<1>2. CASE GetLocation
  BY <1>2 DEF GetLocation, RxTypeOK, Position, getting
<1>3. CASE LoadByte
  <2>1. rxbuf[rxPos] \in Bytes
    BY <1>0 DEF RxTypeOK
  <2> QED BY <1>3, <2>1 DEF LoadByte, RxTypeOK, Position, getting
<1>4. CASE WriteLocation
  BY <1>0, <1>4 DEF WriteLocation, RxTypeOK, Position, getting
<1>5. CASE ReduceLocation
  BY <1>0, <1>5 DEF ReduceLocation, RxTypeOK, Position, getting
<1>6. CASE getcDone
  BY <1>0, <1>6 DEF getcDone, RxTypeOK, Position, getting
<1>7. CASE UNCHANGED rxVars
  BY <1>7 DEF rxVars, RxTypeOK, Position, getting
<1> QED
  BY <1>1, <1>2, <1>3, <1>4, <1>5, <1>6, <1>7, <1>8 DEF RxNext

(* The locations stay inside the array, for every size of it, even while    *)
(* _rloc is between its increment and its `%=' (MyBuffer.h:130-146).        *)
THEOREM ReceiveTypeCorrect == RxSpec => []RxTypeOK
<1>1. RecvInv => RxTypeOK
  BY DEF RecvInv
<1> QED
  BY InitRecv, NextRecv, <1>1, PTL DEF RxSpec

LEMMA InitReceive == RxInit => Q!Init
<1> SUFFICES ASSUME RxInit PROVE Q!Init
  OBVIOUS
<1>1. 0 \in Locations /\ rxbuf \in [Elements -> Bytes]
  BY SizeAssumption DEF RxInit, Locations, Elements
<1>2. oldest = 0 /\ rx_wloc = 0 /\ Held(0, 0) = 0
  BY SizeAssumption DEF RxInit, oldest, Held, getting
<1>3. queue \in Seq(Bytes) /\ Len(queue) = 0
  BY <1>1, <1>2, UnreadIs DEF queue
<1>4. queue = <<>>
  BY <1>3, EmptySeq
<1> QED
  BY <1>4 DEF RxInit, Q!Init, taken, told, lost, getting

(* The ring once round, from the locations of a buffer that looks empty.    *)
Round(f, r) == [i \in 1..(Size - 1) |-> f[Element(r, i)]]

LEMMA RoundIs ==
  ASSUME NEW f \in [Elements -> Bytes], NEW r \in Locations
  PROVE  /\ Round(f, r) \in Seq(Bytes)
         /\ Len(Round(f, r)) = Capacity + 1
         /\ \A i \in 1..(Capacity + 1) : Round(f, r)[i] = f[Element(r, i)]
<1>1. \A i \in 1..(Size - 1) : Element(r, i) \in Elements
  BY SizeAssumption DEF Locations, Elements, Element
<1>2. Size - 1 \in Nat /\ Size - 1 = Capacity + 1
  BY SizeAssumption DEF Capacity
<1>3. Round(f, r) \in [1..(Size - 1) -> Bytes]
  BY <1>1 DEF Round
<1>4. Round(f, r) \in Seq(Bytes)
  BY <1>2, <1>3
<1>5. Len(Round(f, r)) = Size - 1
  BY <1>2 DEF Round
<1> QED
  BY <1>2, <1>4, <1>5 DEF Round

(* What an overrun hides is the whole ring: what waited, and its own byte.  *)
LEMMA OverrunHides ==
  ASSUME NEW f \in [Elements -> Bytes], NEW w \in Locations, NEW r \in Locations,
         NEW b \in Bytes, Held(w, r) = Capacity
  PROVE  Round([f EXCEPT ![w] = b], r) = Append(Unread(f, w, r), b)
<1> DEFINE g == [f EXCEPT ![w] = b]
           s == Unread(f, w, r)
           t == Round(g, r)
<1>1. w \in Elements
  BY NextLocation
<1>2. g \in [Elements -> Bytes] /\ g[w] = b /\ \A i \in Elements \ {w} : g[i] = f[i]
  BY <1>1
<1>3. \A i \in 1..Capacity : Element(r, i) \in Elements \ {w}
  BY SizeAssumption DEF Held, Locations, Capacity, Elements, Element
<1>4. Element(r, Capacity + 1) = w
  BY SizeAssumption DEF Held, Locations, Capacity, Element
<1>5. s \in Seq(Bytes) /\ Len(s) = Capacity /\ \A i \in 1..Capacity : s[i] = f[Element(r, i)]
  BY UnreadIs
<1> HIDE DEF g
<1>6. /\ t \in Seq(Bytes) /\ Len(t) = Capacity + 1
      /\ \A i \in 1..(Capacity + 1) : t[i] = g[Element(r, i)]
  BY RoundIs, <1>2
<1>7. Capacity \in Nat
  BY SizeAssumption DEF Capacity
<1> HIDE DEF s, t
<1>8. \A i \in 1..Capacity : t[i] = s[i]
  BY <1>2, <1>3, <1>5, <1>6, <1>7
<1>9. t[Capacity + 1] = b
  BY <1>2, <1>4, <1>6, <1>7
<1>10. t = Append(s, b)
  BY <1>5, <1>6, <1>8, <1>9, AppendIs
<1> QED
  BY <1>10 DEF g, s, t

(* A get from an empty buffer goes once round.                              *)
LEMMA EmptyGetTakes ==
  ASSUME NEW f \in [Elements -> Bytes], NEW r \in Locations, Capacity > 0
  PROVE  /\ f[r] = Head(Round(f, r))
         /\ Unread(f, r, Reduce(r + 1)) = Tail(Round(f, r))
<1> DEFINE r2 == Reduce(r + 1)
           s == Round(f, r)
           t == Unread(f, r, r2)
<1>1. r2 \in Locations /\ r2 = (IF r + 1 = Size - 1 THEN 0 ELSE r + 1)
  BY NextLocation
<1>2. Held(r, r2) = Capacity /\ Capacity \in Nat
  BY <1>1, SizeAssumption DEF Held, Locations, Capacity
<1>3. \A i \in 1..Capacity : Element(r2, i) = Element(r, i + 1)
  BY <1>1, SizeAssumption DEF Locations, Element, Capacity
<1>4. Element(r, 1) = r
  BY SizeAssumption DEF Locations, Element
<1>5. s \in Seq(Bytes) /\ Len(s) = Capacity + 1 /\ \A i \in 1..(Capacity + 1) : s[i] = f[Element(r, i)]
  BY RoundIs
<1> HIDE DEF r2
<1>6. /\ t \in Seq(Bytes) /\ Len(t) = Held(r, r2)
      /\ \A i \in 1..Held(r, r2) : t[i] = f[Element(r2, i)]
  BY UnreadIs, <1>1
<1> HIDE DEF s, t
<1>7. \A i \in 1..Capacity : t[i] = s[i + 1]
  BY <1>2, <1>3, <1>5, <1>6
<1>8. s[1] = f[r]
  BY <1>2, <1>4, <1>5
<1>9. s # <<>> /\ t = Tail(s) /\ s[1] = Head(s)
  BY <1>2, <1>5, <1>6, <1>7, TailIs
<1> QED
  BY <1>8, <1>9 DEF r2, s, t

(* Nobody is told that an empty buffer has a byte, so there is room for one *)
(* in a buffer of which the main program was told that it has.              *)
Told == told => Capacity > 0

(* The interrupt puts a byte, or overruns.                                  *)
LEMMA PutReceive ==
  ASSUME RecvInv, NEW b \in Bytes, rxIrq(b)
  PROVE  Q!Put(b) \/ Q!Overrun(b)
<1> USE DEF RecvInv
<1>1. oldest \in Locations /\ oldest' = oldest /\ (~getting => oldest = rx_rloc)
  BY NextLocation DEF oldest, RxTypeOK, Position, rxIrq, getting
<1>2. /\ rx_wloc' = Reduce(rx_wloc + 1) /\ rxbuf' = [rxbuf EXCEPT ![rx_wloc] = b]
      /\ rx_wloc \in Locations /\ rxbuf \in [Elements -> Bytes] /\ rxPos \in Elements
  BY NextLocation DEF rxIrq, RxTypeOK
<1>3. queue' = Unread([rxbuf EXCEPT ![rx_wloc] = b], Reduce(rx_wloc + 1), oldest)
  BY <1>1, <1>2 DEF queue
<1>4. Len(queue) = Held(rx_wloc, oldest) /\ Held(rx_wloc, oldest) \in 0..Capacity
  BY <1>1, <1>2, UnreadIs DEF queue
<1>7. told' = told /\ rx_rloc' = rx_rloc /\ (told => ~getting)
  BY DEF rxIrq, told, getting
<1>5. CASE Held(rx_wloc, oldest) < Capacity
  <2>1. queue' = Append(queue, b)
    BY <1>1, <1>2, <1>3, <1>5, PutAppends DEF queue
  <2>2. getting => rx_wloc # rxPos
    <3>1. getting => oldest = IF rxPos + 1 = Size - 1 THEN 0 ELSE rxPos + 1
      BY NextLocation DEF oldest, RxTypeOK
    <3> QED
      BY <1>2, <1>5, <3>1, SizeAssumption DEF RxTypeOK, Held, Capacity, Locations
  <2>3. getting => rxbuf'[rxPos] = rxbuf[rxPos]
    BY <1>2, <2>2
  <2>4. taken' = taken
    BY <2>3 DEF taken, rxIrq, getting
  <2>5. told => rx_wloc' # rx_rloc'
    BY <1>1, <1>2, <1>5, <1>7, NextLocation, SizeAssumption DEF Held, Capacity, Locations
  <2>6. lost' = <<>>
    BY <1>7, <2>5 DEF lost
  <2> QED BY <1>4, <1>5, <1>7, <2>1, <2>4, <2>6 DEF Q!Put
<1>6. CASE Held(rx_wloc, oldest) = Capacity
  <2>1. [rxbuf EXCEPT ![rx_wloc] = b] \in [Elements -> Bytes]
    BY <1>2
  <2>2. queue' = <<>>
    BY <1>1, <1>2, <1>3, <1>6, <2>1, PutOverruns
  <2>3. rxbuf'[rxPos] \in {b, rxbuf[rxPos]} /\ rxbuf[rxPos] \in Bytes
    BY <1>2
  <2>4. taken' = taken \/ (taken # NoByte /\ taken' = b)
    BY <2>3, NoByteAssumption DEF taken, rxIrq, RxTypeOK, getting
  <2>5. CASE told
    <3>1. oldest = rx_rloc
      BY <1>1, <1>7, <2>5
    <3>2. rx_wloc' = rx_rloc'
      BY <1>1, <1>2, <1>6, <1>7, <3>1, NextLocation, SizeAssumption DEF Held, Capacity, Locations
    <3>3. lost' = Round(rxbuf', rx_rloc')
      BY <1>7, <2>5, <3>2 DEF lost, Round
    <3>4. lost' = Round([rxbuf EXCEPT ![rx_wloc] = b], oldest)
      BY <1>2, <1>7, <3>1, <3>3
    <3>5. lost' = Append(queue, b)
      BY <1>1, <1>2, <1>6, <3>4, OverrunHides DEF queue
    <3> QED BY <1>4, <1>6, <1>7, <2>2, <2>4, <2>5, <3>5 DEF Q!Overrun
  <2>6. CASE ~told
    <3>1. lost' = <<>>
      BY <1>7, <2>6 DEF lost
    <3> QED BY <1>4, <1>6, <1>7, <2>2, <2>4, <2>6, <3>1 DEF Q!Overrun
  <2> QED BY <2>5, <2>6
<1> QED
  BY <1>4, <1>5, <1>6, SizeAssumption DEF Capacity

(* readable's answer.                                                       *)
LEMMA AskReceive == ASSUME RecvInv, readable PROVE Q!Ask
<1> USE DEF RecvInv
<1>1. /\ rxStage = "idle" /\ rxStage' = "readable" /\ rx_wloc # rx_rloc
      /\ UNCHANGED <<rxbuf, rx_wloc, rx_rloc, rxPos, rxByte>>
  BY DEF readable, available
<1>2. /\ rx_rloc \in Locations /\ rx_wloc \in Locations /\ rxbuf \in [Elements -> Bytes]
      /\ ~getting /\ ~getting'
  BY <1>1 DEF RxTypeOK, Position, getting
<1>3. oldest = rx_rloc /\ oldest' = rx_rloc /\ queue' = queue
  BY <1>1, <1>2 DEF oldest, queue
<1>4. queue # <<>>
  BY <1>1, <1>2, <1>3, GetTakes DEF queue
<1>5. taken = NoByte /\ taken' = NoByte
  BY <1>2 DEF taken
<1>6. ~told /\ told' /\ lost = <<>> /\ lost' = <<>>
  BY <1>1 DEF told, lost
<1>7. told' = TRUE
  BY <1>1 DEF told
<1> QED
  BY <1>3, <1>4, <1>5, <1>6, <1>7 DEF Q!Ask

(* get takes the oldest byte, or the first of those an overrun has hidden.  *)
LEMMA TakeReceive == ASSUME RecvInv, Told, GetLocation PROVE Q!Take \/ Q!TakeBack
<1> USE DEF RecvInv
<1>1. /\ rxStage = "readable" /\ rxStage' = "read" /\ rxPos' = rx_rloc
      /\ UNCHANGED <<rxbuf, rx_wloc, rx_rloc, rxByte>>
  BY DEF GetLocation
<1>2. ~getting /\ getting' /\ told /\ told' = FALSE
  BY <1>1 DEF getting, told
<1>3. /\ rx_rloc \in Locations /\ rx_wloc \in Locations /\ rxbuf \in [Elements -> Bytes]
      /\ rxByte = NoByte
  BY <1>2 DEF RxTypeOK, Position
<1>4. queue = Unread(rxbuf, rx_wloc, rx_rloc) /\ queue' = Unread(rxbuf, rx_wloc, Reduce(rx_rloc + 1))
  BY <1>1, <1>2 DEF queue, oldest
<1>5. taken = NoByte /\ taken' = rxbuf[rx_rloc]
  BY <1>1, <1>2, <1>3 DEF taken
<1>6. lost' = <<>>
  BY <1>2 DEF lost
<1>7. CASE rx_wloc # rx_rloc
  <2>1. queue # <<>> /\ rxbuf[rx_rloc] = Head(queue) /\ queue' = Tail(queue)
    BY <1>3, <1>4, <1>7, GetTakes
  <2>2. lost = <<>>
    BY <1>7 DEF lost
  <2> QED BY <1>2, <1>5, <1>6, <2>1, <2>2 DEF Q!Take
<1>8. CASE rx_wloc = rx_rloc
  <2>1. Held(rx_rloc, rx_rloc) = 0
    BY <1>3, SizeAssumption DEF Held, Locations
  <2>2. queue = <<>>
    BY <1>3, <1>4, <1>8, <2>1, UnreadIs, EmptySeq
  <2>3. lost = Round(rxbuf, rx_rloc)
    BY <1>2, <1>8 DEF lost, Round
  <2>4. rxbuf[rx_rloc] = Head(lost) /\ queue' = Tail(lost)
    BY <1>2, <1>3, <1>4, <1>8, <2>3, EmptyGetTakes DEF Told
  <2> QED BY <1>2, <1>5, <1>6, <2>2, <2>4 DEF Q!TakeBack
<1> QED
  BY <1>7, <1>8

LEMMA NextTold == RecvInv /\ Told /\ [RxNext]_rxVars => Told'
<1> SUFFICES ASSUME RecvInv, Told, [RxNext]_rxVars PROVE Told'
  OBVIOUS
<1>1. told' => told \/ readable
  BY DEF told, RxNext, rxVars, rxIrq, readable, GetLocation, LoadByte, WriteLocation, ReduceLocation, getcDone
<1>2. readable => Capacity > 0
  BY SizeAssumption DEF readable, available, RecvInv, RxTypeOK, Position, getting, Locations, Capacity
<1> QED
  BY <1>1, <1>2 DEF Told

LEMMA StepReceive ==
  ASSUME RecvInv, Told, [RxNext]_rxVars
  PROVE  [Q!Next]_(Q!vars)
<1> USE DEF RecvInv
<1>1. ASSUME NEW b \in Bytes, rxIrq(b) PROVE Q!Next
  BY <1>1, PutReceive DEF Q!Next
<1>2. CASE readable
  BY <1>2, AskReceive DEF Q!Next
<1>3. CASE GetLocation
  BY <1>3, TakeReceive DEF Q!Next
<1>4. CASE LoadByte
  <2>1. rxbuf[rxPos] \in Bytes
    BY NextLocation DEF RxTypeOK
  <2>2. taken' = taken /\ queue' = queue
    BY <1>4, <2>1, NoByteAssumption DEF LoadByte, taken, queue, oldest, getting
  <2>3. told' = told /\ lost' = lost
    BY <1>4 DEF LoadByte, told, lost
  <2> QED BY <2>2, <2>3 DEF Q!vars
<1>5. CASE WriteLocation
  BY <1>5 DEF WriteLocation, taken, queue, oldest, told, lost, getting, Q!vars
<1>6. CASE ReduceLocation
  BY <1>6 DEF ReduceLocation, taken, queue, oldest, told, lost, getting, Q!vars
<1>7. CASE getcDone
  <2>1. oldest' = oldest /\ queue' = queue
    BY <1>7 DEF getcDone, oldest, queue, Position, getting
  <2>2. taken # NoByte /\ taken' = NoByte
    BY <1>7 DEF getcDone, taken, getting
  <2>3. told' = told /\ lost' = lost
    BY <1>7 DEF getcDone, told, lost
  <2> QED BY <2>1, <2>2, <2>3 DEF Q!Next, Q!Deliver
<1>8. CASE UNCHANGED rxVars
  BY <1>8 DEF rxVars, taken, queue, oldest, told, lost, getting, Q!vars
<1> QED
  BY <1>1, <1>2, <1>3, <1>4, <1>5, <1>6, <1>7, <1>8 DEF RxNext

(* For every size of the buffer and every interleaving of the receive       *)
(* interrupt with readable and get, the bytes are read as they came, each   *)
(* once, until one finds the buffer full; and what a get that had its       *)
(* answer before takes from the empty buffer then are the bytes that were   *)
(* hidden (BufferedSerial.cpp:43-56, 120-128, utils.cpp:222-223).           *)
THEOREM ReceiveIsQueue == RxSpec => RefinesByteQueue
<1>1. RecvInv /\ Told /\ [RxNext]_rxVars => [Q!Next]_(Q!vars)
  BY StepReceive
<1>2. RxInit => Told
  BY DEF RxInit, Told, told
<1> QED
  BY InitRecv, NextRecv, NextTold, InitReceive, <1>1, <1>2, PTL DEF RxSpec, RefinesByteQueue, Q!Spec

(***************************************************************************)
(* Sending: whatever is done to the bytes                                  *)
(***************************************************************************)

(* A location is outside the part in use only between put's or get's two    *)
(* writes of it.                                                            *)
Places ==
  /\ stage # "none" => pc \in {"put", "get"} /\ pos \in Locations
  /\ wloc \in Locations \/ (pc = "put" /\ stage \in {"written", "reducing"})
  /\ rloc \in Locations \/ (pc = "get" /\ stage \in {"written", "reducing"})

(* The transmit interrupt is off only if there is room, so that the next    *)
(* prime turns it on, or while main's own txIrq runs, which does so itself. *)
OwnTxIrq == {"loop", "get", "send", "none", "attach"}

Wakes ==
  /\ handler = "tx" => attached
  /\ pc \notin OwnTxIrq /\ handler \in {"none", "put"} /\ ~attached => room > 0
  /\ NothingStuck

WakeInv == TypeOK /\ Places /\ Wakes


LEMMA Reduced == ASSUME NEW i \in Nat PROVE Reduce(i) \in Locations
<1> DEFINE m == Size - 1
<1>1. m \in Nat \ {0}
  BY SizeAssumption
<1>2. i % m \in 0..m - 1
  <2> HIDE DEF m
  <2> QED BY <1>1
<1>3. 0..m - 1 = 0..Size - 2
  BY SizeAssumption
<1> QED
  BY <1>2, <1>3 DEF Reduce, Locations

LEMMA LocationIs ==
  /\ \A l \in Locations : l \in Elements /\ l + 1 \in Elements
  /\ \A l \in Elements : l \in Nat /\ Reduce(l) \in Locations /\ Reduce(l + 1) \in Locations
  /\ 0 \in Locations /\ 0 \in Elements
BY NextLocation, Reduced, SizeAssumption DEF Locations, Elements

(* A message is one of numbers.                                             *)
LEMMA MessageIs ==
  ASSUME written \in Nat, NEW n \in Nat, written + n <= MaxWritten
  PROVE  /\ Message(n) \in Seq(Numbers) /\ Len(Message(n)) = n
         /\ \A i \in 1..n : Message(n)[i] = written + i
<1>1. MaxWritten \in Nat
  BY SendAssumption
<1>2. Message(n) \in [1..n -> Numbers]
  BY <1>1 DEF Message, Numbers
<1>3. Message(n) \in Seq(Numbers)
  BY <1>2
<1>4. Len(Message(n)) = n
  BY DEF Message
<1> QED
  BY <1>3, <1>4 DEF Message

(* What is left of one after a byte.                                        *)
LEMMA RestIs ==
  ASSUME NEW s \in Seq(Numbers), s # <<>>
  PROVE  /\ Head(s) \in Numbers /\ Head(s) = s[1]
         /\ Tail(s) \in Seq(Numbers) /\ Len(Tail(s)) = Len(s) - 1 /\ Len(s) \in Nat \ {0}
         /\ \A i \in 1..Len(Tail(s)) : Tail(s)[i] = s[i + 1]
<1>1. Len(s) \in Nat \ {0}
  BY EmptySeq, LenProperties
<1>2. s[1] \in Numbers
  BY <1>1, ElementOfSeq
<1> QED
  BY <1>1, <1>2, HeadTailProperties

LEMMA InitWake == Init => WakeInv
<1> SUFFICES ASSUME Init PROVE WakeInv
  OBVIOUS
<1>1. /\ MaxWritten \in Nat /\ Room \in Nat \ {0} /\ MaxIrq \in Nat /\ MaxMain \in Nat
      /\ zero \in Numbers
  BY SendAssumption DEF zero, Numbers
<1>2. <<>> \in Seq(Numbers) /\ Len(<<>>) = 0
  BY EmptySeq
<1>3. buf \in [Elements -> Numbers]
  BY <1>1 DEF Init
<1>4. zero = 0 /\ 0 \in 0..MaxWritten /\ Room \in 0..Room /\ 0 <= MaxIrq /\ 0 <= MaxMain
  BY <1>1 DEF zero
<1>5. TypeOK
  BY <1>1, <1>2, <1>3, <1>4, LocationIs DEF Init, TypeOK, Stages
<1>6. Places
  BY LocationIs DEF Init, Places
<1>7. Wakes
  BY <1>1 DEF Init, Wakes, NothingStuck, available
<1> QED
  BY <1>5, <1>6, <1>7 DEF WakeInv

(* What steps of the main program leave alone.                              *)
LEMMA MoveIs ==
  ASSUME TypeOK, Places, NEW l \in Elements, Move(l)
  PROVE  /\ wloc' \in Elements /\ rloc' \in Elements /\ buf' = buf
         /\ pc = "put" => wloc' = l /\ rloc' = rloc
         /\ pc # "put" => rloc' = l /\ wloc' = wloc
BY DEF Move, TypeOK

(* The main program's steps.                                                *)
LEMMA MainWake ==
  ASSUME WakeInv, Main
  PROVE  WakeInv'
<1> USE DEF WakeInv
<1>0. handler = "none" /\ handler' = "none" /\ ileft' = ileft /\ written' = written
  BY DEF Main, interrupt
<1>1. CASE NextByte
  <2>1. /\ Head(left) \in Numbers /\ Tail(left) \in Seq(Numbers)
        /\ Len(Tail(left)) = Len(left) - 1 /\ Len(left) \in Nat
    BY <1>1, RestIs DEF NextByte, TypeOK
  <2>2. Len(Tail(left)) <= MaxMain
    BY <2>1, SendAssumption DEF TypeOK
  <2>3. TypeOK'
    BY <1>0, <1>1, <2>1, <2>2 DEF NextByte, TypeOK, Stages, txbuf, uart, sent, history
  <2>4. Places'
    BY <1>0, <1>1 DEF NextByte, Places, txbuf
  <2>5. Wakes'
    BY <1>0, <1>1 DEF NextByte, Wakes, NothingStuck, OwnTxIrq, txbuf, uart
  <2> QED BY <2>3, <2>4, <2>5
<1>2. CASE WrittenAll
  <2>1. TypeOK'
    BY <1>0, <1>2 DEF WrittenAll, TypeOK, txbuf, uart, sent, access, history
  <2>2. Places'
    BY <1>2 DEF WrittenAll, Places, txbuf, access
  <2>3. Wakes'
    BY <1>0, <1>2 DEF WrittenAll, Wakes, NothingStuck, OwnTxIrq, txbuf, uart
  <2> QED BY <2>1, <2>2, <2>3
<1>3. CASE Increment
  <2>1. pc \in {"put", "get"} /\ pos \in Locations /\ pos + 1 \in Elements
    BY <1>3, LocationIs DEF Increment, Places
  <2>2. /\ wloc' \in Elements /\ rloc' \in Elements /\ buf' = buf
        /\ pc = "put" => wloc' = pos + 1 /\ rloc' = rloc
        /\ pc # "put" => rloc' = pos + 1 /\ wloc' = wloc
    BY <1>3, <2>1, MoveIs DEF Increment
  <2>3. TypeOK'
    BY <1>0, <1>3, <2>2 DEF Increment, TypeOK, Stages, uart, sent, history
  <2>4. Places'
    BY <1>3, <2>1, <2>2 DEF Increment, Places
  <2>5. Wakes'
    BY <1>0, <1>3, <2>1 DEF Increment, Wakes, NothingStuck, OwnTxIrq, uart
  <2> QED BY <2>3, <2>4, <2>5
<1>4. CASE ReadAgain
  <2>1. pc \in {"put", "get"}
    BY <1>4 DEF ReadAgain, Places
  <2>2. TypeOK'
    BY <1>0, <1>4 DEF ReadAgain, Moved, TypeOK, Stages, txbuf, uart, sent, history
  <2>3. Places'
    BY <1>4 DEF ReadAgain, Places, txbuf
  <2>4. Wakes'
    BY <1>0, <1>4 DEF ReadAgain, Wakes, NothingStuck, OwnTxIrq, txbuf, uart
  <2> QED BY <2>2, <2>3, <2>4
<1>5. CASE WriteReduced
  <2>1. Reduce(loc) \in Locations /\ Reduce(loc) \in Elements /\ pc \in {"put", "get"}
    BY <1>5, LocationIs DEF WriteReduced, TypeOK, Places
  <2>2. /\ wloc' \in Elements /\ rloc' \in Elements /\ buf' = buf
        /\ pc = "put" => wloc' = Reduce(loc) /\ rloc' = rloc
        /\ pc # "put" => rloc' = Reduce(loc) /\ wloc' = wloc
    BY <1>5, <2>1, MoveIs DEF WriteReduced
  <2>3. TypeOK'
    BY <1>0, <1>5, <2>2 DEF WriteReduced, TypeOK, Stages, uart, sent, history
  <2>4. Places'
    BY <1>5, <2>1, <2>2 DEF WriteReduced, Places
  <2>5. Wakes'
    BY <1>0, <1>5, <2>1 DEF WriteReduced, Wakes, NothingStuck, OwnTxIrq, uart
  <2> QED BY <2>3, <2>4, <2>5
<1>6. CASE StoreByte
  <2>1. zero \in Numbers
    BY SendAssumption DEF zero, Numbers
  <2>2. TypeOK'
    BY <1>0, <1>6, <2>1 DEF StoreByte, TypeOK, uart, sent, access, history
  <2>3. Places'
    BY <1>6 DEF StoreByte, Places, access
  <2>4. Wakes'
    BY <1>0, <1>6 DEF StoreByte, Wakes, NothingStuck, OwnTxIrq, uart
  <2> QED BY <2>2, <2>3, <2>4
<1>7. CASE PutDone
  <2>1. TypeOK'
    BY <1>0, <1>7 DEF PutDone, TypeOK, Stages, txbuf, uart, sent
  <2>2. Places'
    BY <1>7 DEF PutDone, Places, txbuf
  <2>3. Wakes'
    BY <1>0, <1>7 DEF PutDone, Wakes, NothingStuck, OwnTxIrq, txbuf, uart
  <2> QED BY <2>1, <2>2, <2>3
<1>8. CASE Prime
  <2>1. TypeOK'
    BY <1>0, <1>8 DEF Prime, TypeOK, txbuf, uart, sent, access, history
  <2>2. Places'
    BY <1>8 DEF Prime, Places, txbuf, access
  <2>3. Wakes'
    BY <1>0, <1>8 DEF Prime, Wakes, NothingStuck, OwnTxIrq, txbuf, uart
  <2> QED BY <2>1, <2>2, <2>3
<1>9. ASSUME NEW from, NEW on \in BOOLEAN, NEW to, Attach(from, on, to),
             \/ from = "detach" /\ to = "loop"
             \/ from = "none" /\ to = "attach"
             \/ from = "attach" /\ on /\ to = "idle"
      PROVE  WakeInv'
  <2>1. TypeOK'
    BY <1>0, <1>9 DEF Attach, TypeOK, txbuf, sent, access, history
  <2>2. Places'
    BY <1>9 DEF Attach, Places, txbuf, access
  <2>3. Wakes'
    BY <1>0, <1>9 DEF Attach, Wakes, NothingStuck, OwnTxIrq, txbuf
  <2> QED BY <2>1, <2>2, <2>3
<1>10. CASE Loop
  <2>1. TypeOK'
    BY <1>0, <1>10 DEF Loop, TypeOK, txbuf, uart, sent, access, history
  <2>2. Places'
    BY <1>10 DEF Loop, Places, txbuf, access
  <2>3. Wakes'
    BY <1>0, <1>10 DEF Loop, Wakes, NothingStuck, OwnTxIrq, txbuf, uart
  <2> QED BY <2>1, <2>2, <2>3
<1>11. CASE ReadLocation
  <2>1. TypeOK'
    BY <1>0, <1>11 DEF ReadLocation, TypeOK, Stages, txbuf, uart, sent, history
  <2>2. Places'
    BY <1>11 DEF ReadLocation, Places, txbuf
  <2>3. Wakes'
    BY <1>0, <1>11 DEF ReadLocation, Wakes, NothingStuck, OwnTxIrq, txbuf, uart
  <2> QED BY <2>1, <2>2, <2>3
<1>12. CASE LoadEarly
  <2>1. TypeOK'
    BY <1>0, <1>12 DEF LoadEarly, TypeOK, txbuf, uart, sent, access, history
  <2>2. Places'
    BY <1>12 DEF LoadEarly, Places, txbuf, access
  <2>3. Wakes'
    BY <1>0, <1>12 DEF LoadEarly, Wakes, NothingStuck, OwnTxIrq, txbuf, uart
  <2> QED BY <2>1, <2>2, <2>3
<1>13. CASE GetDone
  <2>1. TypeOK'
    BY <1>0, <1>13 DEF GetDone, TypeOK, Stages, txbuf, uart, sent, history
  <2>2. Places'
    BY <1>13 DEF GetDone, Places, txbuf
  <2>3. Wakes'
    BY <1>0, <1>13 DEF GetDone, Wakes, NothingStuck, OwnTxIrq, txbuf, uart
  <2> QED BY <2>1, <2>2, <2>3
<1>14. CASE SendByte
  <2>1. room - 1 \in 0..Room /\ zero \in Numbers
    BY <1>14, SendAssumption DEF SendByte, TypeOK, zero, Numbers
  <2>2. (inOrder /\ byte = last + 1) \in BOOLEAN
    OBVIOUS
  <2>3. TypeOK'
    BY <1>0, <1>14, <2>1, <2>2 DEF SendByte, Send, TypeOK, txbuf, access, history
  <2>4. Places'
    BY <1>14 DEF SendByte, Places, txbuf, access
  <2>5. Wakes'
    BY <1>0, <1>14 DEF SendByte, Wakes, NothingStuck, OwnTxIrq, txbuf
  <2> QED BY <2>3, <2>4, <2>5
<1> QED
  BY <1>1, <1>2, <1>3, <1>4, <1>5, <1>6, <1>7, <1>8, <1>9, <1>10, <1>11, <1>12, <1>13, <1>14
  DEF Main

LEMMA NextWake == WakeInv /\ [Next]_vars => WakeInv'
<1> SUFFICES ASSUME WakeInv, [Next]_vars PROVE WakeInv'
  OBVIOUS
<1> USE DEF WakeInv
<1>1. ASSUME NEW n \in 1..MaxMain, write(n) PROVE WakeInv'
  <2>1. /\ n \in Nat /\ n <= MaxMain /\ written \in Nat /\ written + n <= MaxWritten
        /\ written + n \in 0..MaxWritten
    BY <1>1, SendAssumption DEF write, TypeOK
  <2>2. Message(n) \in Seq(Numbers) /\ Len(Message(n)) <= MaxMain
    BY <2>1, MessageIs
  <2>3. TypeOK'
    BY <1>1, <2>1, <2>2 DEF write, TypeOK, txbuf, uart, sent, interrupt, access, history
  <2>4. Places'
    BY <1>1 DEF write, Places, txbuf, access
  <2>5. Wakes'
    BY <1>1 DEF write, Wakes, NothingStuck, OwnTxIrq, txbuf, uart, interrupt
  <2> QED BY <2>3, <2>4, <2>5
<1>2. ASSUME NEW n \in 1..MaxIrq, IrqWrite(n) PROVE WakeInv'
  <2>1. /\ n \in Nat /\ n <= MaxIrq /\ written \in Nat /\ written + n <= MaxWritten
        /\ written + n \in 0..MaxWritten
    BY <1>2, SendAssumption DEF IrqWrite, TypeOK
  <2>2. Message(n) \in Seq(Numbers) /\ Len(Message(n)) <= MaxIrq
    BY <2>1, MessageIs
  <2>3. TypeOK'
    BY <1>2, <2>1, <2>2 DEF IrqWrite, TypeOK, txbuf, uart, sent, main, access
  <2>4. Places'
    BY <1>2 DEF IrqWrite, Places, txbuf, main, access
  <2>5. Wakes'
    BY <1>2 DEF IrqWrite, Wakes, NothingStuck, OwnTxIrq, txbuf, uart, main
  <2> QED BY <2>3, <2>4, <2>5
<1>3. CASE TxInterrupt
  <2>1. TypeOK'
    BY <1>3 DEF TxInterrupt, Undisturbed, TypeOK, txbuf, uart, sent, main, access
  <2>2. Places'
    BY <1>3 DEF TxInterrupt, Places, txbuf, main, access
  <2>3. Wakes'
    BY <1>3 DEF TxInterrupt, Wakes, NothingStuck, OwnTxIrq, txbuf, uart, main
  <2> QED BY <2>1, <2>2, <2>3
<1>4. CASE IrqPut
  <2>1. /\ Head(ileft) \in Numbers /\ Tail(ileft) \in Seq(Numbers)
        /\ Len(Tail(ileft)) = Len(ileft) - 1 /\ Len(ileft) \in Nat
    BY <1>4, RestIs DEF IrqPut, TypeOK
  <2>2. Len(Tail(ileft)) <= MaxIrq
    BY <2>1, SendAssumption DEF TypeOK
  <2>3. Reduce(wloc + 1) \in Locations /\ Reduce(wloc + 1) \in Elements
    BY LocationIs DEF TypeOK
  <2>4. TypeOK'
    BY <1>4, <2>1, <2>2, <2>3 DEF IrqPut, TypeOK, uart, sent, main, access, history
  <2>5. Places'
    BY <1>4, <2>3 DEF IrqPut, Places, uart, main, access
  <2>6. Wakes'
    BY <1>4 DEF IrqPut, Wakes, NothingStuck, OwnTxIrq, uart, main
  <2> QED BY <2>4, <2>5, <2>6
<1>5. CASE IrqPrime
  <2>1. TypeOK'
    BY <1>5 DEF IrqPrime, TypeOK, txbuf, uart, sent, main, access, history
  <2>2. Places'
    BY <1>5 DEF IrqPrime, Places, txbuf, main, access
  <2>3. room > 0 \/ room = 0
    BY SendAssumption DEF TypeOK
  <2>4. Wakes'
    BY <1>5, <2>3 DEF IrqPrime, Wakes, NothingStuck, OwnTxIrq, txbuf, uart, main, zero
  <2> QED BY <2>1, <2>2, <2>4
<1>6. CASE IrqSend
  <2>1. buf[rloc] \in Numbers /\ room - 1 \in 0..Room
    BY <1>6, SendAssumption DEF IrqSend, TypeOK
  <2>2. Reduce(rloc + 1) \in Locations /\ Reduce(rloc + 1) \in Elements
    BY LocationIs DEF TypeOK
  <2>3. (inOrder /\ buf[rloc] = last + 1) \in BOOLEAN
    OBVIOUS
  <2>4. TypeOK'
    BY <1>6, <2>1, <2>2, <2>3 DEF IrqSend, Send, TypeOK, interrupt, main, access, history
  <2>5. Places'
    BY <1>6, <2>2 DEF IrqSend, Places, main, access
  <2>6. Wakes'
    BY <1>6 DEF IrqSend, Wakes, NothingStuck, OwnTxIrq, interrupt, main
  <2> QED BY <2>4, <2>5, <2>6
<1>7. CASE IrqSent
  <2>1. (handler = "prime" \/ room = 0) \in BOOLEAN
    OBVIOUS
  <2>2. TypeOK'
    BY <1>7, <2>1 DEF IrqSent, IrqReturns, TypeOK, txbuf, sent, main, access, history
  <2>3. Places'
    BY <1>7 DEF IrqSent, IrqReturns, Places, txbuf, main, access
  <2>4. room > 0 \/ room = 0
    BY SendAssumption DEF TypeOK
  <2>5. Wakes'
    BY <1>7, <2>4 DEF IrqSent, IrqReturns, Wakes, NothingStuck, OwnTxIrq, txbuf, sent, main
  <2> QED BY <2>2, <2>3, <2>5
<1>8. CASE Shift
  <2>1. room + 1 \in 0..Room /\ room + 1 > 0
    BY <1>8, SendAssumption DEF Shift, TypeOK
  <2>2. TypeOK'
    BY <1>8, <2>1 DEF Shift, TypeOK, txbuf, sent, interrupt, main, access, history
  <2>3. Places'
    BY <1>8 DEF Shift, Places, txbuf, main, access
  <2>4. Wakes'
    BY <1>8, <2>1 DEF Shift, Wakes, NothingStuck, OwnTxIrq, txbuf, interrupt, main
  <2> QED BY <2>2, <2>3, <2>4
<1>9. CASE Main
  BY <1>9, MainWake
<1>10. CASE UNCHANGED vars
  <2>1. TypeOK'
    BY <1>10 DEF vars, TypeOK, txbuf, uart, sent, interrupt, main, access, history
  <2>2. Places'
    BY <1>10 DEF vars, Places, txbuf, main, access
  <2>3. Wakes'
    BY <1>10 DEF vars, Wakes, NothingStuck, OwnTxIrq, txbuf, uart, interrupt, main
  <2> QED BY <2>1, <2>2, <2>3
<1> QED
  BY <1>1, <1>2, <1>3, <1>4, <1>5, <1>6, <1>7, <1>8, <1>9, <1>10 DEF Next, Handler

(* The locations and the room stay in bounds, and whatever the main program *)
(* and the interrupts have put into the software buffer leaves it: nothing  *)
(* waits with the transmit interrupt off once the main program is done, for *)
(* every size of the buffer and of the hardware's, and for messages of any  *)
(* length (BufferedSerial.cpp:103-156).                                     *)
THEOREM NothingIsStuck == Spec => []SendInv
<1>1. WakeInv => SendInv
  BY DEF WakeInv, Wakes, SendInv
<1> QED
  BY InitWake, NextWake, <1>1, PTL DEF Spec


(***************************************************************************)
(* Sending: the bytes                                                      *)
(***************************************************************************)

(* From r up to w the buffer holds the bytes after the g-th, the n-th last. *)
Ring(b, w, r, g, n) ==
  n = g + Held(w, r) /\ \A i \in 1..Held(w, r) : b[Element(r, i)] = g + i

Putting == pc = "put" /\ stage # "none"
Getting == pc = "get" /\ stage # "none"

(* The newest byte main has taken from its message.                         *)
newest == written - Len(left)

(* What lies in the buffer beside the byte main is putting or getting; and  *)
(* the byte being put finds the buffer full, or is sent already.            *)
InRing ==
  Ring(buf, IF Putting THEN pos ELSE wloc, IF Getting THEN Reduce(pos + 1) ELSE rloc,
       IF Getting \/ pc = "send" THEN last + 1 ELSE last,
       IF Putting THEN newest - 1 ELSE newest)

ComesRound == Putting /\ stage # "read" /\ Reduce(pos + 1) = rloc

Where(l) ==
  /\ stage = "read" => l = pos
  /\ stage \in {"written", "reducing"} => l = pos + 1
  /\ stage = "reducing" => loc = pos + 1
  /\ stage = "reduced" => l = Reduce(pos + 1)

(* While put is left alone.                                                 *)
Alone ==
  /\ ~shared /\ inOrder
  /\ handler \in {"none", "tx"} /\ (handler = "tx" => Undisturbed)
  /\ pc \in OwnTxIrq => ~attached /\ handler = "none"

(* The byte in main's hands.                                                *)
Hands ==
  /\ Len(left) <= written /\ \A i \in 1..Len(left) : left[i] = newest + i
  /\ pc # "put" => left = <<>>
  /\ Putting => /\ Where(wloc) /\ newest > 0
                /\ byte = newest \/ (byte = zero /\ buf[pos] = newest)
  /\ Getting => Where(rloc) /\ buf[pos] = last + 1 /\ byte \in {zero, last + 1}
  /\ pc = "get" /\ stage = "none" => wloc # rloc
  /\ pc = "send" => byte = last + 1
  /\ ~Putting /\ ~Getting /\ pc # "send" => byte = zero

InOrderInv == orderly => Alone /\ Hands /\ (ComesRound \/ InRing)

SendingInv == WakeInv /\ InOrderInv

(* Nothing is in a buffer whose locations are the same.                     *)
LEMMA RingEmpty ==
  ASSUME NEW b, NEW w \in Locations, NEW g \in Nat, NEW n \in Nat
  PROVE  Ring(b, w, w, g, n) <=> n = g
BY SizeAssumption DEF Ring, Held, Locations

(* One more byte, as long as it does not fill the buffer.                   *)
LEMMA RingPut ==
  ASSUME NEW b, NEW w \in Locations, NEW r \in Locations, NEW g \in Nat, NEW n \in Nat,
         Ring(b, w, r, g, n), b[w] = n + 1, Reduce(w + 1) # r
  PROVE  Ring(b, Reduce(w + 1), r, g, n + 1)
<1> DEFINE w2 == Reduce(w + 1)
           h == Held(w, r)
<1>1. w2 \in Locations /\ w2 = (IF w + 1 = Size - 1 THEN 0 ELSE w + 1)
  BY NextLocation
<1>2. Held(w2, r) = h + 1 /\ h \in Nat
  BY <1>1, SizeAssumption DEF Held, Locations
<1>3. Element(r, h + 1) = w
  BY SizeAssumption DEF Held, Locations, Element
<1> HIDE DEF w2, h
<1>4. n = g + h /\ \A i \in 1..h : b[Element(r, i)] = g + i
  BY DEF Ring, h
<1>5. n + 1 = g + (h + 1) /\ b[Element(r, h + 1)] = g + (h + 1)
  BY <1>2, <1>3, <1>4
<1>6. ASSUME NEW i \in 1..(h + 1) PROVE b[Element(r, i)] = g + i
  <2>1. CASE i = h + 1
    BY <1>5, <2>1
  <2>2. CASE i # h + 1
    BY <1>2, <1>4, <2>2
  <2> QED BY <2>1, <2>2
<1> QED
  BY <1>2, <1>5, <1>6 DEF Ring, w2

(* The oldest byte, and the others without it.                              *)
LEMMA RingGet ==
  ASSUME NEW b, NEW w \in Locations, NEW r \in Locations, NEW g \in Nat, NEW n \in Nat,
         Ring(b, w, r, g, n), w # r
  PROVE  b[r] = g + 1 /\ Ring(b, w, Reduce(r + 1), g + 1, n)
<1> DEFINE r2 == Reduce(r + 1)
           h == Held(w, r)
<1>1. r2 \in Locations /\ r2 = (IF r + 1 = Size - 1 THEN 0 ELSE r + 1)
  BY NextLocation
<1>2. Held(w, r2) = h - 1 /\ h \in Nat /\ h >= 1
  BY <1>1, SizeAssumption DEF Held, Locations
<1>3. \A i \in 1..(h - 1) : Element(r2, i) = Element(r, i + 1)
  BY <1>1, SizeAssumption DEF Held, Locations, Element
<1>4. Element(r, 1) = r
  BY SizeAssumption DEF Locations, Element
<1> HIDE DEF r2, h
<1>5. n = g + h /\ \A i \in 1..h : b[Element(r, i)] = g + i
  BY DEF Ring, h
<1>6. b[r] = g + 1
  BY <1>2, <1>4, <1>5
<1>7. ASSUME NEW i \in 1..(h - 1) PROVE b[Element(r2, i)] = g + 1 + i
  <2>1. i + 1 \in 1..h /\ Element(r2, i) = Element(r, i + 1)
    BY <1>2, <1>3
  <2>2. b[Element(r, i + 1)] = g + (i + 1)
    BY <1>5, <2>1
  <2> QED BY <1>2, <2>1, <2>2
<1>8. n = g + 1 + (h - 1)
  BY <1>2, <1>5
<1> QED
  BY <1>2, <1>6, <1>7, <1>8 DEF Ring, r2

(* The byte at the place of the next one is not in use.                     *)
LEMMA RingStore ==
  ASSUME NEW b \in [Elements -> Numbers], NEW w \in Locations, NEW r \in Locations,
         NEW g, NEW n, NEW e, Ring(b, w, r, g, n)
  PROVE  Ring([b EXCEPT ![w] = e], w, r, g, n)
<1> DEFINE h == Held(w, r)
           c == [b EXCEPT ![w] = e]
<1>1. h \in Nat
  BY SizeAssumption DEF Held, Locations
<1>2. \A i \in 1..h : Element(r, i) \in Elements \ {w}
  BY SizeAssumption DEF Held, Locations, Elements, Element
<1>3. \A i \in Elements \ {w} : c[i] = b[i]
  OBVIOUS
<1> HIDE DEF h, c
<1>4. n = g + h /\ \A i \in 1..h : b[Element(r, i)] = g + i
  BY DEF Ring, h
<1>5. \A i \in 1..h : c[Element(r, i)] = g + i
  BY <1>2, <1>3, <1>4
<1> QED
  BY <1>4, <1>5 DEF Ring, h, c

LEMMA InitInOrder == Init => InOrderInv
<1> SUFFICES ASSUME Init PROVE InOrderInv
  OBVIOUS
<1>1. 0 \in Locations
  BY LocationIs
<1>2. zero = 0 /\ Len(left) = 0 /\ written = 0 /\ newest = 0
  <2>1. zero = 0 /\ Len(left) = 0 /\ written = 0
    BY EmptySeq DEF Init, zero
  <2> QED BY <2>1 DEF newest
<1>3. Ring(buf, wloc, rloc, last, newest)
  BY <1>1, <1>2, RingEmpty DEF Init
<1>4. InRing
  BY <1>3 DEF Init, InRing, Putting, Getting
<1>5. Alone
  BY DEF Init, Alone, OwnTxIrq
<1>6. Hands
  BY <1>2 DEF Init, Hands, Putting, Getting
<1> QED
  BY <1>4, <1>5, <1>6 DEF InOrderInv

(* The numbers of the invariant.                                            *)
LEMMA NumbersAre ==
  ASSUME TypeOK, Hands
  PROVE  /\ written \in Nat /\ Len(left) \in Nat /\ newest \in Nat /\ last \in Nat
         /\ byte \in Nat /\ zero = 0 /\ zero \in Nat /\ room \in Nat
BY SendAssumption, LenProperties DEF TypeOK, Hands, newest, zero, Numbers

(* An interrupt's steps: it finds the bytes in order, or main's put is not  *)
(* orderly any more.                                                        *)
LEMMA TxInterruptInOrder ==
  ASSUME WakeInv, InOrderInv, TxInterrupt, orderly'
  PROVE  Alone' /\ Hands' /\ (ComesRound \/ InRing)'
<1> USE DEF WakeInv
<1>1. orderly /\ Undisturbed /\ Undisturbed'
  BY DEF TxInterrupt, Undisturbed, txbuf, main, access
<1>2. Alone /\ Hands /\ (ComesRound \/ InRing)
  BY <1>1 DEF InOrderInv
<1>3. /\ UNCHANGED <<buf, wloc, rloc, attached, last, inOrder, pc, left, stage, pos, loc, byte, written, shared>>
      /\ attached /\ handler' = "tx"
  BY DEF TxInterrupt, txbuf, uart, sent, main, access
<1>4. Alone'
  BY <1>1, <1>2, <1>3 DEF Alone
<1>5. Hands'
  BY <1>2, <1>3 DEF Hands, Where, Putting, Getting, newest
<1>6. (ComesRound \/ InRing)'
  BY <1>2, <1>3 DEF ComesRound, InRing, Putting, Getting, newest
<1> QED
  BY <1>4, <1>5, <1>6

LEMMA IrqSendInOrder ==
  ASSUME WakeInv, InOrderInv, IrqSend, orderly'
  PROVE  Alone' /\ Hands' /\ (ComesRound \/ InRing)'
<1> USE DEF WakeInv
<1>1. /\ UNCHANGED <<buf, wloc, attached, handler, ileft, pc, left, stage, pos, loc, byte, written, shared, orderly>>
      /\ rloc' = Reduce(rloc + 1) /\ last' = buf[rloc] /\ wloc # rloc
      /\ inOrder' = (inOrder /\ buf[rloc] = last + 1) /\ handler \in {"tx", "prime"}
  BY DEF IrqSend, Send, available, interrupt, main, access, history
<1>2. Alone /\ Hands /\ (ComesRound \/ InRing)
  BY <1>1 DEF InOrderInv
<1>3. handler = "tx" /\ Undisturbed /\ pc \notin OwnTxIrq
  BY <1>1, <1>2 DEF Alone
<1>4. ~Getting /\ pc # "send" /\ rloc \in Locations /\ rloc \in Elements
  BY <1>3, LocationIs DEF OwnTxIrq, Getting, Places
<1>5. newest \in Nat /\ last \in Nat /\ zero = 0
  BY <1>2, NumbersAre
<1>6. newest' = newest /\ (Putting' <=> Putting) /\ ~Getting'
  BY <1>1, <1>4 DEF newest, Putting, Getting
<1>7. ~ComesRound
  <2>1. SUFFICES ASSUME ComesRound PROVE FALSE
    OBVIOUS
  <2>2. pc = "put" /\ stage # "none" /\ stage # "read" /\ Reduce(pos + 1) = rloc /\ stage \in Stages
    BY <2>1 DEF ComesRound, Putting, TypeOK
  <2>3. wloc \in Locations /\ wloc \in Elements /\ Where(wloc) /\ pos \in Locations
    BY <1>2, <1>3, <2>2, LocationIs DEF Undisturbed, Stages, Hands, Putting, Places
  <2>4. wloc = Reduce(pos + 1)
    <3>1. CASE stage = "reduced"
      BY <2>3, <3>1 DEF Where
    <3>2. CASE stage # "reduced"
      <4>1. wloc = pos + 1
        BY <2>2, <2>3, <3>2 DEF Where, Stages
      <4>2. wloc # Size - 1
        BY <2>3, SizeAssumption DEF Locations
      <4> QED BY <2>3, <4>1, <4>2, ReduceIs
    <3> QED BY <3>1, <3>2
  <2> QED BY <1>1, <2>2, <2>4
<1>8. InRing
  BY <1>2, <1>7
<1>9. CASE ~Putting
  <2>1. Ring(buf, wloc, rloc, last, newest) /\ wloc \in Locations
    BY <1>4, <1>8, <1>9 DEF InRing, Putting, Places
  <2>2. buf[rloc] = last + 1 /\ Ring(buf, wloc, Reduce(rloc + 1), last + 1, newest)
    BY <1>1, <1>4, <1>5, <2>1, RingGet
  <2>3. InRing'
    BY <1>1, <1>4, <1>6, <1>9, <2>2 DEF InRing
  <2>4. Alone'
    BY <1>1, <1>2, <1>3, <2>2 DEF Alone, Undisturbed
  <2>5. Hands'
    <3>1. Len(left)' = Len(left) /\ \A i \in 1..Len(left) : left'[i] = newest' + i
      BY <1>1, <1>2, <1>6 DEF Hands
    <3>2. pc' # "get" /\ pc' # "send" /\ byte' = zero
      BY <1>1, <1>2, <1>3, <1>4, <1>9 DEF Hands, OwnTxIrq
    <3>3. (Len(left) <= written)' /\ (pc # "put" => left = <<>>)'
      BY <1>1, <1>2 DEF Hands
    <3> QED BY <1>6, <1>9, <3>1, <3>2, <3>3 DEF Hands
  <2> QED BY <2>3, <2>4, <2>5
<1>10. CASE Putting
  <2>1. pc = "put" /\ stage # "none" /\ pos \in Locations /\ newest - 1 \in Nat /\ newest > 0
    BY <1>2, <1>5, <1>10 DEF Putting, Hands, Places
  <2>2. Ring(buf, pos, rloc, last, newest - 1)
    BY <1>4, <1>8, <1>10, <2>1 DEF InRing
  <2>3. Hands'
    BY <1>1, <1>2, <1>4, <1>6, <2>1 DEF Hands, newest, Putting, Where
  <2>4. CASE pos # rloc
    <3>1. buf[rloc] = last + 1 /\ Ring(buf, pos, Reduce(rloc + 1), last + 1, newest - 1)
      BY <1>4, <1>5, <2>1, <2>2, <2>4, RingGet
    <3>2. InRing'
      BY <1>1, <1>4, <1>6, <1>10, <3>1 DEF InRing
    <3>3. Alone'
      BY <1>1, <1>2, <1>3, <3>1 DEF Alone, Undisturbed
    <3> QED BY <2>3, <3>2, <3>3
  <2>5. CASE pos = rloc
    <3>1. newest - 1 = last
      BY <1>4, <1>5, <2>1, <2>2, <2>5, RingEmpty
    <3>2. stage # "read"
      BY <1>1, <1>2, <1>10, <2>5 DEF Hands, Where
    <3>3. stage \in {"written", "reducing", "reduced"}
      BY <2>1, <3>2 DEF TypeOK, Stages
    <3>4. byte = zero
      BY <1>3, <2>1, <3>3 DEF Undisturbed
    <3>5. buf[rloc] = newest
      BY <1>2, <1>5, <1>10, <2>1, <2>5, <3>4 DEF Hands
    <3>6. buf[rloc] = last + 1
      BY <1>5, <3>1, <3>5
    <3>7. ComesRound'
      BY <1>1, <1>6, <1>10, <2>5, <3>2 DEF ComesRound
    <3>8. Alone'
      BY <1>1, <1>2, <1>3, <3>6 DEF Alone, Undisturbed
    <3> QED BY <2>3, <3>7, <3>8
  <2> QED BY <2>4, <2>5
<1> QED
  BY <1>9, <1>10

LEMMA IrqSentInOrder ==
  ASSUME WakeInv, InOrderInv, IrqSent, orderly'
  PROVE  Alone' /\ Hands' /\ (ComesRound \/ InRing)'
<1>1. /\ UNCHANGED <<buf, wloc, rloc, last, inOrder, pc, left, stage, pos, loc, byte, written, shared, orderly>>
      /\ handler \in {"tx", "prime"} /\ handler' = "none"
  BY DEF IrqSent, IrqReturns, txbuf, sent, main, access, history
<1>2. Alone /\ Hands /\ (ComesRound \/ InRing)
  BY <1>1 DEF InOrderInv
<1>3. Alone'
  BY <1>1, <1>2 DEF Alone
<1>4. Hands'
  BY <1>1, <1>2 DEF Hands, Where, Putting, Getting, newest
<1>5. (ComesRound \/ InRing)'
  BY <1>1, <1>2 DEF ComesRound, InRing, Putting, Getting, newest
<1> QED
  BY <1>3, <1>4, <1>5

LEMMA WriteInOrder ==
  ASSUME WakeInv, InOrderInv, NEW n \in 1..MaxMain, write(n), orderly'
  PROVE  Alone' /\ Hands' /\ (ComesRound \/ InRing)'
<1> USE DEF WakeInv
<1>1. /\ UNCHANGED <<buf, wloc, rloc, attached, last, inOrder, handler, stage, pos, loc, byte, shared, orderly>>
      /\ pc = "idle" /\ handler = "none" /\ pc' = "put"
      /\ left' = Message(n) /\ written' = written + n /\ written + n <= MaxWritten
  BY DEF write, txbuf, uart, sent, interrupt, access, history
<1>2. Alone /\ Hands /\ (ComesRound \/ InRing)
  BY <1>1 DEF InOrderInv
<1>3. n \in Nat /\ written \in Nat
  BY SendAssumption DEF TypeOK
<1>4. stage = "none" /\ ~Putting /\ ~Getting /\ ~Putting' /\ ~Getting' /\ byte = zero
  BY <1>1, <1>2 DEF Places, Putting, Getting, Hands
<1>5. Len(left') = n /\ \A i \in 1..n : left'[i] = written + i
  BY <1>1, <1>3, MessageIs
<1>6. newest = written /\ newest' = written
  <2>1. left = <<>>
    BY <1>1, <1>2 DEF Hands
  <2>2. Len(left) = 0
    BY <2>1, EmptySeq
  <2> QED BY <1>1, <1>3, <1>5, <2>2 DEF newest
<1>7. Alone'
  BY <1>1, <1>2 DEF Alone, OwnTxIrq
<1>8. Hands'
  <2>1. (Len(left) <= written)' /\ (\A i \in 1..Len(left) : left[i] = newest + i)'
    BY <1>1, <1>3, <1>5, <1>6
  <2> QED BY <1>1, <1>4, <2>1 DEF Hands
<1>9. InRing'
  BY <1>1, <1>2, <1>4, <1>6 DEF InRing, ComesRound
<1> QED
  BY <1>7, <1>8, <1>9

(* The main program's steps.  What all of them leave alone: the interrupts, *)
(* and how many bytes have been written.                                    *)
LEMMA NextByteInOrder ==
  ASSUME WakeInv, Alone, Hands, ComesRound \/ InRing, handler' = "none", written' = written, NextByte
  PROVE  Alone' /\ Hands' /\ (ComesRound \/ InRing)'
<1> USE DEF WakeInv
<1>1. /\ UNCHANGED <<buf, wloc, rloc, attached, last, inOrder, pc, loc, shared, orderly>>
      /\ pc = "put" /\ stage = "none" /\ left # <<>> /\ pos' = wloc /\ stage' = "read"
      /\ byte' = Head(left) /\ left' = Tail(left)
  BY DEF NextByte, txbuf, uart, sent, history
<1>2. ~Putting /\ ~Getting /\ Putting' /\ ~Getting' /\ wloc \in Locations
  BY <1>1 DEF Putting, Getting, Places
<1>3. written \in Nat /\ newest \in Nat
  BY NumbersAre
<1>4. /\ Head(left) = left[1] /\ Len(left') = Len(left) - 1 /\ Len(left) \in Nat \ {0}
      /\ \A i \in 1..Len(left') : left'[i] = left[i + 1]
  BY <1>1, RestIs DEF TypeOK
<1>5. newest' = newest + 1
  BY <1>3, <1>4 DEF newest
<1>6. Len(left) <= written /\ \A i \in 1..Len(left) : left[i] = newest + i
  BY DEF Hands
<1>7. byte' = newest'
  BY <1>1, <1>3, <1>4, <1>5, <1>6
<1>8. Len(left') <= written /\ \A i \in 1..Len(left') : left'[i] = newest' + i
  <2>1. Len(left') <= written
    BY <1>3, <1>4, <1>6
  <2>2. ASSUME NEW i \in 1..Len(left') PROVE left'[i] = newest' + i
    <3>1. i + 1 \in 1..Len(left) /\ left'[i] = left[i + 1]
      BY <1>4
    <3> QED BY <1>3, <1>5, <1>6, <3>1
  <2> QED BY <2>1, <2>2
<1>9. Alone'
  BY <1>1 DEF Alone, OwnTxIrq
<1>10. Hands'
  BY <1>1, <1>2, <1>3, <1>5, <1>7, <1>8 DEF Hands, Where
<1>11. InRing'
  <2>1. Ring(buf, wloc, rloc, last, newest)
    BY <1>1, <1>2 DEF InRing, ComesRound
  <2>2. newest' - 1 = newest
    BY <1>3, <1>5
  <2> QED BY <1>1, <1>2, <2>1, <2>2 DEF InRing
<1> QED
  BY <1>9, <1>10, <1>11

LEMMA StoreByteInOrder ==
  ASSUME WakeInv, Alone, Hands, ComesRound \/ InRing, handler' = "none", written' = written, StoreByte
  PROVE  Alone' /\ Hands' /\ (ComesRound \/ InRing)'
<1> USE DEF WakeInv
<1>1. /\ UNCHANGED <<wloc, rloc, attached, last, inOrder, pc, left, stage, pos, loc, shared, orderly>>
      /\ pc = "put" /\ stage # "none" /\ byte # zero
      /\ buf' = [buf EXCEPT ![pos] = byte] /\ byte' = zero
  BY DEF StoreByte, uart, sent, access, history
<1>2. /\ Putting /\ ~Getting /\ Putting' /\ ~Getting' /\ newest' = newest
      /\ pos \in Locations /\ pos \in Elements /\ byte = newest
  BY <1>1, LocationIs DEF Putting, Getting, Places, Hands, newest
<1>3. buf'[pos] = newest /\ buf \in [Elements -> Numbers]
  BY <1>1, <1>2 DEF TypeOK
<1>4. Alone'
  BY <1>1 DEF Alone, OwnTxIrq
<1>5. Hands'
  BY <1>1, <1>2, <1>3 DEF Hands, Where
<1>6. CASE ComesRound
  BY <1>1, <1>2, <1>4, <1>5, <1>6 DEF ComesRound
<1>7. CASE ~ComesRound
  <2>1. Ring(buf, pos, rloc, last, newest - 1) /\ rloc \in Locations
    BY <1>1, <1>2, <1>7 DEF InRing, Places
  <2>2. Ring(buf', pos, rloc, last, newest - 1)
    BY <1>1, <1>2, <1>3, <2>1, RingStore
  <2>3. InRing'
    BY <1>1, <1>2, <2>2 DEF InRing
  <2> QED BY <1>4, <1>5, <2>3
<1> QED
  BY <1>6, <1>7

LEMMA PutDoneInOrder ==
  ASSUME WakeInv, Alone, Hands, ComesRound \/ InRing, handler' = "none", written' = written, PutDone, orderly'
  PROVE  Alone' /\ Hands' /\ (ComesRound \/ InRing)'
<1> USE DEF WakeInv
<1>1. /\ UNCHANGED <<buf, wloc, rloc, attached, last, inOrder, pc, left, pos, loc, byte, shared>>
      /\ pc = "put" /\ stage = "reduced" /\ byte = zero /\ stage' = "none" /\ wloc # rloc
  BY DEF PutDone, txbuf, uart, sent
<1>2. /\ Putting /\ ~Getting /\ ~Putting' /\ ~Getting' /\ newest' = newest
      /\ pos \in Locations /\ wloc = Reduce(pos + 1) /\ rloc \in Locations
  BY <1>1 DEF Putting, Getting, Places, Hands, Where, newest
<1>3. newest \in Nat /\ newest - 1 \in Nat /\ last \in Nat /\ zero = 0 /\ buf[pos] = newest
  BY <1>1, <1>2, NumbersAre DEF Hands
<1>4. Alone'
  BY <1>1 DEF Alone, OwnTxIrq
<1>5. Hands'
  BY <1>1, <1>2 DEF Hands
<1>6. Ring(buf, pos, rloc, last, newest - 1)
  BY <1>1, <1>2 DEF InRing, ComesRound
<1>7. Ring(buf, wloc, rloc, last, newest)
  <2>1. buf[pos] = newest - 1 + 1 /\ newest - 1 + 1 = newest
    BY <1>3
  <2>2. Ring(buf, Reduce(pos + 1), rloc, last, newest - 1 + 1)
    BY <1>1, <1>2, <1>3, <1>6, <2>1, RingPut
  <2> QED BY <1>2, <2>1, <2>2
<1>8. InRing'
  BY <1>1, <1>2, <1>7 DEF InRing
<1> QED
  BY <1>4, <1>5, <1>8

(* The steps that move a location.                                          *)
LEMMA MoveInOrder ==
  ASSUME WakeInv, Alone, Hands, ComesRound \/ InRing, handler' = "none", written' = written,
         Increment \/ ReadAgain \/ WriteReduced
  PROVE  Alone' /\ Hands' /\ (ComesRound \/ InRing)'
<1> USE DEF WakeInv
<1>1. UNCHANGED <<buf, attached, last, inOrder, pc, left, pos, byte, shared, orderly>>
  BY DEF Increment, ReadAgain, WriteReduced, Move, txbuf, uart, sent, history
<1>2. pc \in {"put", "get"} /\ stage # "none" /\ stage' # "none" /\ stage' # "read"
  BY DEF Increment, ReadAgain, WriteReduced, Places
<1>3. /\ Putting <=> pc = "put"
      /\ Getting <=> pc = "get"
      /\ Putting' <=> Putting
      /\ Getting' <=> Getting
      /\ newest' = newest
  BY <1>1, <1>2 DEF Putting, Getting, newest
<1>4. pc = "put" => Where(wloc)' /\ rloc' = rloc
  BY <1>1, <1>3 DEF Increment, ReadAgain, WriteReduced, Move, Moved, Hands, Where, txbuf
<1>5. pc = "get" => Where(rloc)' /\ wloc' = wloc
  BY <1>1, <1>3 DEF Increment, ReadAgain, WriteReduced, Move, Moved, Hands, Where, txbuf
<1>6. Alone'
  BY <1>1 DEF Alone, OwnTxIrq
<1>7. Hands'
  BY <1>1, <1>2, <1>3, <1>4, <1>5 DEF Hands
<1>8. CASE ComesRound
  BY <1>1, <1>2, <1>3, <1>4, <1>6, <1>7, <1>8 DEF ComesRound
<1>9. CASE InRing
  <2>1. InRing'
    BY <1>1, <1>2, <1>3, <1>4, <1>5, <1>9 DEF InRing
  <2> QED BY <1>6, <1>7, <2>1
<1> QED
  BY <1>8, <1>9

(* Main's own txIrq takes a byte ...                                        *)
LEMMA ReadLocationInOrder ==
  ASSUME WakeInv, Alone, Hands, ComesRound \/ InRing, handler' = "none", written' = written, ReadLocation
  PROVE  Alone' /\ Hands' /\ (ComesRound \/ InRing)'
<1> USE DEF WakeInv
<1>1. /\ UNCHANGED <<buf, wloc, rloc, attached, last, inOrder, pc, left, loc, byte, shared, orderly>>
      /\ pc = "get" /\ stage = "none" /\ pos' = rloc /\ stage' = "read"
  BY DEF ReadLocation, txbuf, uart, sent, history
<1>2. /\ ~Putting /\ ~Getting /\ ~Putting' /\ Getting' /\ newest' = newest
      /\ wloc \in Locations /\ rloc \in Locations /\ wloc # rloc /\ byte = zero
  BY <1>1 DEF Putting, Getting, Places, Hands, newest
<1>3. newest \in Nat /\ last \in Nat
  BY NumbersAre
<1>4. Ring(buf, wloc, rloc, last, newest)
  BY <1>1, <1>2 DEF InRing, ComesRound
<1>5. buf[rloc] = last + 1 /\ Ring(buf, wloc, Reduce(rloc + 1), last + 1, newest)
  BY <1>2, <1>3, <1>4, RingGet
<1>6. Alone'
  BY <1>1 DEF Alone
<1>7. Hands'
  BY <1>1, <1>2, <1>5 DEF Hands, Where
<1>8. InRing'
  BY <1>1, <1>2, <1>5 DEF InRing
<1> QED
  BY <1>6, <1>7, <1>8

LEMMA LoadEarlyInOrder ==
  ASSUME WakeInv, Alone, Hands, ComesRound \/ InRing, handler' = "none", written' = written, LoadEarly
  PROVE  Alone' /\ Hands' /\ (ComesRound \/ InRing)'
<1>1. /\ UNCHANGED <<buf, wloc, rloc, attached, last, inOrder, pc, left, stage, pos, loc, shared, orderly>>
      /\ pc = "get" /\ stage = "read" /\ byte' = buf[pos]
  BY DEF LoadEarly, txbuf, uart, sent, access, history
<1>2. /\ ~Putting /\ Getting /\ ~Putting' /\ Getting' /\ newest' = newest
  BY <1>1 DEF Putting, Getting, newest
<1>3. Alone'
  BY <1>1 DEF Alone
<1>4. Hands'
  BY <1>1, <1>2 DEF Hands, Where
<1>5. InRing'
  BY <1>1, <1>2 DEF InRing, ComesRound
<1> QED
  BY <1>3, <1>4, <1>5

LEMMA GetDoneInOrder ==
  ASSUME WakeInv, Alone, Hands, ComesRound \/ InRing, handler' = "none", written' = written, GetDone
  PROVE  Alone' /\ Hands' /\ (ComesRound \/ InRing)'
<1>1. /\ UNCHANGED <<buf, wloc, rloc, attached, last, inOrder, left, pos, loc, shared, orderly>>
      /\ pc = "get" /\ stage = "reduced" /\ stage' = "none" /\ pc' = "send"
      /\ byte' = IF byte = zero THEN buf[pos] ELSE byte
  BY DEF GetDone, txbuf, uart, sent, history
<1>2. /\ ~Putting /\ Getting /\ ~Putting' /\ ~Getting' /\ newest' = newest
      /\ rloc = Reduce(pos + 1) /\ byte' = last + 1
  BY <1>1 DEF Putting, Getting, Hands, Where, newest
<1>3. Alone'
  BY <1>1 DEF Alone, OwnTxIrq
<1>4. Hands'
  BY <1>1, <1>2 DEF Hands
<1>5. InRing'
  BY <1>1, <1>2 DEF InRing, ComesRound
<1> QED
  BY <1>3, <1>4, <1>5

(* ... and sends it.                                                        *)
LEMMA SendByteInOrder ==
  ASSUME WakeInv, Alone, Hands, ComesRound \/ InRing, handler' = "none", written' = written, SendByte
  PROVE  Alone' /\ Hands' /\ (ComesRound \/ InRing)'
<1> USE DEF WakeInv
<1>1. /\ UNCHANGED <<buf, wloc, rloc, attached, left, stage, pos, loc, shared, orderly>>
      /\ pc = "send" /\ pc' = "loop" /\ byte' = zero
      /\ last' = byte /\ inOrder' = (inOrder /\ byte = last + 1)
  BY DEF SendByte, Send, txbuf, access, history
<1>2. /\ ~Putting /\ ~Getting /\ ~Putting' /\ ~Getting' /\ newest' = newest
      /\ byte = last + 1 /\ last' = last + 1
  BY <1>1 DEF Putting, Getting, Hands, newest
<1>3. Alone'
  BY <1>1, <1>2 DEF Alone, OwnTxIrq
<1>4. Hands'
  BY <1>1, <1>2 DEF Hands
<1>5. InRing'
  BY <1>1, <1>2 DEF InRing, ComesRound
<1> QED
  BY <1>3, <1>4, <1>5

(* The steps of the main program that only choose the next one.             *)
LEMMA ControlInOrder ==
  ASSUME WakeInv, Alone, Hands, ComesRound \/ InRing, handler = "none", handler' = "none",
         written' = written,
         \/ WrittenAll \/ Prime \/ Loop
         \/ Attach("detach", FALSE, "loop")
         \/ Attach("none", FALSE, "attach")
         \/ Attach("attach", TRUE, "idle")
  PROVE  Alone' /\ Hands' /\ (ComesRound \/ InRing)'
<1> USE DEF WakeInv
<1>1. UNCHANGED <<buf, wloc, rloc, last, inOrder, left, stage, pos, loc, byte, shared, orderly>>
  BY DEF WrittenAll, Prime, Loop, Attach, txbuf, uart, sent, access, history
<1>2. /\ \/ pc = "put" /\ stage = "none" /\ left = <<>> /\ pc' = "prime"
         \/ pc = "prime" /\ pc' \in {"detach", "idle"}
         \/ pc = "loop" /\ pc' = "get" /\ wloc # rloc
         \/ pc = "loop" /\ pc' \in {"attach", "none"}
         \/ pc = "detach" /\ pc' = "loop"
         \/ pc = "none" /\ pc' = "attach"
         \/ pc = "attach" /\ pc' = "idle"
      /\ pc' \in OwnTxIrq /\ attached' => pc \in OwnTxIrq /\ attached
  <2>1. CASE WrittenAll
    BY <2>1 DEF WrittenAll, OwnTxIrq
  <2>2. CASE Prime
    BY <2>2 DEF Prime, OwnTxIrq
  <2>3. CASE Loop
    BY <2>3 DEF Loop, OwnTxIrq, available, uart
  <2>4. CASE Attach("detach", FALSE, "loop")
    BY <2>4 DEF Attach, OwnTxIrq
  <2>5. CASE Attach("none", FALSE, "attach")
    BY <2>5 DEF Attach, OwnTxIrq
  <2>6. CASE Attach("attach", TRUE, "idle")
    BY <2>6 DEF Attach, OwnTxIrq
  <2> QED BY <2>1, <2>2, <2>3, <2>4, <2>5, <2>6
<1>3. /\ stage = "none" /\ ~Putting /\ ~Getting /\ ~Putting' /\ ~Getting' /\ newest' = newest
      /\ pc # "send" /\ pc' # "send" /\ left = <<>> /\ byte = zero
  BY <1>1, <1>2 DEF Putting, Getting, Places, Hands, newest
<1>4. Alone'
  BY <1>1, <1>2 DEF Alone
<1>5. Hands'
  BY <1>1, <1>2, <1>3 DEF Hands
<1>6. InRing'
  BY <1>1, <1>3 DEF InRing, ComesRound
<1> QED
  BY <1>4, <1>5, <1>6

LEMMA NextInOrder == WakeInv /\ InOrderInv /\ [Next]_vars => InOrderInv'
<1> SUFFICES ASSUME WakeInv, InOrderInv, [Next]_vars, orderly'
             PROVE  Alone' /\ Hands' /\ (ComesRound \/ InRing)'
  BY DEF InOrderInv
<1>1. ASSUME NEW n \in 1..MaxMain, write(n) PROVE Alone' /\ Hands' /\ (ComesRound \/ InRing)'
  BY <1>1, WriteInOrder
<1>2. ASSUME NEW n \in 1..MaxIrq, IrqWrite(n) PROVE FALSE
  BY <1>2 DEF IrqWrite
<1>3. CASE TxInterrupt
  BY <1>3, TxInterruptInOrder
<1>4. CASE IrqPut \/ IrqPrime
  <2>1. handler = "put" /\ orderly' = orderly
    BY <1>4 DEF IrqPut, IrqPrime, history
  <2> QED BY <2>1 DEF InOrderInv, Alone
<1>5. CASE IrqSend
  BY <1>5, IrqSendInOrder
<1>6. CASE IrqSent
  BY <1>6, IrqSentInOrder
<1>7. CASE Shift \/ UNCHANGED vars
  <2>1. UNCHANGED <<buf, wloc, rloc, attached, last, inOrder, handler, pc, left, stage, pos, loc, byte, written, shared, orderly>>
    BY <1>7 DEF Shift, vars, txbuf, uart, sent, interrupt, main, access, history
  <2>2. Alone /\ Hands /\ (ComesRound \/ InRing)
    BY <2>1 DEF InOrderInv
  <2>3. Alone'
    BY <2>1, <2>2 DEF Alone, Undisturbed
  <2>4. Hands'
    BY <2>1, <2>2 DEF Hands, Where, Putting, Getting, newest
  <2>5. (ComesRound \/ InRing)'
    BY <2>1, <2>2 DEF ComesRound, InRing, Putting, Getting, newest
  <2> QED BY <2>3, <2>4, <2>5
<1>8. CASE Main
  <2>1. handler = "none" /\ handler' = "none" /\ written' = written
    BY <1>8 DEF Main, interrupt
  <2>2. orderly
    BY <1>8 DEF Main, NextByte, WrittenAll, Increment, ReadAgain, WriteReduced, StoreByte,
       PutDone, Prime, Attach, Loop, ReadLocation, LoadEarly, GetDone, SendByte, history
  <2>3. Alone /\ Hands /\ (ComesRound \/ InRing)
    BY <2>2 DEF InOrderInv
  <2>4. CASE NextByte
    BY <2>1, <2>3, <2>4, NextByteInOrder
  <2>5. CASE StoreByte
    BY <2>1, <2>3, <2>5, StoreByteInOrder
  <2>6. CASE PutDone
    BY <2>1, <2>3, <2>6, PutDoneInOrder
  <2>7. CASE Increment \/ ReadAgain \/ WriteReduced
    BY <2>1, <2>3, <2>7, MoveInOrder
  <2>8. CASE ReadLocation
    BY <2>1, <2>3, <2>8, ReadLocationInOrder
  <2>9. CASE LoadEarly
    BY <2>1, <2>3, <2>9, LoadEarlyInOrder
  <2>10. CASE GetDone
    BY <2>1, <2>3, <2>10, GetDoneInOrder
  <2>11. CASE SendByte
    BY <2>1, <2>3, <2>11, SendByteInOrder
  <2>12. CASE \/ WrittenAll \/ Prime \/ Loop
              \/ Attach("detach", FALSE, "loop")
              \/ Attach("none", FALSE, "attach")
              \/ Attach("attach", TRUE, "idle")
    BY <2>1, <2>3, <2>12, ControlInOrder
  <2> QED
    BY <1>8, <2>4, <2>5, <2>6, <2>7, <2>8, <2>9, <2>10, <2>11, <2>12 DEF Main
<1> QED
  BY <1>1, <1>2, <1>3, <1>4, <1>5, <1>6, <1>7, <1>8 DEF Next, Handler

(* The bytes leave in the order they were written in, each of them once,    *)
(* however the transmit interrupt and the main program's own txIrq share    *)
(* them out, and round the end of a buffer of any size: as long as no       *)
(* interrupt logs, no put fills the buffer, and the transmit interrupt      *)
(* comes neither between put's two writes of its location nor before its    *)
(* byte is stored (BufferedSerial.cpp:103-156, MyBuffer.h:130-146).         *)
THEOREM SentInOrder == Spec => []InOrder
<1>1. InOrderInv => InOrder
  BY DEF InOrderInv, Alone, InOrder
<1> QED
  BY InitWake, NextWake, InitInOrder, NextInOrder, <1>1, PTL DEF Spec
=============================================================================
