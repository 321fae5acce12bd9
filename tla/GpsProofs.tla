------------------------------ MODULE GpsProofs ------------------------------
(***************************************************************************)
(* The way of a GPS position from the receiver into a beacon: the reader   *)
(* of the receiver's lines, for every length of the buffer, number of      *)
(* fields, kind of line and character, and the hand-over of a position to  *)
(* craft_packet, for any number of sentences and packets.                  *)
(***************************************************************************)
EXTENDS GpsLine, GpsFix, SequenceTheorems, FiniteSetTheorems, TLAPS

(***************************************************************************)
(* The reader of lines                                                     *)
(***************************************************************************)

(* While a line is cut: the part up to p has its cuts, and the fields found *)
(* begin after them; in the rest each cut is still a separator.             *)
CutsBefore(n) == {i \in Cuts : i <= n}
Starting == {argv[k] : k \in 1..Len(argv)} = {0} \cup CutsBefore(p)
Ordered ==
  /\ \A k, l \in 1..Len(argv) : k < l => argv[k] < argv[l]
  /\ \A k \in 1..Len(argv) : argv[k] <= p
Text ==
  /\ \A i \in 1..Len(line) :
       buf[i - 1] = IF i \in Cuts THEN IF i <= p THEN NUL ELSE "," ELSE line[i]
  /\ buf[bi] = NUL

Cutting ==
  /\ bi = Len(line) /\ bi < BufLen /\ p <= bi
  /\ Starting /\ Ordered /\ Text

IInv ==
  /\ TypeOK
  /\ HoldsLine
  /\ pc # "read" => Cutting
  /\ pc = "handle" => p = bi

(* Nothing is read and nothing is stored at the start.                      *)
LEMMA InitLine == Init => IInv
<1> SUFFICES ASSUME Init PROVE IInv
  OBVIOUS
<1> USE DEF Init, Locations
<1>1. /\ line = <<>> /\ Len(line) = 0 /\ line \in Seq(Chars)
      /\ argv = <<>> /\ Len(argv) = 0 /\ argv \in Seq(Locations)
  BY EmptySeq
<1>2. TypeOK
  BY <1>1, LineAssumption DEF TypeOK, LenAssumption, ArgcAssumption
<1>3. HoldsLine
  BY <1>1 DEF HoldsLine
<1> QED
  BY <1>2, <1>3 DEF IInv

(* A character goes to the buffer and to the line alike.                    *)
LEMMA ReceiveLine ==
  ASSUME IInv, NEW c \in Chars, Receive(c)
  PROVE  IInv'
<1> USE DEF Receive, Store, Locations
<1>0. TypeOK /\ BufLen \in Nat /\ Len(line) \in Nat /\ bi = Len(line)
  BY LineAssumption, LenProperties DEF IInv, TypeOK, HoldsLine, LenAssumption
<1>1. CASE Len(line) < BufLen
  <2>1. /\ line' = Append(line, c) /\ buf' = [buf EXCEPT ![bi] = c] /\ bi' = bi + 1
    BY <1>0, <1>1
  <2>2. /\ line' \in Seq(Chars) /\ Len(line') = Len(line) + 1
        /\ \A i \in 1..Len(line) : line'[i] = line[i]
        /\ line'[Len(line) + 1] = c
    BY <1>0, <2>1, AppendProperties DEF TypeOK
  <2>3. bi \in Locations /\ buf' \in [Locations -> Chars \cup {NUL}]
    BY <1>0, <1>1, <2>1 DEF TypeOK
  <2>4. TypeOK'
    BY <1>0, <1>1, <2>1, <2>2, <2>3 DEF TypeOK
  <2>5. ASSUME NEW i \in 1..Len(line')
        PROVE  buf'[i - 1] = line'[i]
    <3>1. CASE i = Len(line) + 1
      BY <1>0, <1>1, <2>1, <2>2, <2>3, <3>1 DEF TypeOK
    <3>2. CASE i \in 1..Len(line)
      <4>1. buf[i - 1] = line[i]
        BY <3>2 DEF IInv, HoldsLine, Receive
      <4>2. i - 1 \in Locations /\ i - 1 # bi
        BY <1>0, <1>1, <3>2
      <4> QED
        BY <1>0, <2>1, <2>2, <3>2, <4>1, <4>2 DEF TypeOK
    <3> QED
      BY <1>0, <2>2, <3>1, <3>2
  <2>6. HoldsLine'
    BY <1>0, <2>1, <2>2, <2>5 DEF HoldsLine
  <2> QED
    BY <2>4, <2>6 DEF IInv
<1>2. CASE ~(Len(line) < BufLen)
  <2>1. UNCHANGED vars
    BY <1>0, <1>2 DEF vars
  <2> QED
    BY <2>1 DEF IInv, TypeOK, HoldsLine, vars
<1> QED
  BY <1>1, <1>2

(* The end of a line: the last star becomes a comma, and no field but the   *)
(* first has been found.                                                    *)
LEMMA NewLineLine ==
  ASSUME IInv, NewLine
  PROVE  IInv'
<1> USE DEF Locations
<1> DEFINE ended == [buf EXCEPT ![bi] = NUL]
           known == \E start \in Starts : StartsWith(ended, start)
<1>0. /\ TypeOK /\ BufLen \in Nat /\ BufLen >= 1 /\ argcMax \in Nat /\ argcMax >= 1
      /\ Len(line) \in Nat /\ pc = "read" /\ bi = Len(line)
      /\ \A i \in 1..Len(line) : buf[i - 1] = line[i]
  BY LineAssumption, LenProperties
  DEF IInv, TypeOK, HoldsLine, LenAssumption, ArgcAssumption, NewLine
<1>1. CASE bi < BufLen /\ known
  <2>1. /\ buf' = MarkLast(ended, bi)
        /\ pc' = "parse" /\ p' = 0 /\ bi' = bi /\ line' = line
    BY <1>1 DEF NewLine
  <2>2. /\ argv' \in Seq(Locations) /\ Len(argv') = 1 /\ argv'[1] = 0
    <3>1. argv' = <<0>>
      BY <1>1 DEF NewLine
    <3>2. 0 \in Locations
      BY <1>0
    <3> QED
      BY <3>1, <3>2
  <2>3. bi \in Locations /\ ended \in [Locations -> Chars \cup {NUL}]
    BY <1>0, <1>1 DEF TypeOK
  <2>4. \A i \in 1..Len(line) : ended[i - 1] = line[i] /\ i - 1 \in Locations
    BY <1>0, <1>1 DEF TypeOK
  <2>5. ASSUME NEW i \in 1..Len(line)
        PROVE  buf'[i - 1] = IF i \in Cuts THEN "," ELSE line[i]
    <3>1. buf'[i - 1] = IF i - 1 < bi /\ ended[i - 1] = "*"
                           /\ (\A j \in i - 1 + 1..bi - 1 : ended[j] # "*")
                        THEN "," ELSE ended[i - 1]
      BY <2>1, <2>4 DEF MarkLast
    <3>2. (\A j \in i - 1 + 1..bi - 1 : ended[j] # "*")
            <=> (\A j \in i + 1..Len(line) : line[j] # "*")
      <4>1. ASSUME NEW j \in i - 1 + 1..bi - 1
            PROVE  j + 1 \in i + 1..Len(line) /\ ended[j] = line[j + 1]
        <5>1. j + 1 \in i + 1..Len(line) /\ j + 1 \in 1..Len(line) /\ j + 1 - 1 = j
          BY <1>0
        <5> QED
          BY <5>1, <2>4
      <4>2. ASSUME NEW j \in i + 1..Len(line)
            PROVE  j - 1 \in i - 1 + 1..bi - 1 /\ ended[j - 1] = line[j]
        <5>1. j \in 1..Len(line) /\ j - 1 \in i - 1 + 1..bi - 1
          BY <1>0
        <5> QED
          BY <5>1, <2>4
      <4> QED
        BY <4>1, <4>2
    <3>3. i - 1 < bi /\ ended[i - 1] = line[i]
      BY <1>0, <2>4
    <3>4. CASE i \in Cuts
      BY <3>1, <3>2, <3>3, <3>4 DEF Cuts
    <3>5. CASE i \notin Cuts
      BY <3>1, <3>2, <3>3, <3>5 DEF Cuts
    <3> QED
      BY <3>4, <3>5
  <2>6. buf' \in [Locations -> Chars \cup {NUL}] /\ buf'[bi] = NUL
    BY <1>0, <2>1, <2>3, LineAssumption DEF MarkLast, CharsAssumption
  <2>7. TypeOK'
    <3>1. bi' \in 0..BufLen /\ p' \in Locations /\ pc' \in {"read", "parse", "handle"}
      BY <1>0, <2>1 DEF TypeOK
    <3>2. Len(argv') <= argcMax
      BY <1>0, <2>2
    <3> QED
      BY <1>0, <2>1, <2>2, <2>6, <3>1, <3>2 DEF TypeOK
  <2>8. Starting'
    <3>1. CutsBefore(p)' = {}
      <4>1. Cuts' \subseteq 1..Len(line)
        BY <2>1 DEF Cuts
      <4>2. \A i \in Cuts' : ~(i <= 0)
        BY <4>1
      <4> QED
        BY <2>1, <4>2 DEF CutsBefore
    <3> QED
      BY <2>2, <3>1 DEF Starting
  <2>9. Ordered'
    BY <2>1, <2>2 DEF Ordered
  <2>10. Text'
    <3>1. Cuts' = Cuts
      BY <2>1 DEF Cuts
    <3> QED
      <4>1. ASSUME NEW i \in 1..Len(line)
            PROVE  buf'[i - 1] = IF i \in Cuts THEN IF i <= 0 THEN NUL ELSE "," ELSE line[i]
        <5>1. ~(i <= 0)
          BY <1>0
        <5> QED
          BY <2>5, <5>1
      <4> QED
        BY <2>1, <2>6, <3>1, <4>1 DEF Text
  <2>11. Cutting'
    BY <1>0, <1>1, <2>1, <2>8, <2>9, <2>10 DEF Cutting
  <2> QED
    BY <2>1, <2>7, <2>11 DEF IInv, HoldsLine
<1>2. CASE ~(bi < BufLen /\ known)
  <2>1. /\ buf' = IF bi < BufLen THEN ended ELSE buf
        /\ bi' = 0 /\ line' = <<>> /\ UNCHANGED <<pc, p, argv>>
    BY <1>2 DEF NewLine
  <2>2. line' \in Seq(Chars) /\ Len(line') = 0
    BY <2>1, EmptySeq
  <2>3. buf' \in [Locations -> Chars \cup {NUL}]
    BY <1>0, <2>1 DEF TypeOK
  <2>4. TypeOK'
    BY <1>0, <2>1, <2>2, <2>3 DEF TypeOK
  <2> QED
    BY <1>0, <2>1, <2>2, <2>4 DEF IInv, HoldsLine
<1> QED
  BY <1>1, <1>2

(* What holds while a line is cut.                                          *)
LEMMA CuttingFacts ==
  ASSUME IInv, pc # "read"
  PROVE  /\ TypeOK /\ Cutting
         /\ BufLen \in Nat /\ argcMax \in Nat /\ argcMax >= 1
         /\ bi \in Nat /\ Len(line) \in Nat /\ Len(argv) \in Nat
         /\ p \in 0..bi /\ p \in Locations
         /\ \A i \in 1..Len(line) : line[i] \in Chars
         /\ NUL \notin Chars /\ "," \in Chars
<1>1. TypeOK /\ Cutting
  BY DEF IInv
<1>2. \A i \in 1..Len(line) : line[i] \in Chars
  BY <1>1, ElementOfSeq DEF TypeOK
<1>3. BufLen \in Nat /\ argcMax \in Nat /\ argcMax >= 1
  BY LineAssumption DEF LenAssumption, ArgcAssumption
<1>4. line \in Seq(Chars) /\ argv \in Seq(Locations) /\ p \in Locations /\ bi \in 0..BufLen
  BY <1>1 DEF TypeOK
<1>5. Len(line) \in Nat /\ Len(argv) \in Nat
  BY <1>4, LenProperties
<1>6. bi \in Nat /\ p \in Nat
  BY <1>3, <1>4 DEF Locations
<1>7. p \in 0..bi
  BY <1>1, <1>6 DEF Cutting
<1> QED
  BY <1>1, <1>2, <1>3, <1>4, <1>5, <1>6, <1>7, LineAssumption DEF CharsAssumption

(* After a line nothing is stored.                                          *)
LEMMA ReturnLine ==
  ASSUME Return, BufLen \in Nat, argcMax \in Nat,
         p \in Locations, buf' \in [Locations -> Chars \cup {NUL}]
  PROVE  IInv'
<1>1. /\ line' \in Seq(Chars) /\ Len(line') = 0
      /\ argv' \in Seq(Locations) /\ Len(argv') = 0
  BY EmptySeq DEF Return
<1>2. /\ pc' = "read" /\ bi' = 0 /\ p' = 0 /\ 0 \in Locations
  BY DEF Return, Locations
<1>3. TypeOK'
  BY <1>1, <1>2 DEF TypeOK
<1> QED
  BY <1>1, <1>2, <1>3 DEF IInv, HoldsLine

(* Up to the next character there is one cut more, if it is one.            *)
LEMMA CutsNext ==
  ASSUME NEW n \in Nat, Len(line) \in Nat
  PROVE  CutsBefore(n + 1) = CutsBefore(n) \cup (IF n + 1 \in Cuts THEN {n + 1} ELSE {})
<1>1. Cuts \subseteq 1..Len(line)
  BY DEF Cuts
<1>2. \A i \in Cuts : i \in Nat /\ (i <= n + 1 <=> i <= n \/ i = n + 1)
  BY <1>1
<1> QED
  BY <1>2 DEF CutsBefore

(* A character that is no separator is no cut.                              *)
LEMMA SkipLine ==
  ASSUME IInv, Skip
  PROVE  IInv'
<1>0. /\ pc = "parse" /\ buf[p] \notin {NUL, ","} /\ p' = p + 1
      /\ UNCHANGED <<buf, bi, pc, argv, line>>
  BY DEF Skip
<1>1. /\ TypeOK /\ Cutting /\ BufLen \in Nat /\ bi \in Nat /\ Len(line) \in Nat
      /\ p \in 0..bi /\ Len(argv) \in Nat
  BY <1>0, CuttingFacts
<1>2. p < bi /\ p + 1 \in 1..Len(line) /\ p + 1 \in Locations
  <2>1. bi = Len(line) /\ bi < BufLen /\ buf[bi] = NUL
    BY <1>1 DEF Cutting, Text
  <2>2. p # bi
    BY <1>0, <2>1
  <2> QED
    BY <1>1, <2>1, <2>2 DEF Locations
<1>3. p + 1 \notin Cuts
  <2> SUFFICES ASSUME NEW q \in 1..Len(line), q = p + 1, q \in Cuts PROVE FALSE
    BY <1>2
  <2>1. ~(q <= p) /\ q - 1 = p
    BY <1>1
  <2>2. buf[q - 1] = ","
    BY <1>1, <2>1 DEF Cutting, Text
  <2> QED
    BY <1>0, <2>1, <2>2
<1>4. TypeOK'
  BY <1>0, <1>1, <1>2 DEF TypeOK
<1>5. Cuts' = Cuts
  BY <1>0 DEF Cuts
<1>6. Starting'
  <2>1. CutsBefore(p + 1) = CutsBefore(p)
    <3>1. p \in Nat
      BY <1>1
    <3>2. CutsBefore(p + 1) = CutsBefore(p) \cup (IF p + 1 \in Cuts THEN {p + 1} ELSE {})
      BY <1>1, <3>1, CutsNext
    <3> QED
      BY <1>3, <3>2
  <2>2. CutsBefore(p)' = CutsBefore(p + 1)
    BY <1>0, <1>5 DEF CutsBefore
  <2> QED
    BY <1>0, <1>1, <2>1, <2>2 DEF Cutting, Starting
<1>7. Ordered'
  <2>1. argv \in Seq(Locations) /\ \A k \in 1..Len(argv) : argv[k] \in Locations
    BY <1>1, ElementOfSeq DEF TypeOK
  <2> QED
    <3>1. Ordered
      BY <1>1 DEF Cutting
    <3>2. \A k \in 1..Len(argv) : argv[k] <= p + 1
      BY <1>1, <1>2, <2>1, <3>1 DEF Ordered, Locations
    <3> QED
      BY <1>0, <3>1, <3>2 DEF Ordered
<1>8. Text'
  <2>1. ASSUME NEW i \in 1..Len(line)
        PROVE  buf[i - 1] = IF i \in Cuts THEN IF i <= p + 1 THEN NUL ELSE "," ELSE line[i]
    <3>1. CASE i \in Cuts
      <4>1. i # p + 1 /\ (i <= p + 1 <=> i <= p)
        BY <1>1, <1>3, <3>1
      <4>2. buf[i - 1] = IF i <= p THEN NUL ELSE ","
        BY <1>1, <3>1 DEF Cutting, Text
      <4> QED
        BY <3>1, <4>1, <4>2
    <3>2. CASE i \notin Cuts
      BY <1>1, <3>2 DEF Cutting, Text
    <3> QED
      BY <3>1, <3>2
  <2> QED
    BY <1>0, <1>1, <1>5, <2>1 DEF Cutting, Text
<1>9. Cutting'
  <2>1. bi = Len(line) /\ bi < BufLen
    BY <1>1 DEF Cutting
  <2> QED
    <3>1. bi' = Len(line') /\ bi' < BufLen /\ p' <= bi'
      <4>1. p' = p + 1 /\ bi' = bi /\ line' = line
        BY <1>0
      <4>2. p + 1 <= bi
        BY <1>1, <1>2
      <4> QED
        BY <2>1, <4>1, <4>2
    <3> QED
      BY <1>6, <1>7, <1>8, <3>1 DEF Cutting
<1> QED
  BY <1>0, <1>4, <1>9 DEF IInv, HoldsLine

(* A separator ends the field and begins one, or the line is given up.      *)
LEMMA CutLine ==
  ASSUME IInv, Cut
  PROVE  IInv'
<1>0. /\ pc = "parse" /\ buf[p] = "," /\ buf' = [buf EXCEPT ![p] = NUL]
  BY DEF Cut
<1>1. /\ TypeOK /\ Cutting /\ BufLen \in Nat /\ bi \in Nat /\ Len(line) \in Nat
      /\ p \in 0..bi /\ p \in Locations /\ Len(argv) \in Nat
      /\ argcMax \in Nat
  BY <1>0, CuttingFacts
<1>5. buf[p] # NUL
  BY <1>0, CuttingFacts
<1>2. buf' \in [Locations -> Chars \cup {NUL}]
  BY <1>0, <1>1 DEF TypeOK
<1>3. CASE Len(argv) >= argcMax
  <2>1. Return
    BY <1>3 DEF Cut
  <2> QED
    BY <1>1, <1>2, <2>1, ReturnLine
<1>4. CASE ~(Len(argv) >= argcMax)
  <2>1. argv' = Append(argv, p + 1) /\ p' = p + 1 /\ UNCHANGED <<pc, bi, line>>
    BY <1>4 DEF Cut
  <2>2. p < bi /\ p + 1 \in 1..Len(line) /\ p + 1 \in Locations
    <3>1. bi = Len(line) /\ bi < BufLen /\ buf[bi] = NUL
      BY <1>1 DEF Cutting, Text
    <3>2. p # bi
      BY <3>1, <1>5
    <3> QED
      BY <1>1, <3>1, <3>2 DEF Locations
  <2>3. p + 1 \in Cuts
    <3> SUFFICES ASSUME NEW q \in 1..Len(line), q = p + 1, q \notin Cuts PROVE FALSE
      BY <2>2
    <3>1. q - 1 = p
      BY <1>1
    <3>2. buf[q - 1] = line[q]
      BY <1>1 DEF Cutting, Text
    <3>3. line[q] # ","
      BY DEF Cuts
    <3> QED
      BY <1>0, <3>1, <3>2, <3>3
  <2>4. /\ argv \in Seq(Locations) /\ argv' \in Seq(Locations)
        /\ Len(argv') = Len(argv) + 1
        /\ \A k \in 1..Len(argv) : argv'[k] = argv[k] /\ argv[k] \in Locations
        /\ argv'[Len(argv) + 1] = p + 1
    <3>1. argv \in Seq(Locations)
      BY <1>1 DEF TypeOK
    <3> QED
      BY <2>1, <2>2, <3>1, AppendProperties, ElementOfSeq
  <2>5. TypeOK'
    BY <1>1, <1>2, <1>4, <2>1, <2>2, <2>4 DEF TypeOK
  <2>6. Cuts' = Cuts
    BY <2>1 DEF Cuts
  <2>7. Starting'
    <3>1. CutsBefore(p + 1) = CutsBefore(p) \cup {p + 1}
      <4>1. p \in Nat
        BY <1>1
      <4>2. CutsBefore(p + 1) = CutsBefore(p) \cup (IF p + 1 \in Cuts THEN {p + 1} ELSE {})
        BY <1>1, <4>1, CutsNext
      <4> QED
        BY <2>3, <4>2
    <3>2. CutsBefore(p)' = CutsBefore(p + 1)
      BY <2>1, <2>6 DEF CutsBefore
    <3>3. {argv'[k] : k \in 1..Len(argv')} = {argv[k] : k \in 1..Len(argv)} \cup {p + 1}
      BY <1>1, <2>4
    <3>4. Starting
      BY <1>1 DEF Cutting
    <3> QED
      BY <3>1, <3>2, <3>3, <3>4 DEF Starting
  <2>8. Ordered'
    <3>1. Ordered
      BY <1>1 DEF Cutting
    <3>2. \A k \in 1..Len(argv) : argv[k] < p + 1
      BY <1>1, <2>4, <3>1 DEF Ordered, Locations
    <3>3. ASSUME NEW k \in 1..Len(argv'), NEW l \in 1..Len(argv'), k < l
          PROVE  argv'[k] < argv'[l]
      <4>1. k \in 1..Len(argv)
        BY <1>1, <2>4, <3>3
      <4>2. CASE l = Len(argv) + 1
        BY <2>4, <3>2, <4>1, <4>2
      <4>3. CASE l \in 1..Len(argv)
        BY <2>4, <3>1, <3>3, <4>1, <4>3 DEF Ordered
      <4> QED
        BY <1>1, <2>4, <4>2, <4>3
    <3>4. ASSUME NEW k \in 1..Len(argv')
          PROVE  argv'[k] <= p'
      <4>1. CASE k = Len(argv) + 1
        BY <1>1, <2>1, <2>4, <4>1
      <4>2. CASE k \in 1..Len(argv)
        <5>1. argv'[k] < p + 1 /\ argv'[k] \in Locations
          BY <2>4, <3>2, <4>2
        <5> QED
          BY <1>1, <2>1, <5>1 DEF Locations
      <4> QED
        BY <1>1, <2>4, <4>1, <4>2
    <3> QED
      BY <3>3, <3>4 DEF Ordered
  <2>9. Text'
    <3>1. ASSUME NEW i \in 1..Len(line)
          PROVE  buf'[i - 1] = IF i \in Cuts THEN IF i <= p + 1 THEN NUL ELSE "," ELSE line[i]
      <4>1. buf[i - 1] = IF i \in Cuts THEN IF i <= p THEN NUL ELSE "," ELSE line[i]
        BY <1>1 DEF Cutting, Text
      <4>2. CASE i = p + 1
        <5>1. i - 1 = p /\ i <= p + 1 /\ i \in Cuts
          BY <1>1, <2>3, <4>2
        <5>2. buf'[p] = NUL
          BY <1>0, <1>1 DEF TypeOK
        <5> QED
          BY <5>1, <5>2
      <4>3. CASE i # p + 1
        <5>1. i - 1 # p /\ i - 1 \in Locations /\ (i <= p + 1 <=> i <= p)
          BY <1>1, <4>3 DEF Cutting, Locations
        <5>2. buf'[i - 1] = buf[i - 1]
          BY <1>0, <1>1, <5>1 DEF TypeOK
        <5> QED
          BY <4>1, <5>1, <5>2
      <4> QED
        BY <4>2, <4>3
    <3>2. buf'[bi] = NUL
      <4>1. buf[bi] = NUL
        BY <1>1 DEF Cutting, Text
      <4>2. bi \in Locations
        BY <1>1 DEF Cutting, Locations
      <4> QED
        BY <1>0, <1>1, <4>1, <4>2 DEF TypeOK
    <3> QED
      BY <2>1, <2>6, <3>1, <3>2 DEF Text
  <2>10. Cutting'
    <3>1. bi' = Len(line') /\ bi' < BufLen /\ p' <= bi'
      BY <1>1, <2>1, <2>2 DEF Cutting
    <3> QED
      BY <2>7, <2>8, <2>9, <3>1 DEF Cutting
  <2> QED
    BY <1>0, <2>1, <2>5, <2>10 DEF IInv, HoldsLine
<1> QED
  BY <1>3, <1>4

(* The terminator ends the parse, and there is none before it.              *)
LEMMA ParsedLine ==
  ASSUME IInv, Parsed
  PROVE  IInv'
<1>0. /\ pc = "parse" /\ buf[p] = NUL /\ pc' = "handle"
      /\ UNCHANGED <<buf, bi, p, argv, line>>
  BY DEF Parsed
<1>1. /\ TypeOK /\ Cutting /\ bi \in Nat /\ Len(line) \in Nat /\ p \in 0..bi
  BY <1>0, CuttingFacts
<1>2. NUL # "," /\ \A i \in 1..Len(line) : line[i] # NUL
  BY <1>0, CuttingFacts
<1>3. p = bi
  <2> SUFFICES ASSUME p # bi PROVE FALSE
    OBVIOUS
  <2>1. bi = Len(line)
    BY <1>1 DEF Cutting
  <2>2. PICK q \in 1..Len(line) : q = p + 1
    BY <1>1, <2>1
  <2>3. ~(q <= p) /\ q - 1 = p
    BY <1>1, <2>2
  <2>4. buf[q - 1] = IF q \in Cuts THEN "," ELSE line[q]
    BY <1>1, <2>3 DEF Cutting, Text
  <2> QED
    BY <1>0, <1>2, <2>3, <2>4
<1>4. TypeOK' /\ Cutting'
  <2>1. Cuts' = Cuts /\ CutsBefore(p)' = CutsBefore(p)
    BY <1>0 DEF Cuts, CutsBefore
  <2>2. Starting' /\ Ordered' /\ Text'
    BY <1>0, <1>1, <2>1 DEF Cutting, Starting, Ordered, Text
  <2> QED
    BY <1>0, <1>1, <2>2 DEF Cutting, TypeOK
<1> QED
  BY <1>0, <1>3, <1>4 DEF IInv, HoldsLine

(* Every step keeps the invariant.                                          *)
LEMMA NextLine == IInv /\ [Next]_vars => IInv'
<1> SUFFICES ASSUME IInv, [Next]_vars PROVE IInv'
  OBVIOUS
<1>1. ASSUME NEW c \in Chars, Receive(c) PROVE IInv'
  BY <1>1, ReceiveLine
<1>2. CASE NewLine
  BY <1>2, NewLineLine
<1>3. CASE Skip
  BY <1>3, SkipLine
<1>4. CASE Cut
  BY <1>4, CutLine
<1>5. CASE Parsed
  BY <1>5, ParsedLine
<1>6. CASE Handle
  <2>1. pc # "read" /\ Return /\ buf' = buf
    BY <1>6 DEF Handle
  <2>2. /\ BufLen \in Nat /\ argcMax \in Nat /\ p \in Locations
        /\ buf' \in [Locations -> Chars \cup {NUL}]
    BY <2>1, CuttingFacts DEF TypeOK
  <2> QED
    BY <2>1, <2>2, ReturnLine
<1>7. CASE UNCHANGED vars
  <2>1. Cuts' = Cuts /\ CutsBefore(p)' = CutsBefore(p)
    BY <1>7 DEF Cuts, CutsBefore, vars
  <2>2. Cutting' <=> Cutting
    BY <1>7, <2>1 DEF Cutting, Starting, Ordered, Text, vars
  <2>3. TypeOK' /\ HoldsLine'
    BY <1>7 DEF IInv, TypeOK, HoldsLine, vars
  <2> QED
    BY <1>7, <2>2, <2>3 DEF IInv, vars
<1> QED
  BY <1>1, <1>2, <1>3, <1>4, <1>5, <1>6, <1>7 DEF Next, CarriageReturn

(* What the handler is given follows from the invariant when p is at the    *)
(* terminator.                                                              *)
LEMMA HandledFields == IInv => FieldsOfLine
<1> SUFFICES ASSUME IInv, pc = "handle" PROVE FieldsOfLine
  BY DEF FieldsOfLine
<1>1. /\ TypeOK /\ Cutting /\ Len(line) \in Nat
  BY CuttingFacts
<1>2. p = bi /\ bi = Len(line) /\ bi < BufLen
  BY <1>1 DEF IInv, Cutting
<1>3. Cuts \subseteq 1..Len(line)
  BY DEF Cuts
<1>4. CutsBefore(p) = Cuts
  <2>1. \A i \in Cuts : i <= p
    BY <1>1, <1>2, <1>3
  <2> QED
    BY <2>1 DEF CutsBefore
<1>5. \A i \in 1..Len(line) : buf[i - 1] = IF i \in Cuts THEN NUL ELSE line[i]
  <2> SUFFICES ASSUME NEW i \in 1..Len(line)
               PROVE  buf[i - 1] = IF i \in Cuts THEN NUL ELSE line[i]
    OBVIOUS
  <2>1. i <= p
    BY <1>2
  <2> QED
    BY <1>1, <2>1 DEF Cutting, Text
<1>6. Starting /\ Ordered /\ buf[Len(line)] = NUL
  BY <1>1, <1>2 DEF Cutting, Text
<1> QED
  BY <1>2, <1>4, <1>5, <1>6 DEF FieldsOfLine, Starting, Ordered

(* No character is ever stored, and no location read, outside the buffer,   *)
(* whatever the receiver sends (main.cpp:57-84, 188-220).                   *)
THEOREM LineTypeCorrect == Spec => []TypeOK
<1>1. Init => IInv
  BY InitLine
<1>2. IInv /\ [Next]_vars => IInv'
  BY NextLine
<1>3. IInv => TypeOK
  BY DEF IInv
<1> QED
  BY <1>1, <1>2, <1>3, PTL DEF Spec

(* After a line of any length, the buffer holds what came since the newline *)
(* (main.cpp:197-219).                                                      *)
THEOREM ReaderResynchronises == Spec => []HoldsLine
<1>1. Init => IInv
  BY InitLine
<1>2. IInv /\ [Next]_vars => IInv'
  BY NextLine
<1>3. IInv => HoldsLine
  BY DEF IInv
<1> QED
  BY <1>1, <1>2, <1>3, PTL DEF Spec

(* The handler is given the fields of one whole line (main.cpp:57-84,       *)
(* 164-186).                                                                *)
THEOREM HandlerGetsFields == Spec => []FieldsOfLine
<1>1. Init => IInv
  BY InitLine
<1>2. IInv /\ [Next]_vars => IInv'
  BY NextLine
<1>3. IInv => FieldsOfLine
  BY HandledFields
<1> QED
  BY <1>1, <1>2, <1>3, PTL DEF Spec

(* A strictly growing function into a finite set of numbers.                *)
LEMMA GrowingCount ==
  ASSUME NEW m \in Nat, NEW n \in Nat, NEW S \in SUBSET (1..m), NEW f \in [1..n -> S],
         \A k, l \in 1..n : k < l => f[k] < f[l]
  PROVE  /\ IsFiniteSet(S) /\ Cardinality(S) \in Nat
         /\ n <= Cardinality(S)
<1>1. IsFiniteSet(1..m)
  BY FS_Interval
<1>2. IsFiniteSet(S)
  BY <1>1, FS_Subset
<1>3. ASSUME NEW k \in 1..n, NEW l \in 1..n, f[k] = f[l] PROVE k = l
  <2>1. f[k] \in 1..m /\ f[l] \in 1..m
    OBVIOUS
  <2>2. ~(k < l) /\ ~(l < k)
    BY <1>3, <2>1
  <2> QED
    BY <2>1, <2>2
<1>4. f \in Injection(1..n, S)
  BY <1>3 DEF Injection, IsInjective
<1>5. Cardinality(1..n) <= Cardinality(S)
  BY <1>2, <1>4, FS_Injection
<1>6. Cardinality(1..n) = n
  BY FS_Interval
<1> QED
  BY <1>2, <1>5, <1>6, FS_CardinalityType

(* At a separator there are as many cuts as fields found: each field but    *)
(* the first begins after one, and the separator is another.                *)
LEMMA CutsOutnumber ==
  ASSUME IInv, Cut
  PROVE  Cardinality(Cuts) \in Nat /\ Len(argv) <= Cardinality(Cuts)
<1> DEFINE n == Len(argv)
           m == Len(line)
<1>0. pc = "parse" /\ buf[p] = "," /\ NUL # ","
  BY CuttingFacts DEF Cut
<1>1. TypeOK /\ Cutting /\ bi \in Nat /\ m \in Nat /\ n \in Nat /\ p \in 0..bi
  BY <1>0, CuttingFacts
<1>2. bi = m /\ p # bi
  BY <1>0, <1>1 DEF Cutting, Text
<1>3. /\ Cuts \in SUBSET (1..m)
      /\ \A i \in 1..m : line[i] = "," => i \in Cuts
  BY DEF Cuts
<1>4. \A i \in 1..m : buf[i - 1] = IF i \in Cuts THEN IF i <= p THEN NUL ELSE "," ELSE line[i]
  BY <1>1 DEF Cutting, Text
<1>5. argv \in [1..n -> Nat]
  <2>1. argv \in Seq(Locations)
    BY <1>1 DEF TypeOK
  <2>2. argv \in [1..Len(argv) -> Locations]
    BY <2>1, LenProperties
  <2>3. \A i \in Locations : i \in Nat
    BY LineAssumption DEF Locations, LenAssumption
  <2> QED
    BY <2>2, <2>3
<1>6. \A k, l \in 1..n : k < l => argv[k] < argv[l]
  BY <1>1 DEF Cutting, Ordered
<1>7. \A k \in 1..n : argv[k] <= p /\ (argv[k] = 0 \/ argv[k] \in CutsBefore(p))
  <2>1. {argv[k] : k \in 1..n} = {0} \cup CutsBefore(p)
    BY <1>1 DEF Cutting, Starting
  <2>2. \A k \in 1..n : argv[k] \in {0} \cup CutsBefore(p)
    BY <2>1
  <2> QED
    BY <1>1, <2>2 DEF Cutting, Ordered
<1>8. CutsBefore(p) \subseteq Cuts
  BY DEF CutsBefore
<1> DEFINE f == [k \in 1..n |-> IF k = n THEN p + 1 ELSE argv[k + 1]]
<1> HIDE DEF n, m
<1>9. p + 1 \in 1..m /\ (p + 1) - 1 = p /\ ~(p + 1 <= p) /\ p \in Nat
  BY <1>1, <1>2
<1>10. p + 1 \in Cuts
  BY <1>0, <1>3, <1>4, <1>9
<1>11. \A k \in 1..n : k # n => k + 1 \in 1..n /\ argv[k + 1] \in CutsBefore(p)
  <2>1. SUFFICES ASSUME NEW k \in 1..n, k # n
                 PROVE  k + 1 \in 1..n /\ argv[k + 1] \in CutsBefore(p)
    OBVIOUS
  <2>2. k + 1 \in 1..n /\ k < k + 1
    BY <1>1, <2>1
  <2>3. argv[k] < argv[k + 1] /\ argv[k] \in Nat /\ argv[k + 1] \in Nat
    BY <1>5, <1>6, <2>2
  <2>4. argv[k + 1] # 0
    BY <2>3
  <2> QED
    BY <1>7, <2>2, <2>4
<1>12. f \in [1..n -> Cuts]
  BY <1>8, <1>10, <1>11
<1>13. \A k, l \in 1..n : k < l => f[k] < f[l]
  <2>1. SUFFICES ASSUME NEW k \in 1..n, NEW l \in 1..n, k < l PROVE f[k] < f[l]
    OBVIOUS
  <2>2. k # n
    BY <1>1, <2>1
  <2>3. f[k] = argv[k + 1] /\ k + 1 \in 1..n /\ argv[k + 1] \in Nat /\ argv[k + 1] <= p
    BY <1>5, <1>7, <1>11, <2>2
  <2>4. CASE l = n
    <3>1. f[l] = p + 1
      BY <2>4
    <3>2. argv[k + 1] < p + 1
      BY <1>9, <2>3
    <3> HIDE DEF f
    <3> QED
      BY <2>3, <3>1, <3>2
  <2>5. CASE l # n
    <3>1. f[l] = argv[l + 1] /\ l + 1 \in 1..n
      BY <1>11, <2>5
    <3>2. k + 1 < l + 1
      BY <1>1, <2>1
    <3>3. argv[k + 1] < argv[l + 1]
      BY <1>6, <2>3, <3>1, <3>2
    <3> HIDE DEF f
    <3> QED
      BY <2>3, <3>1, <3>3
  <2> QED
    BY <2>4, <2>5
<1>14. Cardinality(Cuts) \in Nat /\ n <= Cardinality(Cuts)
  <2> HIDE DEF f
  <2> QED
    BY <1>1, <1>3, <1>12, <1>13, GrowingCount
<1> QED
  BY <1>14 DEF n

(* A line is only given up for having more than argcMax fields              *)
(* (main.cpp:57-84, 164-186).                                               *)
THEOREM GivenUpOnlyWhenMany == Spec => ErrorOnlyWhenMany
<1>1. Init => IInv
  BY InitLine
<1>2. IInv /\ [Next]_vars => IInv'
  BY NextLine
<1>3. IInv /\ [Next]_vars => [pc = "parse" /\ pc' = "read" => Cardinality(Cuts) >= argcMax]_vars
  <2>1. SUFFICES ASSUME IInv, Next, pc = "parse", pc' = "read"
                 PROVE  Cardinality(Cuts) >= argcMax
    OBVIOUS
  <2>2. Cut /\ Len(argv) >= argcMax
    BY <2>1 DEF Next, Receive, CarriageReturn, NewLine, Skip, Cut, Parsed, Handle, vars
  <2>3. Cardinality(Cuts) \in Nat /\ Len(argv) <= Cardinality(Cuts)
    BY <2>1, <2>2, CutsOutnumber
  <2>4. Len(argv) \in Nat /\ argcMax \in Nat
    BY <2>1, CuttingFacts
  <2> QED
    BY <2>2, <2>3, <2>4
<1> QED
  BY <1>1, <1>2, <1>3, PTL DEF Spec, ErrorOnlyWhenMany

(***************************************************************************)
(* The hand-over of a position                                             *)
(***************************************************************************)

(* A stored coordinate has not been sent yet, except that one in the packet *)
(* is still stored until craft_packet clears it.                            *)
Unsent ==
  /\ sent.lat <= sentences /\ sent.long <= sentences
  /\ packet.lat <= sentences /\ packet.long <= sentences
  /\ step \in {"idle", "lat"} => gpsLatitude_d = 0 \/ gpsLatitude_d > sent.lat
  /\ step \in {"long", "clearLat", "clearLong"} => packet.lat = 0 \/ packet.lat > sent.lat
  /\ step = "clearLong" =>
       gpsLatitude_d = 0 \/ (gpsLatitude_d > sent.lat /\ gpsLatitude_d > packet.lat)
  /\ step \in {"idle", "lat", "long"} => gpsLongitude_d = 0 \/ gpsLongitude_d > sent.long
  /\ step \in {"clearLat", "clearLong"} => packet.long = 0 \/ packet.long > sent.long

(* What a craft without a sentence in it works on.                          *)
Paired ==
  /\ step = "idle" /\ "this" \notin cut => gpsLatitude_d = gpsLongitude_d
  /\ step = "lat" /\ cut = {} => gpsLatitude_d = gpsLongitude_d
  /\ step = "long" /\ cut = {} => packet.lat = gpsLongitude_d
  /\ step = "clearLat" /\ cut = {} => packet.lat = packet.long
  /\ step = "clearLong" /\ "this" \notin cut => gpsLatitude_d = 0

FixInv == FixTypeOK /\ Unsent /\ Paired

LEMMA InitFix == FixInit => FixInv
BY BoundAssumption DEF FixInit, FixInv, FixTypeOK, Unsent, Paired, Coordinate

LEMMA SentenceFix ==
  ASSUME FixInv, NEW flag \in {"A", "V"}, NEW empty \in BOOLEAN, OnGprmc(flag, empty)
  PROVE  FixInv'
<1> USE BoundAssumption DEF OnGprmc, Position, FixInv, Coordinate
<1>1. FixTypeOK'
  <2>1. sentences' \in 0..MaxSentences
    BY DEF FixTypeOK
  <2>2. packet' = packet /\ step' = step /\ sent' = sent
    OBVIOUS
  <2>3. gpsLatitude_d' \in {0, sentences'} /\ gpsLongitude_d' \in {0, sentences'}
    OBVIOUS
  <2>4. cut' \subseteq {"this", "last"}
    BY DEF FixTypeOK
  <2> QED
    BY <2>1, <2>2, <2>3, <2>4 DEF FixTypeOK
<1>2. Unsent'
  BY DEF FixTypeOK, Unsent
<1>3. Paired'
  <2>1. cut' = IF step = "idle" THEN cut ELSE cut \cup {"this"}
    OBVIOUS
  <2>2. step' # "idle" => "this" \in cut'
    BY <2>1
  <2>3. gpsLatitude_d' = gpsLongitude_d'
    OBVIOUS
  <2> QED
    BY <2>2, <2>3 DEF Paired
<1> QED
  BY <1>1, <1>2, <1>3

LEMMA CraftFix ==
  ASSUME FixInv, Craft
  PROVE  FixInv'
<1> USE BoundAssumption DEF FixInv, Coordinate, gps
<1>1. FixTypeOK'
  BY DEF FixTypeOK, Craft, CraftBegin, ReadLatitude, ReadLongitude, ClearLatitude,
         ClearLongitude, Newer
<1>2. Unsent'
  <2>1. CASE CraftBegin
    BY <2>1 DEF FixTypeOK, Unsent, CraftBegin
  <2>2. CASE ReadLatitude
    BY <2>2 DEF FixTypeOK, Unsent, ReadLatitude
  <2>3. CASE ReadLongitude
    BY <2>3 DEF FixTypeOK, Unsent, ReadLongitude
  <2>4. CASE ClearLatitude
    BY <2>4 DEF FixTypeOK, Unsent, ClearLatitude
  <2>5. CASE ClearLongitude
    BY <2>5 DEF FixTypeOK, Unsent, ClearLongitude, Newer
  <2> QED
    BY <2>1, <2>2, <2>3, <2>4, <2>5 DEF Craft
<1>3. Paired'
  <2>1. CASE CraftBegin
    BY <2>1 DEF FixTypeOK, Paired, CraftBegin
  <2>2. CASE ReadLatitude
    BY <2>2 DEF FixTypeOK, Paired, ReadLatitude
  <2>3. CASE ReadLongitude
    BY <2>3 DEF FixTypeOK, Paired, ReadLongitude
  <2>4. CASE ClearLatitude
    BY <2>4 DEF FixTypeOK, Paired, ClearLatitude
  <2>5. CASE ClearLongitude
    BY <2>5 DEF FixTypeOK, Paired, ClearLongitude
  <2> QED
    BY <2>1, <2>2, <2>3, <2>4, <2>5 DEF Craft
<1> QED
  BY <1>1, <1>2, <1>3

(* FixInv holds in every reachable state of message_handler_gprmc and       *)
(* craft_packet.                                                            *)
THEOREM FixInvariant == FixSpec => []FixInv
<1>1. FixInv /\ [FixNext]_fixVars => FixInv'
  <2> SUFFICES ASSUME FixInv, [FixNext]_fixVars
               PROVE  FixInv'
    OBVIOUS
  <2>1. CASE Craft
    BY <2>1, CraftFix
  <2>2. CASE \E flag \in {"A", "V"}, empty \in BOOLEAN : OnGprmc(flag, empty)
    BY <2>2, SentenceFix
  <2>3. CASE UNCHANGED fixVars
    BY <2>3 DEF FixInv, FixTypeOK, Unsent, Paired, fixVars, gps
  <2> QED
    BY <2>1, <2>2, <2>3 DEF FixNext
<1> QED
  BY InitFix, <1>1, PTL DEF FixSpec

(* The stored coordinates are those of the newest $GPRMC sentence, or none. *)
THEOREM FixTypeCorrect == FixSpec => []FixTypeOK
BY FixInvariant, PTL DEF FixInv

(* craft_packet sends a coordinate in one packet only, newer ones later.    *)
THEOREM EachFixSentOnce == FixSpec => []SentOnce
<1>1. FixInv => SentOnce
  BY DEF FixInv, Unsent, SentOnce
<1> QED
  BY FixInvariant, <1>1, PTL

(* A packet of craft_packet has one position unless a sentence cut in.      *)
THEOREM UncutPositionWhole == FixSpec => []OnePosition
<1>1. FixInv => OnePosition
  BY DEF FixInv, Paired, OnePosition
<1> QED
  BY FixInvariant, <1>1, PTL
=============================================================================
