------------------------- MODULE PropertyStoreProofs -------------------------
(***************************************************************************)
(* The property store as the program sees it, for every set of keys of     *)
(* whatever types, every range of numbers and every heap.                  *)
(***************************************************************************)
EXTENDS PropertyStore, TLAPS

(* What RAM has, always ...                                                *)
Shape ==
  /\ DOMAIN props = Keys /\ \A k \in Keys : props[k] \in Stored(k)
  /\ DOMAIN heap \subseteq Blocks /\ \A b \in DOMAIN heap : heap[b] \in Texts \cup Blobs
  /\ given \subseteq Blocks /\ lent \subseteq Blocks /\ misreleased \in BOOLEAN
  /\ DOMAIN set = Keys /\ \A k \in Keys : set[k] \in Values(k) \cup {Missing}
  /\ \A k \in Keys : set[k] = Missing <=> props[k] = Missing

(* ... and until a caller releases what it was lent: the blocks have one    *)
(* owner each, and the strings and blobs that were set.                     *)
Ordered ==
  /\ \A j, k \in RamBlocks : props[j].data = props[k].data => j = k
  /\ DOMAIN heap = {props[k].data : k \in RamBlocks} \cup given
  /\ \A k \in RamBlocks : props[k].data \notin given
  /\ \A k \in RamBlocks : heap[props[k].data] = set[k]

Ram == Shape /\ (~misreleased => Ordered)

(* The other stores and the flags.                                          *)
Others ==
  /\ DOMAIN flash = Keys /\ DOMAIN otp = Keys
  /\ \A k \in Keys : {flash[k], otp[k]} \subseteq Values(k) \cup {Missing}
  /\ didOpen \in BOOLEAN /\ allowWrite \in BOOLEAN

IInv == Ram /\ Others

(* A number that fits in the low half is there as it was set.               *)
Small == Numbers \subseteq 0..Half - 1

Whole ==
  \A k \in Keys : Numeric(k) /\ props[k] # Missing =>
    props[k].low = set[k] /\ props[k].high = 0

(***************************************************************************)
(* Values                                                                  *)
(***************************************************************************)
LEMMA HalfIs == Half \in Nat \ {0} /\ Half * Half \in Nat \ {0} /\ Half >= 2
<1>1. Half \in Nat /\ Half % 2 = 0 /\ Half > 0
  BY StoreAssumption
<1>2. Half # 1
  BY <1>1, Z3
<1>3. Half * Half \in Nat /\ Half * Half > 0
  BY <1>1, Z3
<1> QED
  BY <1>1, <1>2, <1>3

LEMMA ModIs == ASSUME NEW m \in Nat \ {0}, NEW i \in Int PROVE i % m \in 0..m - 1
  OBVIOUS

LEMMA ModLess == ASSUME NEW m \in Nat \ {0}, NEW i \in 0..m - 1 PROVE i % m = i
  OBVIOUS

(* The values of a key, by its type, are not Missing.                       *)
LEMMA ValuesAre ==
  ASSUME NEW k \in Keys, NEW v \in Values(k)
  PROVE  /\ v # Missing
         /\ Numeric(k) => v \in Numbers /\ v \in Int
         /\ Types[k] = "T_STR" => v \in Texts
         /\ ~Numeric(k) => v \in Texts \cup Blobs
<1>1. Types[k] \in {"T_32BIT", "T_64BIT", "T_STR", "T_BLOB"}
  BY StoreAssumption
<1>2. CASE Types[k] = "T_32BIT"
  BY <1>2, StoreAssumption, MissingAssumption DEF Values, Numeric
<1>3. CASE Types[k] = "T_64BIT"
  BY <1>3, StoreAssumption, MissingAssumption DEF Values, Numeric
<1>4. CASE Types[k] \in {"T_STR", "T_BLOB"}
  BY <1>4, MissingAssumption DEF Values, Numeric
<1> QED
  BY <1>1, <1>2, <1>3, <1>4

LEMMA StoredIs ==
  ASSUME NEW k \in Keys, NEW e
  PROVE  /\ Numeric(k) => (e \in Stored(k) /\ e # Missing <=>
                             e \in [low : 0..Half - 1, high : 0..Half - 1])
         /\ ~Numeric(k) => (e \in Stored(k) /\ e # Missing <=> e \in [data : Blocks])
         /\ Missing \in Stored(k)
BY MissingAssumption DEF Stored

(* A string or blob in RAM has its block.                                   *)
LEMMA BlockOf ==
  ASSUME Shape, NEW k \in RamBlocks
  PROVE  /\ k \in Keys /\ ~Numeric(k) /\ props[k] # Missing
         /\ props[k] \in [data : Blocks]
<1>1. k \in Keys /\ ~Numeric(k) /\ props[k] # Missing /\ props[k] \in Stored(k)
  BY DEF RamBlocks, Shape
<1> QED
  BY <1>1, StoredIs

(***************************************************************************)
(* The store in RAM                                                        *)
(***************************************************************************)
LEMMA KeepsRam ==
  ASSUME Ram, UNCHANGED <<props, heap, given, misreleased, set>>, lent' \subseteq Blocks
  PROVE  Ram'
BY DEF Ram, Shape, Ordered, RamBlocks

LEMMA NumberRam ==
  ASSUME Ram, NEW k \in Keys, NEW v \in Values(k), Numeric(k), RamSetNumber(k, v),
         set' = [set EXCEPT ![k] = v], UNCHANGED callerVars
  PROVE  Ram'
<1>0. Shape /\ UNCHANGED <<given, lent, misreleased>>
  BY DEF Ram, callerVars
<1>1. v % Half \in 0..Half - 1 /\ (v \div Half) % Half \in 0..Half - 1 /\ 0 \in 0..Half - 1
  <2>1. v \in Int /\ Half \in Nat \ {0} /\ v \div Half \in Int
    BY ValuesAre, HalfIs
  <2> QED
    BY <2>1, ModIs
<1>2. props[k] # Missing => props[k] \in [low : 0..Half - 1, high : 0..Half - 1]
  BY <1>0, StoredIs DEF Shape
<1>3. /\ DOMAIN props' = Keys /\ heap' = heap
      /\ \A j \in Keys \ {k} : props'[j] = props[j]
  BY <1>0 DEF RamSetNumber, Shape
<1>4. props'[k] \in [low : 0..Half - 1, high : 0..Half - 1]
  <2>1. CASE props[k] = Missing
    BY <1>0, <1>1, <2>1 DEF RamSetNumber, Shape
  <2>2. CASE props[k] # Missing
    BY <1>0, <1>1, <1>2, <2>2 DEF RamSetNumber, Shape
  <2> QED
    BY <2>1, <2>2
<1>5. props'[k] \in Stored(k) /\ props'[k] # Missing
  BY <1>4, StoredIs
<1>6. RamBlocks' = RamBlocks /\ k \notin RamBlocks
  BY <1>3 DEF RamBlocks
<1>7. /\ \A j \in RamBlocks : props'[j] = props[j] /\ set'[j] = set[j]
      /\ {props'[j].data : j \in RamBlocks'} = {props[j].data : j \in RamBlocks}
  BY <1>0, <1>3, <1>6 DEF RamBlocks, Shape
<1>8. Ordered => Ordered'
  BY <1>0, <1>3, <1>6, <1>7 DEF Ordered
<1>9. /\ DOMAIN set' = Keys /\ set'[k] = v /\ v # Missing
      /\ \A j \in Keys \ {k} : set'[j] = set[j]
  BY <1>0, ValuesAre DEF Shape
<1>10. Shape'
  BY <1>0, <1>3, <1>5, <1>9 DEF Shape
<1> QED
  BY <1>0, <1>8, <1>10 DEF Ram

(* A block freed and one taken, for a key that holds data.                  *)
LEMMA DataRam ==
  ASSUME Ram, NEW k \in Keys, NEW v \in Values(k), ~Numeric(k), RamSetData(k, v),
         set' = [set EXCEPT ![k] = v], UNCHANGED callerVars
  PROVE  Ram'
<1> DEFINE kept == IF props[k] = Missing THEN heap ELSE Without(props[k].data)
<1>0. Shape /\ UNCHANGED <<given, lent, misreleased>>
  BY DEF Ram, callerVars
<1>1. PICK b \in Blocks \ DOMAIN kept :
        /\ heap' = With(kept, b, v)
        /\ props' = [props EXCEPT ![k] = [data |-> b]]
  BY DEF RamSetData
<1>2. /\ DOMAIN props' = Keys /\ props'[k] = [data |-> b]
      /\ \A j \in Keys \ {k} : props'[j] = props[j]
  BY <1>0, <1>1 DEF Shape
<1>3. props'[k] \in [data : Blocks] /\ props'[k] \in Stored(k) /\ props'[k] # Missing
  BY <1>1, <1>2, StoredIs
<1>4. RamBlocks' = RamBlocks \cup {k}
  BY <1>2, <1>3 DEF RamBlocks
<1>5. \A x \in DOMAIN kept : kept[x] = heap[x] /\ x \in DOMAIN heap
  BY DEF Without
<1>6. ASSUME Ordered PROVE DOMAIN kept = {props[j].data : j \in RamBlocks \ {k}} \cup given
  <2>1. CASE props[k] = Missing
    BY <1>6, <2>1 DEF Ordered, RamBlocks
  <2>2. CASE props[k] # Missing
    <3>1. k \in RamBlocks
      BY <2>2 DEF RamBlocks
    <3>2. DOMAIN kept = DOMAIN heap \ {props[k].data}
      BY <2>2 DEF Without
    <3>3. /\ props[k].data \notin given
          /\ \A j \in RamBlocks : j # k => props[j].data # props[k].data
          /\ DOMAIN heap = {props[j].data : j \in RamBlocks} \cup given
      BY <1>6, <3>1 DEF Ordered
    <3> HIDE DEF kept
    <3> QED
      BY <3>1, <3>2, <3>3
  <2> QED
    BY <2>1, <2>2
<1> HIDE DEF kept
<1>7. /\ DOMAIN heap' = DOMAIN kept \cup {b} /\ heap'[b] = v /\ b \notin DOMAIN kept
      /\ \A x \in DOMAIN kept : heap'[x] = heap[x]
  BY <1>1, <1>5 DEF With
<1>8. v \in Texts \cup Blobs /\ v # Missing
  BY ValuesAre
<1>9. /\ DOMAIN set' = Keys /\ set'[k] = v
      /\ \A j \in Keys \ {k} : set'[j] = set[j]
  BY <1>0 DEF Shape
<1>10. Shape'
  <2>1. DOMAIN heap' \subseteq Blocks /\ \A x \in DOMAIN heap' : heap'[x] \in Texts \cup Blobs
    BY <1>0, <1>1, <1>5, <1>7, <1>8 DEF Shape
  <2> QED
    BY <1>0, <1>2, <1>3, <1>8, <1>9, <2>1 DEF Shape
<1>11. ASSUME Ordered PROVE Ordered'
  <2>1. /\ DOMAIN kept = {props[j].data : j \in RamBlocks \ {k}} \cup given
        /\ \A j \in RamBlocks \ {k} : /\ j \in Keys /\ props'[j] = props[j]
                                      /\ props[j].data \in DOMAIN kept
        /\ props'[k].data = b
    BY <1>2, <1>6, <1>11 DEF RamBlocks
  <2>2. \A i, j \in RamBlocks' : props'[i].data = props'[j].data => i = j
    BY <1>4, <1>7, <1>11, <2>1 DEF Ordered
  <2>3. DOMAIN heap' = {props'[j].data : j \in RamBlocks'} \cup given'
    <3>1. {props'[j].data : j \in RamBlocks'} = {props[j].data : j \in RamBlocks \ {k}} \cup {b}
      BY <1>4, <2>1
    <3> QED
      BY <1>0, <1>7, <2>1, <3>1
  <2>4. \A j \in RamBlocks' : props'[j].data \notin given'
    BY <1>0, <1>4, <1>7, <1>11, <2>1 DEF Ordered
  <2>5. \A j \in RamBlocks' : heap'[props'[j].data] = set'[j]
    BY <1>4, <1>7, <1>9, <1>11, <2>1 DEF Ordered
  <2> QED
    BY <2>2, <2>3, <2>4, <2>5 DEF Ordered
<1> QED
  BY <1>0, <1>10, <1>11 DEF Ram

LEMMA EraseRam ==
  ASSUME Ram, NEW k \in Keys, RamErase(k), set' = [set EXCEPT ![k] = Missing],
         UNCHANGED callerVars
  PROVE  Ram'
<1>0. Shape /\ UNCHANGED <<given, lent, misreleased>>
  BY DEF Ram, callerVars
<1>1. /\ DOMAIN props' = Keys /\ props'[k] = Missing /\ Missing \in Stored(k)
      /\ \A j \in Keys \ {k} : props'[j] = props[j]
  BY <1>0, StoredIs DEF Shape, RamErase
<1>2. RamBlocks' = RamBlocks \ {k}
  BY <1>1 DEF RamBlocks
<1>3. \A j \in RamBlocks' : j \in Keys /\ j # k /\ props'[j] = props[j]
  BY <1>1, <1>2 DEF RamBlocks
<1>4. \A x \in DOMAIN heap' : heap'[x] = heap[x] /\ x \in DOMAIN heap
  BY DEF RamErase, Without
<1>5. ASSUME Ordered PROVE DOMAIN heap' = {props[j].data : j \in RamBlocks'} \cup given
  <2>1. CASE k \notin RamBlocks
    <3>1. heap' = heap /\ RamBlocks' = RamBlocks
      BY <1>2, <2>1 DEF RamErase, RamBlocks
    <3> QED
      BY <1>5, <3>1 DEF Ordered
  <2>2. CASE k \in RamBlocks
    <3>1. DOMAIN heap' = DOMAIN heap \ {props[k].data}
      BY <2>2 DEF RamErase, RamBlocks, Without
    <3>2. /\ props[k].data \notin given
          /\ \A j \in RamBlocks : j # k => props[j].data # props[k].data
          /\ DOMAIN heap = {props[j].data : j \in RamBlocks} \cup given
      BY <1>5, <2>2 DEF Ordered
    <3> QED
      BY <1>2, <2>2, <3>1, <3>2
  <2> QED
    BY <2>1, <2>2
<1>6. /\ DOMAIN set' = Keys /\ set'[k] = Missing
      /\ \A j \in Keys \ {k} : set'[j] = set[j]
  BY <1>0 DEF Shape
<1>7. Shape'
  BY <1>0, <1>1, <1>4, <1>6 DEF Shape
<1>8. ASSUME Ordered PROVE Ordered'
  <2>1. {props'[j].data : j \in RamBlocks'} = {props[j].data : j \in RamBlocks'}
    BY <1>3
  <2>2. \A j \in RamBlocks' : props[j].data \in DOMAIN heap'
    BY <1>5, <1>8
  <2> QED
    BY <1>0, <1>2, <1>3, <1>4, <1>5, <1>6, <1>8, <2>1, <2>2 DEF Ordered
<1> QED
  BY <1>0, <1>7, <1>8 DEF Ram

(* A copy for the caller comes from free memory ...                         *)
LEMMA CopyRam ==
  ASSUME Ram, NEW b \in Blocks \ DOMAIN heap, NEW v \in Texts,
         heap' = With(heap, b, v), given' = given \cup {b},
         UNCHANGED <<props, lent, misreleased, set>>
  PROVE  Ram'
<1>0. Shape
  BY DEF Ram
<1>1. /\ DOMAIN heap' = DOMAIN heap \cup {b} /\ heap'[b] = v
      /\ \A x \in DOMAIN heap : heap'[x] = heap[x]
  BY DEF With
<1>2. Shape'
  BY <1>0, <1>1 DEF Shape
<1>3. ASSUME Ordered PROVE Ordered'
  <2>1. RamBlocks' = RamBlocks /\ \A j \in RamBlocks : props[j].data \in DOMAIN heap
    BY <1>3 DEF RamBlocks, Ordered
  <2> QED
    BY <1>1, <1>3, <2>1 DEF Ordered
<1> QED
  BY <1>2, <1>3 DEF Ram

(* ... and what the caller releases of these is no property's.              *)
LEMMA FreeRam ==
  ASSUME Ram, Free
  PROVE  Ram'
<1>0. Shape /\ UNCHANGED <<props, set>>
  BY DEF Ram, Free
<1>1. CASE \E b \in given : /\ given' = given \ {b} /\ heap' = Without(b)
                            /\ UNCHANGED <<lent, misreleased>>
  <2>1. PICK b \in given : /\ given' = given \ {b} /\ heap' = Without(b)
                           /\ UNCHANGED <<lent, misreleased>>
    BY <1>1
  <2>2. /\ DOMAIN heap' = DOMAIN heap \ {b}
        /\ \A x \in DOMAIN heap' : heap'[x] = heap[x]
    BY <2>1 DEF Without
  <2>3. Shape'
    BY <1>0, <2>1, <2>2 DEF Shape
  <2>4. ASSUME Ordered PROVE Ordered'
    <3>1. RamBlocks' = RamBlocks /\ \A j \in RamBlocks : props[j].data \in DOMAIN heap'
      BY <1>0, <2>1, <2>2, <2>4 DEF RamBlocks, Ordered
    <3> QED
      BY <1>0, <2>1, <2>2, <2>4, <3>1 DEF Ordered
  <2> QED
    BY <2>1, <2>3, <2>4 DEF Ram
<1>2. CASE \E b \in lent : /\ lent' = lent \ {b} /\ heap' = Without(b)
                           /\ misreleased' = TRUE /\ UNCHANGED given
  BY <1>0, <1>2 DEF Ram, Shape, Without
<1> QED
  BY <1>1, <1>2 DEF Free

(***************************************************************************)
(* NVProperty                                                              *)
(***************************************************************************)
LEMMA InitStore == Init => IInv
<1> SUFFICES ASSUME Init PROVE IInv
  OBVIOUS
<1>1. /\ props = NoKeys /\ set = NoKeys /\ given = {} /\ heap = [b \in {} |-> Missing]
      /\ lent = {} /\ misreleased = FALSE
      /\ \A k \in Keys : {flash[k], otp[k]} \subseteq Values(k) \cup {Missing}
      /\ DOMAIN flash = Keys /\ DOMAIN otp = Keys
      /\ didOpen = FALSE /\ allowWrite = FALSE
  BY DEF Init
<1>2. RamBlocks = {} /\ DOMAIN heap = {}
  BY <1>1 DEF RamBlocks, NoKeys
<1>3. Ordered
  BY <1>1, <1>2 DEF Ordered
<1>4. /\ DOMAIN props = Keys /\ DOMAIN set = Keys
      /\ \A k \in Keys : props[k] = Missing /\ set[k] = Missing /\ Missing \in Stored(k)
  BY <1>1, StoredIs DEF NoKeys
<1>5. Ram
  BY <1>1, <1>2, <1>3, <1>4 DEF Ram, Shape
<1> QED
  BY <1>1, <1>5 DEF IInv, Others

(* What a call that sets or erases a property does to the stores.           *)
LEMMA SetStore ==
  ASSUME IInv, NEW k \in Keys, NEW v \in Values(k), SetProperty(k, v)
  PROVE  IInv'
<1> USE DEF IInv
<1>0. didOpen' \in BOOLEAN /\ allowWrite' = allowWrite /\ UNCHANGED callerVars /\ lent \subseteq Blocks
  BY DEF SetProperty, Ram, Shape
<1>1. CASE Denied
  BY <1>0, <1>1, KeepsRam DEF Denied, Others, callerVars
<1>2. CASE SetRam(k, v)
  <2>1. Ram'
    BY <1>0, <1>2, NumberRam, DataRam DEF SetRam
  <2> QED
    BY <1>0, <1>2, <2>1 DEF SetRam, Others
<1>3. CASE SetFlash(k, v)
  BY <1>0, <1>3, KeepsRam DEF SetFlash, Others, callerVars
<1>4. CASE SetOtp(k, v)
  BY <1>0, <1>4, KeepsRam DEF SetOtp, Others, callerVars
<1> QED
  BY <1>1, <1>2, <1>3, <1>4 DEF SetProperty

LEMMA EraseStore ==
  ASSUME IInv, NEW k \in Keys, EraseProperty(k)
  PROVE  IInv'
<1> USE DEF IInv
<1>0. didOpen' \in BOOLEAN /\ allowWrite' = allowWrite /\ UNCHANGED callerVars /\ lent \subseteq Blocks
  BY DEF EraseProperty, Ram, Shape
<1>1. CASE Denied
  BY <1>0, <1>1, KeepsRam DEF Denied, Others, callerVars
<1>2. CASE RamErase(k) /\ set' = [set EXCEPT ![k] = Missing] /\ UNCHANGED <<flash, otp>>
  BY <1>0, <1>2, EraseRam DEF Others
<1>3. CASE SetFlash(k, Missing)
  BY <1>0, <1>3, KeepsRam DEF SetFlash, Others, callerVars
<1>4. CASE SetOtp(k, Missing)
  BY <1>0, <1>4, KeepsRam DEF SetOtp, Others, callerVars
<1> QED
  BY <1>1, <1>2, <1>3, <1>4 DEF EraseProperty

(* The calls that read a property.                                          *)
Get(k) == GetProperty(k) \/ GetProperty64(k) \/ GetPropertyStr(k) \/ GetPropertyBlob(k)

LEMMA GetStore ==
  ASSUME IInv, NEW k \in Keys, Get(k)
  PROVE  IInv' /\ UNCHANGED <<props, flash, otp, set>>
<1> USE DEF IInv
<1>0. PICK v : Found(k, v)
  BY DEF Get, GetProperty, GetProperty64, GetPropertyStr, GetPropertyBlob
<1>1. Others' /\ UNCHANGED <<props, set>>
  BY <1>0 DEF Found, Others
<1>2. CASE UNCHANGED <<heap, callerVars>>
  <2>1. lent \subseteq Blocks
    BY DEF Ram, Shape
  <2> QED
    BY <1>0, <1>1, <1>2, <2>1, KeepsRam DEF Found, callerVars
<1>3. CASE GetPropertyStr(k) /\ props[k] # Missing
  <2>1. UNCHANGED <<given, heap, misreleased>> /\ lent' = lent \cup {props[k].data}
    BY <1>3 DEF GetPropertyStr
  <2>2. k \in RamBlocks /\ Shape
    BY <1>3 DEF GetPropertyStr, RamBlocks, Numeric, Ram
  <2>3. lent' \subseteq Blocks
    BY <2>1, <2>2, BlockOf DEF Shape
  <2> QED
    BY <1>1, <1>0, <2>1, <2>3, KeepsRam DEF Found
<1>4. CASE GetPropertyStr(k) /\ props[k] = Missing /\ Lookup(Missing, k) # Missing
  <2>1. PICK b \in Blocks \ DOMAIN heap :
          heap' = With(heap, b, Lookup(Missing, k)) /\ given' = given \cup {b}
    BY <1>4 DEF GetPropertyStr
  <2>2. UNCHANGED <<lent, misreleased>> /\ Types[k] = "T_STR"
    BY <1>4 DEF GetPropertyStr
  <2>3. Lookup(Missing, k) \in Values(k)
    BY <1>4 DEF Lookup, Others
  <2>4. Lookup(Missing, k) \in Texts
    BY <2>2, <2>3, ValuesAre
  <2>5. Ram'
    BY <1>1, <2>1, <2>2, <2>4, CopyRam
  <2> QED
    BY <1>0, <1>1, <2>5 DEF Found
<1> QED
  BY <1>2, <1>3, <1>4
     DEF Get, GetProperty, GetProperty64, GetPropertyStr, GetPropertyBlob, callerVars

LEMMA NextStore == IInv /\ [Next]_vars => IInv'
<1> SUFFICES ASSUME IInv, [Next]_vars PROVE IInv'
  OBVIOUS
<1>0. lent \subseteq Blocks
  BY DEF IInv, Ram, Shape
<1>1. ASSUME NEW forWrite \in BOOLEAN, OpenPropertyStore(forWrite) PROVE IInv'
  BY <1>0, <1>1, KeepsRam DEF IInv, OpenPropertyStore, Others, callerVars
<1>2. CASE ClosePropertyStore
  BY <1>0, <1>2, KeepsRam DEF IInv, ClosePropertyStore, Others, callerVars
<1>3. CASE Free
  BY <1>3, FreeRam DEF IInv, Free, Others
<1>4. ASSUME NEW k \in Keys, NEW v \in Values(k), SetProperty(k, v) PROVE IInv'
  BY <1>4, SetStore
<1>5. ASSUME NEW k \in Keys, EraseProperty(k) PROVE IInv'
  BY <1>5, EraseStore
<1>6. ASSUME NEW k \in Keys, Get(k) PROVE IInv'
  BY <1>6, GetStore
<1>7. CASE UNCHANGED vars
  BY <1>0, <1>7, KeepsRam DEF vars, IInv, Others
<1> QED
  BY <1>1, <1>2, <1>3, <1>4, <1>5, <1>6, <1>7 DEF Next, Get

THEOREM Invariance == Spec => []IInv
BY InitStore, NextStore, PTL DEF Spec

(* For every heap and all types of keys: an entry in RAM keeps the type of  *)
(* its key, and each string and blob has a block of its own and no block is *)
(* lost or freed twice, in whatever order the caller releases the copies it *)
(* was given, until it releases a string that is in RAM, as NVProperty.h:80 *)
(* tells it to (NVProperty_SRAM.cpp:81, 110-200).                           *)
THEOREM HeapInOrder == Spec => []StoreInv
<1>1. IInv => StoreInv
  BY DEF IInv, Ram, Shape, Ordered, Others, StoreInv, TypeOK, HeapOwned
<1> QED
  BY Invariance, <1>1, PTL

(***************************************************************************)
(* What is read                                                            *)
(***************************************************************************)
First(k) == IF set[k] # Missing THEN set[k]
            ELSE IF flash[k] # Missing THEN flash[k] ELSE otp[k]

(* Setting keeps numbers whole, those that are changed in place too.        *)
LEMMA WholeStep ==
  ASSUME Small, IInv, Whole, [Next]_vars
  PROVE  Whole'
<1>1. ASSUME NEW k \in Keys, NEW v \in Values(k), Numeric(k), SetRam(k, v)
      PROVE  Whole'
  <2>1. v \in 0..Half - 1 /\ v % Half = v /\ Half \in Nat \ {0}
    <3>1. v \in 0..Half - 1 /\ Half \in Nat \ {0}
      BY <1>1, ValuesAre, HalfIs DEF Small
    <3> QED
      BY <3>1, ModLess
  <2>2. (v \div Half) % Half = 0
    <3>1. v \div Half = 0
      BY <2>1
    <3> QED
      BY <2>1, <3>1, ModLess
  <2>3. DOMAIN props = Keys /\ DOMAIN set = Keys
    BY DEF IInv, Ram, Shape
  <2>4. /\ set'[k] = v
        /\ \A j \in Keys \ {k} : set'[j] = set[j] /\ props'[j] = props[j]
    BY <1>1, <2>3 DEF SetRam, RamSetNumber
  <2>5. props'[k].low = v /\ props'[k].high = 0
    <3>1. CASE props[k] = Missing
      BY <1>1, <2>1, <2>2, <2>3, <3>1 DEF SetRam, RamSetNumber
    <3>2. CASE props[k] # Missing
      <4>1. props[k] \in [low : 0..Half - 1, high : 0..Half - 1]
        BY <1>1, <3>2, StoredIs DEF IInv, Ram, Shape
      <4>2. props'[k] = [props[k] EXCEPT !.low = v] /\ props[k].high = 0
        BY <1>1, <2>1, <2>3, <3>2 DEF SetRam, RamSetNumber, Whole
      <4> QED
        BY <4>1, <4>2
    <3> QED
      BY <3>1, <3>2
  <2> QED
    BY <2>4, <2>5 DEF Whole
<1>2. ASSUME NEW k \in Keys, NEW v \in Values(k), ~Numeric(k), SetRam(k, v)
      PROVE  Whole'
  <2>1. \A j \in Keys \ {k} : set'[j] = set[j] /\ props'[j] = props[j]
    BY <1>2 DEF SetRam, RamSetData, IInv, Ram, Shape
  <2> QED
    BY <1>2, <2>1 DEF Whole
<1>3. ASSUME NEW k \in Keys, RamErase(k), set' = [set EXCEPT ![k] = Missing]
      PROVE  Whole'
  BY <1>3 DEF RamErase, IInv, Ram, Shape, Whole
<1>4. CASE UNCHANGED <<props, set>>
  BY <1>4 DEF Whole
<1>5. ASSUME NEW k \in Keys, NEW v \in Values(k), SetProperty(k, v) PROVE Whole'
  BY <1>1, <1>2, <1>4, <1>5 DEF SetProperty, Denied, SetFlash, SetOtp
<1>6. ASSUME NEW k \in Keys, EraseProperty(k) PROVE Whole'
  BY <1>3, <1>4, <1>6 DEF EraseProperty, Denied, SetFlash, SetOtp
<1>7. ASSUME NEW k \in Keys, Get(k) PROVE Whole'
  BY <1>4, <1>7, GetStore
<1> QED
  BY <1>4, <1>5, <1>6, <1>7
     DEF Next, Get, vars, OpenPropertyStore, ClosePropertyStore, Free

(* A small number is read back as it was set, by either call.               *)
LEMMA NumberRead ==
  ASSUME Small, IInv, Whole, NEW k \in Keys, Numeric(k), props[k] # Missing
  PROVE  /\ Types[k] = "T_32BIT" => IntInRam(k) = set[k]
         /\ InRam(k) = set[k]
<1>1. set[k] \in Values(k) /\ set[k] \in 0..Half - 1
  BY ValuesAre DEF IInv, Ram, Shape, Small
<1>2. props[k].low = set[k] /\ props[k].high = 0 /\ set[k] + Half * 0 = set[k]
  BY <1>1, HalfIs DEF Whole
<1>3. Half >= 2 /\ Half \in Nat /\ Half \div 2 \in Nat /\ Half <= (Half * Half) \div 2
  <2>1. Half >= 2 /\ Half \in Nat
    BY HalfIs
  <2>2. Half * Half >= 2 * Half
    BY <2>1, Z3
  <2> QED
    BY <2>1, <2>2, HalfIs, Z3
<1>4. InRam(k) = set[k]
  BY <1>1, <1>2, <1>3 DEF InRam, Signed
<1>5. ASSUME Types[k] = "T_32BIT" PROVE IntInRam(k) = set[k]
  <2>1. set[k] <= Half \div 2 - 1
    BY <1>1, <1>5 DEF Values, IntRange
  <2> QED
    BY <1>1, <1>2, <1>3, <2>1 DEF IntInRam, Signed
<1> QED
  BY <1>4, <1>5

LEMMA ReadFirst ==
  ASSUME Small, IInv, Whole, NEW k \in Keys, Get(k), Types[k] # "T_BLOB",
         Types[k] = "T_STR" => ~misreleased
  PROVE  res'.value = First(k) /\ res'.key = k
<1>1. set[k] = Missing <=> props[k] = Missing
  BY DEF IInv, Ram, Shape
<1>2. CASE GetProperty(k)
  <2>1. props[k] # Missing => IntInRam(k) = set[k]
    BY <1>2, NumberRead DEF GetProperty, Numeric
  <2>2. Lookup(IntInRam(k), k) = First(k)
    BY <1>1, <2>1 DEF Lookup, First, IntInRam
  <2> QED
    BY <1>2, <2>2 DEF GetProperty, Found
<1>3. CASE GetProperty64(k)
  <2>1. props[k] # Missing => InRam(k) = set[k]
    BY <1>3, NumberRead DEF GetProperty64
  <2>2. Lookup(InRam(k), k) = First(k)
    BY <1>1, <2>1 DEF Lookup, First, InRam
  <2> QED
    BY <1>3, <2>2 DEF GetProperty64, Found
<1>4. CASE GetPropertyStr(k)
  <2>1. PICK ram \in StringsInRam(k) : Found(k, Lookup(ram, k))
    BY <1>4 DEF GetPropertyStr
  <2>2. ram = set[k]
    <3>1. CASE props[k] = Missing
      BY <1>1, <2>1, <3>1 DEF StringsInRam
    <3>2. CASE props[k] # Missing
      <4>1. k \in RamBlocks /\ Ordered
        BY <1>4, <3>2 DEF GetPropertyStr, RamBlocks, Numeric, IInv, Ram
      <4>2. props[k].data \in DOMAIN heap /\ heap[props[k].data] = set[k]
        BY <4>1 DEF Ordered
      <4> QED
        BY <2>1, <3>2, <4>2 DEF StringsInRam
    <3> QED
      BY <3>1, <3>2
  <2>3. Lookup(ram, k) = First(k)
    BY <2>2 DEF Lookup, First
  <2> QED
    BY <2>1, <2>3 DEF Found
<1> QED
  BY <1>2, <1>3, <1>4 DEF Get, GetPropertyBlob

LEMMA FirstStep ==
  ASSUME Small, IInv, Whole, FirstStoreRead, [Next]_vars
  PROVE  FirstStoreRead'
<1>1. ASSUME NEW k \in Keys, Get(k) PROVE FirstStoreRead'
  <2>1. UNCHANGED <<flash, otp, set>>
    BY <1>1, GetStore
  <2>2. res'.key = k
    BY <1>1 DEF Get, GetProperty, GetProperty64, GetPropertyStr, GetPropertyBlob,
                Found
  <2>3. CASE Types[k] # "T_BLOB" /\ (Types[k] = "T_STR" => ~misreleased)
    BY <1>1, <2>1, <2>3, ReadFirst DEF First, FirstStoreRead
  <2>4. CASE Types[k] = "T_BLOB" \/ (Types[k] = "T_STR" /\ misreleased)
    <3>1. misreleased' = misreleased
      BY <1>1 DEF Get, GetProperty, GetProperty64, GetPropertyStr, GetPropertyBlob, callerVars
    <3> QED
      BY <2>2, <2>4, <3>1 DEF FirstStoreRead
  <2> QED
    BY <2>3, <2>4
<1>2. CASE res'.key = Missing
  BY <1>2 DEF FirstStoreRead
<1>3. CASE UNCHANGED vars
  BY <1>3 DEF vars, FirstStoreRead
<1>4. ASSUME NEW k \in Keys, (\E v \in Values(k) : SetProperty(k, v)) \/ EraseProperty(k)
      PROVE  FirstStoreRead'
  BY <1>2, <1>4 DEF SetProperty, EraseProperty, Denied, Returned
<1>5. CASE ClosePropertyStore \/ Free \/ \E forWrite \in BOOLEAN : OpenPropertyStore(forWrite)
  BY <1>2, <1>5 DEF ClosePropertyStore, Free, OpenPropertyStore, Returned
<1> QED
  BY <1>1, <1>3, <1>4, <1>5 DEF Next, Get

(* "The order should always be S_RAM,S_FLASH, S_OTP" (NVProperty.h:75), for *)
(* every set of keys of whatever types, as long as no number is negative or *)
(* needs the high half, which setting a number again leaves as it was       *)
(* (NVProperty_SRAM.cpp:110-130), and for strings until a caller releases   *)
(* one that is in RAM (line 81).                                            *)
THEOREM FirstStoreCounts == Small => (Spec => []FirstStoreRead)
<1> SUFFICES ASSUME Small PROVE Spec => []FirstStoreRead
  OBVIOUS
<1>1. Init => Whole /\ FirstStoreRead
  BY DEF Init, Whole, NoKeys, FirstStoreRead
<1>2. IInv /\ (Whole /\ FirstStoreRead) /\ [Next]_vars => (Whole /\ FirstStoreRead)'
  BY WholeStep, FirstStep
<1> QED
  BY Invariance, <1>1, <1>2, PTL DEF Spec
=============================================================================
