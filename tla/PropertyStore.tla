--------------------------- MODULE PropertyStore ---------------------------
(***************************************************************************)
(* The property store as the program sees it (NVProperty.cpp) with the     *)
(* store in RAM (NVProperty_SRAM.cpp): a property is looked up in RAM, in  *)
(* flash and in OTP memory, and set in the store named.  The stores in     *)
(* flash and OTP memory are the maps that FlashStore shows them to be;     *)
(* that in RAM keeps numbers as they are and strings and blobs in blocks   *)
(* of the heap.                                                            *)
(*                                                                         *)
(* Numbers have two halves of Half values: an int is the low one, an       *)
(* int64_t both.  A key keeps its type, as each key of NVProperty.h does:  *)
(* the union in an entry is read as what was put into it.                  *)
(*                                                                         *)
(* "const char *GetProperty: receives a copy of the propery, use free to   *)
(* release it" (NVProperty.h:80).  A caller does so with any string it was *)
(* given, but the store in RAM gives out its own block: once that has been *)
(* freed, the memory holds anything and may be taken for something else.   *)
(***************************************************************************)
EXTENDS Integers, FiniteSets

CONSTANTS
  Keys, Types,    \* the keys, and the type of each
  Half,           \* 2^32
  Numbers, Texts, Blobs, \* the numbers, strings and blobs that are set
  Blocks,         \* the heap
  Missing         \* NVP_ENOENT, or no string

ASSUME StoreAssumption ==
  /\ Types \in [Keys -> {"T_32BIT", "T_64BIT", "T_STR", "T_BLOB"}]
  /\ Half \in Nat /\ Half % 2 = 0 /\ Half > 0 /\ Numbers \subseteq Int

(* No property has the value that says there is none.                       *)
ASSUME MissingAssumption ==
  /\ Missing \notin Keys \cup Numbers \cup Texts \cup Blobs
  /\ Missing \notin [low : 0..Half - 1, high : 0..Half - 1] \cup [data : Blocks]

VARIABLES
  props,      \* NVProperty_SRAM::_props
  heap,       \* the content of the blocks in use
  flash, otp, \* the other stores
  didOpen, allowWrite,
  given,      \* copies the caller was given, and has not released
  lent,       \* blocks of the store in RAM the caller was given, and has not released
  misreleased, \* history: the caller has released one of these
  res,        \* what the last call returned: its code, and if it was a get its key and value
  set         \* what was last set in RAM and not erased

vars == <<props, heap, flash, otp, didOpen, allowWrite, given, lent, misreleased, res, set>>

callerVars == <<given, lent, misreleased>>

Numeric(k) == Types[k] \in {"T_32BIT", "T_64BIT"}
Signed(u, size) == IF u >= size \div 2 THEN u - size ELSE u
IntRange(size) == -(size \div 2)..size \div 2 - 1

(* The values a key may have.                                               *)
Values(k) ==
  CASE Types[k] = "T_32BIT" -> Numbers \cap IntRange(Half)
    [] Types[k] = "T_64BIT" -> Numbers \cap IntRange(Half * Half)
    [] Types[k] = "T_STR" -> Texts
    [] OTHER -> Blobs

Stored(k) ==
  {Missing} \cup (IF Numeric(k) THEN [low : 0..Half - 1, high : 0..Half - 1] ELSE [data : Blocks])

TypeOK ==
  /\ DOMAIN props = Keys /\ \A k \in Keys : props[k] \in Stored(k)
  /\ DOMAIN heap \subseteq Blocks /\ \A b \in DOMAIN heap : heap[b] \in Texts \cup Blobs
  /\ \A k \in Keys : {flash[k], otp[k], set[k]} \subseteq Values(k) \cup {Missing}
  /\ didOpen \in BOOLEAN /\ allowWrite \in BOOLEAN
  /\ given \subseteq Blocks /\ lent \subseteq Blocks /\ misreleased \in BOOLEAN

Returned(code) == res' = [key |-> Missing, code |-> code, value |-> Missing]

NoKeys == [k \in Keys |-> Missing]

Init ==
  /\ props = NoKeys /\ heap = [b \in {} |-> Missing]
  /\ flash \in [Keys -> UNION {Values(k) : k \in Keys} \cup {Missing}]
  /\ otp \in [Keys -> UNION {Values(k) : k \in Keys} \cup {Missing}]
  /\ \A k \in Keys : {flash[k], otp[k]} \subseteq Values(k) \cup {Missing}
  /\ didOpen = FALSE /\ allowWrite = FALSE
  /\ given = {} /\ lent = {} /\ misreleased = FALSE /\ set = NoKeys
  /\ res = [key |-> Missing, code |-> "NVP_OK", value |-> Missing]

Without(b) == [x \in DOMAIN heap \ {b} |-> heap[x]]
With(h, b, v) == [x \in DOMAIN h \cup {b} |-> IF x = b THEN v ELSE h[x]]

(***************************************************************************)
(* The store in RAM                                                        *)
(***************************************************************************)

(* A number: one that is there gets its low half changed.                   *)
RamSetNumber(k, v) ==
  /\ props' = [props EXCEPT ![k] =
       IF @ # Missing THEN [@ EXCEPT !.low = v % Half]
       ELSE [low |-> v % Half,
             high |-> IF Types[k] = "T_64BIT" THEN (v \div Half) % Half ELSE 0]]
  /\ UNCHANGED heap

(* A string or a blob: the old block is freed before a new one is taken.    *)
RamSetData(k, v) ==
  LET kept == IF props[k] = Missing THEN heap ELSE Without(props[k].data)
  IN  \E b \in Blocks \ DOMAIN kept :
        /\ heap' = With(kept, b, v)
        /\ props' = [props EXCEPT ![k] = [data |-> b]]

(* The variant that keeps the block.                                        *)
RamEraseKept(k) == props' = [props EXCEPT ![k] = Missing] /\ UNCHANGED heap

RamErase(k) ==
  /\ props' = [props EXCEPT ![k] = Missing]
  /\ heap' = IF props[k] = Missing \/ Numeric(k) THEN heap ELSE Without(props[k].data)

(***************************************************************************)
(* NVProperty                                                              *)
(***************************************************************************)
OpenPropertyStore(forWrite) ==
  /\ didOpen' = TRUE /\ allowWrite' = (allowWrite \/ forWrite)
  /\ Returned("NVP_OK")
  /\ UNCHANGED <<props, heap, flash, otp, callerVars, set>>

ClosePropertyStore ==
  /\ Returned(IF didOpen THEN "NVP_NO_PERM" ELSE "NVP_OK")
  /\ UNCHANGED <<props, heap, flash, otp, didOpen, allowWrite, callerVars, set>>

Denied ==
  /\ ~allowWrite
  /\ Returned("NVP_NO_PERM")
  /\ UNCHANGED <<props, heap, flash, otp, set>>

SetRam(k, v) ==
  /\ IF Numeric(k) THEN RamSetNumber(k, v) ELSE RamSetData(k, v)
  /\ set' = [set EXCEPT ![k] = v]
  /\ UNCHANGED <<flash, otp>>

SetFlash(k, v) == flash' = [flash EXCEPT ![k] = v] /\ UNCHANGED <<props, heap, otp, set>>
SetOtp(k, v) == otp' = [otp EXCEPT ![k] = v] /\ UNCHANGED <<props, heap, flash, set>>

SetProperty(k, v) ==
  /\ didOpen' = TRUE
  /\ \/ Denied
     \/ /\ allowWrite
        /\ SetRam(k, v) \/ SetFlash(k, v) \/ SetOtp(k, v)
        /\ Returned("NVP_OK")
  /\ UNCHANGED <<allowWrite, callerVars>>

EraseProperty(k) ==
  /\ didOpen' = TRUE
  /\ \/ Denied
     \/ /\ allowWrite
        /\ \/ /\ RamErase(k)
              /\ set' = [set EXCEPT ![k] = Missing]
              /\ UNCHANGED <<flash, otp>>
           \/ SetFlash(k, Missing)
           \/ SetOtp(k, Missing)
        /\ Returned("NVP_OK")
  /\ UNCHANGED <<allowWrite, callerVars>>

(* What GetProperty64 finds in RAM, and GetPropertyStr.                     *)
InRam(k) ==
  IF props[k] = Missing THEN Missing
  ELSE Signed(props[k].low + Half * props[k].high, Half * Half)

StringsInRam(k) ==
  IF props[k] = Missing THEN {Missing}
  ELSE IF props[k].data \in DOMAIN heap THEN {heap[props[k].data]}
  ELSE Texts \cup Blobs

(* What GetProperty does.                                                   *)
IntInRam(k) ==
  IF props[k] = Missing THEN Missing ELSE Signed(props[k].low, Half)

(* The variant that looks in the flash first.                               *)
FlashFirst(ram, k) ==
  IF flash[k] # Missing THEN flash[k] ELSE IF ram # Missing THEN ram ELSE otp[k]

Lookup(ram, k) ==
  IF ram # Missing THEN ram ELSE IF flash[k] # Missing THEN flash[k] ELSE otp[k]

Found(k, v) ==
  /\ didOpen' = TRUE
  /\ res' = [key |-> k, code |-> IF v = Missing THEN "NVP_ENOENT" ELSE "NVP_OK", value |-> v]
  /\ UNCHANGED <<props, flash, otp, allowWrite, set>>

(* The default is Missing.                                                  *)
GetProperty(k) ==
  /\ Types[k] = "T_32BIT"
  /\ Found(k, Lookup(IntInRam(k), k))
  /\ UNCHANGED <<heap, callerVars>>

GetProperty64(k) ==
  /\ Numeric(k)
  /\ Found(k, Lookup(InRam(k), k))
  /\ UNCHANGED <<heap, callerVars>>

(* A string in RAM is given out itself, one in flash or OTP memory copied.  *)
GetPropertyStr(k) ==
  /\ Types[k] = "T_STR"
  /\ \E ram \in StringsInRam(k) : Found(k, Lookup(ram, k))
  /\ \/ /\ props[k] # Missing
        /\ lent' = lent \cup {props[k].data}
        /\ UNCHANGED <<given, heap>>
     \/ /\ props[k] = Missing /\ Lookup(Missing, k) = Missing
        /\ UNCHANGED <<given, lent, heap>>
     \/ /\ props[k] = Missing /\ Lookup(Missing, k) # Missing
        /\ \E b \in Blocks \ DOMAIN heap :
             /\ heap' = With(heap, b, Lookup(Missing, k))
             /\ given' = given \cup {b}
        /\ UNCHANGED lent
  /\ UNCHANGED misreleased

(* The store in RAM returns the size, which is not NVP_OK: the others are   *)
(* asked whatever it has.                                                   *)
GetPropertyBlob(k) ==
  /\ Types[k] = "T_BLOB"
  /\ Found(k, Lookup(Missing, k))
  /\ UNCHANGED <<heap, callerVars>>

(* The caller releases what it was given, as NVProperty.h tells it to.      *)
Free ==
  /\ \/ \E b \in given :
          /\ given' = given \ {b} /\ heap' = Without(b)
          /\ UNCHANGED <<lent, misreleased>>
     \/ \E b \in lent :
          /\ lent' = lent \ {b} /\ heap' = Without(b)
          /\ misreleased' = TRUE
          /\ UNCHANGED given
  /\ Returned("NVP_OK")
  /\ UNCHANGED <<props, flash, otp, didOpen, allowWrite, set>>

Next ==
  \/ \E forWrite \in BOOLEAN : OpenPropertyStore(forWrite)
  \/ ClosePropertyStore \/ Free
  \/ \E k \in Keys :
       \/ \E v \in Values(k) : SetProperty(k, v)
       \/ EraseProperty(k)
       \/ GetProperty(k) \/ GetProperty64(k) \/ GetPropertyStr(k) \/ GetPropertyBlob(k)

Spec == Init /\ [][Next]_vars

(***************************************************************************)
(* Properties                                                              *)
(***************************************************************************)
RamBlocks == {k \in Keys : ~Numeric(k) /\ props[k] # Missing}

(* Each string and blob in RAM has a block of its own, and no block is      *)
(* lost: it is a property's or the caller's (NVProperty_SRAM.cpp:137-200).  *)
(* That is so until a caller releases a string that is in RAM: it was given *)
(* no copy (NVProperty_SRAM.cpp:81), and the next set or erase frees the    *)
(* same block again (lines 142 and 194), whoever has it by then.            *)
HeapOwned ==
  ~misreleased =>
    /\ \A j, k \in RamBlocks : props[j].data = props[k].data => j = k
    /\ DOMAIN heap = {props[k].data : k \in RamBlocks} \cup given
    /\ \A k \in RamBlocks : props[k].data \notin given

(* The invariant of the store in RAM: entries keep the type of their key,   *)
(* and the heap is in order (NVProperty_SRAM.cpp:110-200).                  *)
StoreInv == TypeOK /\ HeapOwned

(* "The order should always be S_RAM,S_FLASH, S_OTP" (NVProperty.h:75): a   *)
(* number or a string is what was last set in the first store that has the  *)
(* key, and missing only if none has.  This is of the numbers of the run    *)
(* only: setting a number again keeps the high half of an int64_t, and a    *)
(* negative int is read from RAM by GetProperty64 without its sign          *)
(* (NVProperty_SRAM.cpp:115, 73).  A blob in RAM is never found, and a      *)
(* string a caller has released there may be anything.                      *)
FirstStoreRead ==
  res.key # Missing /\ Types[res.key] # "T_BLOB" /\ (Types[res.key] = "T_STR" => ~misreleased) =>
    LET k == res.key
    IN  res.value = IF set[k] # Missing THEN set[k]
                    ELSE IF flash[k] # Missing THEN flash[k] ELSE otp[k]
=============================================================================
