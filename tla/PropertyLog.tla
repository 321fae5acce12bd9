---------------------------- MODULE PropertyLog ----------------------------
(***************************************************************************)
(* The log of property entries that NVProperty_MBEDFlash keeps in flash    *)
(* and NVProperty_L4OTP in one-time programmable memory: a header, then    *)
(* entries of a whole number of pages, the latest entry of a key counting, *)
(* up to the first erased page.  Operators only; a log is a function from  *)
(* page numbers to cells, page 0 holding the header.                       *)
(*                                                                         *)
(* A value is a record [type, n]: an integer n, or a string or blob of n   *)
(* bytes (the terminating zero not counted) whose contents nobody looks at.*)
(***************************************************************************)
EXTENDS Integers, Sequences, FiniteSetsExt

CONSTANTS
  Keys,         \* property keys in use
  PageSize,     \* bytes programmed at once
  NumPages,     \* pages of the store
  MaxDataEntry, \* MAX_DATA_ENTRY: 256 in flash, 248 in OTP memory
  Values        \* values the user sets

(* The header's eight bytes take one page, and so do the key, type and     *)
(* length of an entry.                                                     *)
ASSUME LogAssumption ==
  PageSize \in Nat /\ PageSize >= 8 /\ NumPages \in Nat \ {0} /\ MaxDataEntry \in Nat \ {0}

(* Keys 0 and 255 are none (NVProperty.h:175).                             *)
ASSUME KeyAssumption == Keys \subseteq 1..254

ASSUME ValueAssumption ==
  Values \subseteq [type : {"int"}, n : Int] \cup [type : {"str", "blob"}, n : Nat]

FLASH_ENTRY_HEADER       == 4
FLASH_ENTRY_HEADER_SHORT == 2

Missing == [type |-> "none", n |-> 0]        \* no such property
Garbled == [type |-> "garbled", n |-> 0]     \* bytes nobody stored

Erased    == [kind |-> "erased"]
Header    == [kind |-> "header"]
Entry(k, v)    == [kind |-> "entry", key |-> k, val |-> v]
Deletion(k)    == [kind |-> "deletion", key |-> k]
Data(v, i)     == [kind |-> "data", val |-> v, page |-> i]

Cells == {Erased, Header} \cup {Entry(k, v) : k \in Keys, v \in Values}
         \cup {Deletion(k) : k \in Keys}
         \cup {Data(v, i) : v \in Values, i \in 1..NumPages}

(* The storage type follows the number, not the caller's type.             *)
IntLen(n) ==
  IF n \in {0, 1} THEN FLASH_ENTRY_HEADER_SHORT
  ELSE IF -32768 <= n /\ n <= 32767 THEN FLASH_ENTRY_HEADER
  ELSE IF -2147483647 < n /\ n <= 2147483647 THEN FLASH_ENTRY_HEADER + 4
  ELSE FLASH_ENTRY_HEADER + 8

(* What is copied into the entry, and the one-byte length put beside it.   *)
CopyLen(v) == IF v.type = "str" THEN Min({v.n, MaxDataEntry - 1}) + 1
                                ELSE Min({v.n, MaxDataEntry})

DLen(v) == CopyLen(v) % 256

Padded(len) == (len + PageSize - 1) \div PageSize

ValuePages(v) ==
  Padded(IF v.type = "int" THEN IntLen(v.n) ELSE FLASH_ENTRY_HEADER + DLen(v))

(* Pages an entry must have for its value to be read back whole.           *)
NeededPages(v) ==
  IF v.type = "str" THEN Padded(FLASH_ENTRY_HEADER + CopyLen(v)) ELSE ValuePages(v)

Encode(k, v) == <<Entry(k, v)>> \o [i \in 1..(ValuePages(v) - 1) |-> Data(v, i)]

-----------------------------------------------------------------------------
(* Following the log.  A page inside a value is no entry: read as one, a     *)
(* negative number's has the erased key 0xff, a text's some foreign key and *)
(* length, and the entries behind it are lost either way.                   *)

IsEnd(c) == c.kind \in {"erased", "data"}

(* Faulty variant: a length without its padding.                            *)
EntryPagesUnpadded(c) ==
  IF c.kind = "entry" /\ c.val.type # "int"
    THEN (FLASH_ENTRY_HEADER + DLen(c.val)) \div PageSize ELSE 1

EntryPages(c) == IF c.kind = "entry" THEN ValuePages(c.val) ELSE 1

AtEnd(log, p) == IF p >= NumPages THEN TRUE ELSE IsEnd(log[p])

(* The places the walk visits from a page on, its end included.             *)
Walk(log, from) ==
  LET step[p \in Nat] ==
        IF AtEnd(log, p) THEN {p}
        ELSE {p} \cup step[p + EntryPages(log[p])]
  IN  step[from]

LogEnd(log) == Max(Walk(log, 1))

Visited(log, from) == {p \in Walk(log, from) : ~AtEnd(log, p)}

KeyAt(log, p, k) == log[p].kind \in {"entry", "deletion"} /\ log[p].key = k

(* Faulty variant: the first entry of a key is taken.                       *)
GetFirstEntry(log, k, from) ==
  LET mine == {p \in Visited(log, from) : KeyAt(log, p, k)}
  IN  {p \in mine : p = Min(mine) /\ log[p].kind = "entry"}

(* The entry of a key that counts, as a set: empty if there is none or the  *)
(* latest one is a deletion.                                                *)
GetFlashEntry(log, k, from) ==
  LET mine == {p \in Visited(log, from) : KeyAt(log, p, k)}
  IN  {p \in mine : p = Max(mine) /\ log[p].kind = "entry"}

(* The bytes of a number from byte b on are all ones.                       *)
OnesFrom(n, b) ==
  LET rest[i \in Nat] == IF i = 0 THEN n ELSE rest[i - 1] \div 256
  IN  rest[b] = -1

(* A page that was not programmed reads as ones: those of a number may be,  *)
(* those of a text or blob are taken for others than what was meant.        *)
ReadsAs(c, v, i) ==
  \/ c = Data(v, i)
  \/ c = Erased /\ v.type = "int" /\ OnesFrom(v.n, i * PageSize - FLASH_ENTRY_HEADER)

ReadEntry(log, p) ==
  LET v == log[p].val
      uncut == CASE v.type = "str" -> v.n < CopyLen(v)
                 [] v.type = "blob" -> v.n = DLen(v)
                 [] OTHER -> TRUE
      whole == uncut /\ \A i \in 1..(NeededPages(v) - 1) :
                          p + i < NumPages /\ ReadsAs(log[p + i], v, i)
  IN  IF whole THEN v ELSE Garbled

Get(log, k) ==
  LET es == GetFlashEntry(log, k, 1)
  IN  IF es = {} THEN Missing ELSE ReadEntry(log, Max(es))

View(log) == [k \in Keys |-> Get(log, k)]

NVP_ENOENT == -305419911

(* A number is compared with what GetProperty64 returns: a code if there is *)
(* no property, a length if it is a string or blob.  (What is left of a     *)
(* number cut short is taken for a number nobody sets.)                     *)
TakenFor(log, k, n) ==
  LET es == GetFlashEntry(log, k, 1)
      v  == log[Max(es)].val
  IN  IF es = {} THEN n = NVP_ENOENT ELSE v.type # "int" /\ n = DLen(v)

(* The values the setters do not write again.                               *)
AlreadyStored(log, k, v) ==
  \/ Get(log, k) = v /\ (v.type = "blob" => v.n = DLen(v))
  \/ v.type = "int" /\ TakenFor(log, k, v.n)

(* Live entries of the log from a page on, and the pages all of them take.  *)
Live(log, from) ==
  {p \in Visited(log, from) :
     \E k \in Keys : KeyAt(log, p, k) /\ p \in GetFlashEntry(log, k, from)}

LivePages(log) ==
  LET pages[p \in Nat] ==
        IF AtEnd(log, p) THEN 0
        ELSE pages[p + EntryPages(log[p])] + IF p \in Live(log, 1) THEN EntryPages(log[p]) ELSE 0
  IN  pages[1]
=============================================================================
