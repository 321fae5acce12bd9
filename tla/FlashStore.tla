----------------------------- MODULE FlashStore -----------------------------
(***************************************************************************)
(* The property stores that keep a log: the one in the program flash        *)
(* (NVProperty_MBEDFlash.cpp) and the one in one-time programmable memory   *)
(* (NVProperty_L4OTP.cpp), down to the single programming of a page and     *)
(* erasing of a row, with a power loss between any two of them.             *)
(*                                                                          *)
(* A full log in flash is reorganised in place: the entries that count are  *)
(* collected in RAM, and a row is erased and written anew as soon as enough *)
(* of them for it are there.  One-time programmable memory is never erased: *)
(* a full log refuses every change for good.                                *)
(***************************************************************************)
EXTENDS PropertyLog

CONSTANTS
  RowPages,        \* pages erased at once: _rowSize / _pageSize
  MaxPowerLosses   \* bound

(* No value is longer than a row: the buffer of _FlashReorgEntries holds a  *)
(* row and one entry more (bound: longer values are not modelled).          *)
ASSUME RowAssumption ==
  /\ RowPages \in Nat \ {0} /\ NumPages % RowPages = 0
  /\ MaxPowerLosses \in Nat
  /\ \A v \in Values : ValuePages(v) <= RowPages

VARIABLES
  medium,    \* "flash" or "otp": which store this is
  flash,     \* the pages
  pc,        \* the next step of the operation under way
  op,        \* the change under way: [key, val], Missing standing for erase
  todo, at,  \* _FlashWrite: cells still to write and where
  p, copy,   \* _FlashReorgEntries: entry reached, cells collected
  image, row, off, ret,  \* the row being erased and programmed, what follows
  res,       \* result of the last operation
  asked,     \* history: the change the last operation answered at once
  shown,     \* history: what the store held when the last operation returned
  losses,    \* power losses so far
  damaged    \* history: power was lost while reorganising, or the
             \* reorganisation lost its place in the log

writing == <<todo, at>>
moving  == <<p, copy>>
rowing  == <<image, row, off, ret>>
history == <<asked, shown, losses, damaged>>
vars    == <<medium, flash, pc, op, writing, moving, rowing, res, history>>

Rows     == NumPages \div RowPages
RowOf(a) == a \div RowPages
InRow(r) == (r * RowPages)..(r * RowPages + RowPages - 1)
NoChange == [key |-> 0, val |-> Missing]
Nothing  == [k \in Keys |-> Missing]
Reorganising == {"scan", "advance", "clear"}

TypeOK ==
  /\ medium \in {"flash", "otp"}
  /\ flash \in [0..(NumPages - 1) -> Cells]
  /\ pc \in {"off", "format", "idle", "write", "erase", "program"} \cup Reorganising
  /\ op \in [key : Keys \cup {0}, val : Values \cup {Missing}]
  /\ todo \in Seq(Cells) /\ at \in Nat
  /\ p \in Nat /\ copy \in Seq(Cells) /\ Len(copy) <= RowPages
  /\ image \in Seq(Cells) /\ Len(image) <= RowPages
  /\ row \in Nat /\ off \in 0..RowPages
  /\ ret \in {"write", "advance", "clear"}
  /\ res \in {"none", "ok", "nospace", "noent"}
  /\ asked \in [key : Keys \cup {0}, val : Values \cup {Missing}]
  /\ losses \in 0..MaxPowerLosses /\ damaged \in BOOLEAN

Init ==
  /\ medium \in {"flash", "otp"}
  /\ flash = [i \in 0..(NumPages - 1) |-> Erased]
  /\ pc = "off" /\ op = NoChange /\ res = "none"
  /\ todo = <<>> /\ at = 0 /\ p = 0 /\ copy = <<>>
  /\ image = <<>> /\ row = 0 /\ off = 0 /\ ret = "write"
  /\ asked = NoChange /\ shown = Nothing /\ losses = 0 /\ damaged = FALSE

(* The locals of an operation end with it.                                  *)
Forget ==
  /\ todo' = <<>> /\ at' = 0 /\ p' = 0 /\ copy' = <<>>
  /\ image' = <<>> /\ row' = 0 /\ off' = 0 /\ ret' = "write"

Returns(result) == pc' = "idle" /\ op' = NoChange /\ res' = result /\ Forget

Done(result) == Returns(result) /\ UNCHANGED flash /\ shown' = View(flash)

(* A change is answered at once.                                            *)
Answers(k, v, result) == Done(result) /\ asked' = [key |-> k, val |-> v]

-----------------------------------------------------------------------------
(* The constructor.  A store without a valid header is formatted in flash,  *)
(* and given a header in a memory never used.                               *)

Open ==
  /\ pc = "off"
  /\ IF flash[0] = Header THEN Done("none")
     ELSE /\ medium = "flash"
          /\ pc' = "format" /\ row' = 0
          /\ UNCHANGED <<flash, op, writing, moving, image, off, ret, res, shown>>
  /\ UNCHANGED <<asked, losses, damaged>>

Initialise ==
  /\ flash' = [flash EXCEPT ![0] = Header]
  /\ Returns("none") /\ shown' = Nothing

OpenOtp ==
  /\ pc = "off" /\ medium = "otp" /\ flash[0] = Erased
  /\ Initialise
  /\ UNCHANGED <<asked, losses, damaged>>

EraseRow(r) == flash' = [a \in DOMAIN flash |-> IF a \in InRow(r) THEN Erased ELSE flash[a]]

Format ==
  /\ pc = "format"
  /\ IF row < Rows
       THEN /\ EraseRow(row) /\ row' = row + 1
            /\ UNCHANGED <<pc, op, writing, moving, image, off, ret, res, shown>>
       ELSE Initialise
  /\ UNCHANGED <<asked, losses, damaged>>

-----------------------------------------------------------------------------
(* Operations of the user *)

(* Faulty variant: dead entries are counted.                                *)
NoSpaceBesideAll(pages) == LogEnd(flash) + pages >= NumPages

NoSpaceFor(pages) == 1 + LivePages(flash) + pages >= NumPages

StartReorg(k, v, cells) ==
  /\ pc' = "scan" /\ p' = 1 /\ copy' = <<Header>> /\ row' = 0
  /\ op' = [key |-> k, val |-> v] /\ todo' = cells /\ at' = 0
  /\ res' = "none" /\ asked' = NoChange
  /\ UNCHANGED <<flash, image, off, ret, shown>>

StartWrite(k, v, cells) ==
  /\ pc' = "write" /\ at' = LogEnd(flash) /\ todo' = cells
  /\ op' = [key |-> k, val |-> v]
  /\ res' = "none" /\ asked' = NoChange
  /\ UNCHANGED <<flash, moving, rowing, shown>>

AppendEntry(k, v, cells, full) ==
  \/ ~full /\ StartWrite(k, v, cells)
  \/ full /\ (medium = "otp" \/ NoSpaceFor(Len(cells))) /\ Answers(k, v, "nospace")
  \/ full /\ medium = "flash" /\ ~NoSpaceFor(Len(cells)) /\ StartReorg(k, v, cells)

SetProperty(k, v) ==
  /\ pc = "idle"
  /\ IF AlreadyStored(flash, k, v) THEN Answers(k, v, "ok")
     ELSE LET cells == Encode(k, v)
          IN  AppendEntry(k, v, cells, LogEnd(flash) + Len(cells) >= NumPages)
  /\ UNCHANGED <<losses, damaged>>

EraseProperty(k) ==
  /\ pc = "idle"
  /\ IF Get(flash, k) = Missing THEN Answers(k, Missing, "noent")
     ELSE AppendEntry(k, Missing, <<Deletion(k)>>, LogEnd(flash) + 1 > NumPages)
  /\ UNCHANGED <<losses, damaged>>

(* The store in one-time programmable memory says it is done.               *)
ReorgProperties ==
  /\ pc = "idle"
  /\ \/ medium = "otp" /\ Done("ok") /\ asked' = NoChange
     \/ medium = "flash" /\ NoSpaceFor(0) /\ Done("nospace") /\ asked' = NoChange
     \/ medium = "flash" /\ ~NoSpaceFor(0) /\ StartReorg(0, Missing, <<>>)
  /\ UNCHANGED <<losses, damaged>>

-----------------------------------------------------------------------------
(* _FlashReorgEntries *)

IsLatest(log, a) == \E k \in Keys : KeyAt(log, a, k) /\ a \in GetFlashEntry(log, k, a)

(* The entry reached is looked at, unless the log ends there.               *)
Scanning == pc = "scan" /\ ~AtEnd(flash, p)

(* What lies behind the store is somebody else's.                           *)
CellAt(a) == IF a < NumPages THEN flash[a] ELSE Erased

Collected == copy \o [i \in 1..EntryPages(flash[p]) |-> CellAt(p + i - 1)]

Skip ==
  /\ Scanning /\ ~IsLatest(flash, p)
  /\ p' = p + EntryPages(flash[p])
  /\ UNCHANGED <<flash, pc, op, writing, copy, rowing, res, history>>

Collect ==
  /\ Scanning /\ IsLatest(flash, p) /\ Len(Collected) < RowPages
  /\ copy' = Collected /\ p' = p + EntryPages(flash[p])
  /\ UNCHANGED <<flash, pc, op, writing, rowing, res, history>>

CollectRow ==
  /\ Scanning /\ IsLatest(flash, p) /\ Len(Collected) >= RowPages
  /\ image' = SubSeq(Collected, 1, RowPages)
  /\ copy' = SubSeq(Collected, RowPages + 1, Len(Collected))
  /\ pc' = "erase" /\ ret' = "advance"
  /\ UNCHANGED <<flash, p, op, writing, row, off, res, history>>

ScanEnds ==
  /\ pc = "scan" /\ AtEnd(flash, p)
  /\ image' = copy /\ copy' = <<>>
  /\ pc' = IF copy = <<>> THEN "clear" ELSE "erase"
  /\ ret' = "clear"
  /\ UNCHANGED <<flash, p, op, writing, row, off, res, history>>

(* The length of the entry just copied is read from where it was.  If the   *)
(* row written there holds the inside of a value now, the length is any and *)
(* the entries that follow are lost.                                        *)
Advance ==
  /\ pc = "advance"
  /\ \/ /\ ~IsEnd(flash[p])
        /\ p' = p + EntryPages(flash[p])
        /\ UNCHANGED damaged
     \/ /\ IsEnd(flash[p])
        /\ p' \in (p + 1)..NumPages
        /\ damaged' = TRUE
  /\ pc' = "scan"
  /\ UNCHANGED <<flash, op, writing, copy, rowing, res, asked, shown, losses>>

Reorganised ==
  IF todo = <<>> THEN Done("ok")
  ELSE /\ pc' = "write" /\ at' = LogEnd(flash) /\ p' = 0 /\ row' = 0 /\ ret' = "write"
       /\ UNCHANGED <<flash, op, todo, copy, image, off, res, shown>>

(* Faulty variant: the row number stays below the number of rows.           *)
ClearRoundAndRound ==
  /\ pc = "clear"
  /\ IF row < Rows
       THEN /\ EraseRow(row) /\ row' = (row + 1) % Rows
            /\ UNCHANGED <<pc, op, writing, moving, image, off, ret, res, shown>>
       ELSE Reorganised
  /\ UNCHANGED <<asked, losses, damaged>>

Clear ==
  /\ pc = "clear"
  /\ IF row < Rows
       THEN /\ EraseRow(row) /\ row' = row + 1
            /\ UNCHANGED <<pc, op, writing, moving, image, off, ret, res, shown>>
       ELSE Reorganised
  /\ UNCHANGED <<asked, losses, damaged>>

-----------------------------------------------------------------------------
(* A row erased and programmed, and _FlashWrite *)

Erase ==
  /\ pc = "erase"
  /\ EraseRow(row)
  /\ pc' = "program" /\ off' = 0
  /\ UNCHANGED <<op, writing, moving, image, row, ret, res, history>>

Program ==
  /\ pc = "program"
  /\ flash' = [flash EXCEPT ![row * RowPages + off] = image[off + 1]]
  /\ IF off + 1 = Len(image)
       THEN pc' = ret /\ row' = row + 1 /\ off' = 0 /\ image' = <<>>
       ELSE off' = off + 1 /\ UNCHANGED <<pc, row, image>>
  /\ UNCHANGED <<op, writing, moving, ret, res, history>>

(* Faulty variant: the second page of a value is programmed over the first. *)
WriteInPlace ==
  /\ pc = "write" /\ todo # <<>>
  /\ flash' = [flash EXCEPT ![at] = Head(todo)]
  /\ todo' = Tail(todo)
  /\ UNCHANGED <<pc, at, op, moving, rowing, res, history>>

(* A page that is erased is programmed; otherwise the row is rewritten with *)
(* what fits into it.  One-time programmable memory is programmed as it is. *)
Write ==
  /\ pc = "write" /\ todo # <<>>
  /\ IF CellAt(at) = Erased \/ medium = "otp"
       THEN /\ flash' = [flash EXCEPT ![at] = Head(todo)]
            /\ todo' = Tail(todo) /\ at' = at + 1
            /\ UNCHANGED <<pc, rowing>>
     ELSE LET n == Min({Len(todo), RowPages - (at % RowPages)})
              r == RowOf(at)
          IN  /\ image' = [i \in 1..RowPages |->
                             LET a == r * RowPages + i - 1
                             IN  IF a \in at..(at + n - 1) THEN todo[a - at + 1] ELSE flash[a]]
              /\ todo' = SubSeq(todo, n + 1, Len(todo)) /\ at' = at + n
              /\ row' = r /\ ret' = "write" /\ pc' = "erase"
              /\ UNCHANGED <<flash, off>>
  /\ UNCHANGED <<op, moving, res, history>>

WriteDone ==
  /\ pc = "write" /\ todo = <<>>
  /\ Done("ok")
  /\ UNCHANGED <<asked, losses, damaged>>

-----------------------------------------------------------------------------

(* While a reorganisation runs; the row rewritten by _FlashWrite is in the  *)
(* same danger.                                                             *)
InDanger == pc \in Reorganising \cup {"erase", "program"}

PowerLoss ==
  /\ pc # "off" /\ losses < MaxPowerLosses
  /\ losses' = losses + 1
  /\ damaged' = (damaged \/ InDanger)
  /\ pc' = "off" /\ res' = "none" /\ asked' = NoChange
  /\ Forget
  /\ UNCHANGED <<flash, op, shown>>

(* GetProperty64, GetPropertyStr, GetPropertyBlob: what they return is View. *)
Read == pc = "idle" /\ Done("ok") /\ asked' = NoChange /\ UNCHANGED <<losses, damaged>>

Operation ==
  \/ Read \/ ReorgProperties
  \/ \E k \in Keys : EraseProperty(k) \/ \E v \in Values : SetProperty(k, v)

Step == /\ UNCHANGED medium
        /\ \/ Open \/ OpenOtp \/ Format
           \/ Skip \/ Collect \/ CollectRow \/ ScanEnds \/ Advance \/ Clear
           \/ Erase \/ Program \/ Write \/ WriteDone

Next == Step \/ (UNCHANGED medium /\ (Operation \/ PowerLoss))

Spec == Init /\ [][Next]_vars

(* An operation under way goes on: WF_vars(Step) with its ENABLED written    *)
(* out.  Every step changes pc, p, row, off or todo, so that one is enabled  *)
(* unless the store is idle.                                                *)
Fairness == []<>(pc = "idle") \/ []<><<Step>>_vars

FairSpec == Spec /\ Fairness

-----------------------------------------------------------------------------
(* Refinement mapping: a change shows when its operation returns. *)

Cost(v) == IF v \in {Missing, Garbled} THEN 0 ELSE ValuePages(v)

(* A number may be taken for stored already because of what is there.       *)
Confused(old, new) ==
  /\ new.type = "int"
  /\ \/ old = Missing /\ new.n = NVP_ENOENT
     \/ old = Garbled
     \/ old.type \in {"str", "blob"} /\ new.n = DLen(old)

Phase ==
  CASE pc \in {"off", "format"}     -> "off"
    [] pc = "idle"                  -> "idle"
    [] pc \in Reorganising          -> "moving"
    [] pc = "write"                 -> "busy"
    [] pc \in {"erase", "program"}  -> IF ret = "write" THEN "busy" ELSE "moving"

PM == INSTANCE PropertyMap WITH
        map <- shown, pending <- op, phase <- Phase, answer <- res, Room <- NumPages - 1

(* The store is a map of properties: a change that is answered with yes     *)
(* takes effect as a whole and touches nothing else, and a power loss can   *)
(* harm the property being written only; also when the log is reorganised   *)
(* in place, unless power is lost meanwhile or a value of more than one     *)
(* page makes it lose its place (NVProperty_MBEDFlash as a whole, with line *)
(* 712).  A number may go unwritten where the lengths and codes             *)
(* GetProperty64 returns are taken for it (AlreadyStored).                  *)
RefinesPropertyMap == PM!Spec

(* A change is refused only when the live entries leave no room for it      *)
(* (lines 362-365 with 667-668): dead entries never do.  What a value cut   *)
(* short takes is left open.                                                *)
RefusedOnlyWhenFull ==
  [][res' = "nospace" /\ medium = "flash" /\ ~damaged /\ (\A k \in Keys : shown[k] # Garbled) =>
       \A k \in Keys, v \in Values :
         SetProperty(k, v) => PM!Used(shown) + Cost(v) >= NumPages - 1]_vars

(* A page is programmed only when it is erased, and one-time programmable   *)
(* memory never changes again: after a value was cut short, too, the next   *)
(* entry starts behind what was programmed (_GetFlashEntryLen against       *)
(* _FlashWrite and _OTPWrite).                                              *)
ProgrammedOnce ==
  [][\A a \in DOMAIN flash : flash[a] # Erased /\ flash'[a] # flash[a]
       => medium = "flash" /\ flash'[a] = Erased]_vars

(* The log ends at an erased page, never inside a value: a change cut short *)
(* by a power loss has not shifted the entries behind it (_GetFlashEntryLen *)
(* against what _FlashWrite wrote).                                         *)
Aligned ==
  ~damaged /\ pc = "idle" /\ LogEnd(flash) < NumPages =>
     flash[LogEnd(flash)].kind = "erased"

(* What is read, written or erased of an intact store is part of it.        *)
WithinStore ==
  ~damaged => /\ pc = "write" => at + Len(todo) <= NumPages
              /\ pc \in {"scan", "advance"} => p <= NumPages
              /\ pc \in {"erase", "program"} => row < Rows

(* The invariant of the log: no location leaves the store, only what the    *)
(* code writes is in it, and it is aligned                                  *)
(* (NVProperty_MBEDFlash.cpp:588-630 and 653-720).                          *)
LogInv == TypeOK /\ Aligned /\ WithinStore

(* What begins ends (no operation of the store loops for ever).             *)
EveryOperationEnds == (pc # "idle") ~> (pc = "idle")
=============================================================================
