------------------------------ MODULE MyBuffer ------------------------------
(***************************************************************************)
(* The software ring buffer of the UARTs (MyBuffer.h).  A buffer is an     *)
(* array of Size elements and two locations, where the next byte is put    *)
(* and where the oldest one is.  Both wrap one element before the end of   *)
(* the array.  There is no count of the bytes and no test for a full       *)
(* buffer.                                                                 *)
(***************************************************************************)
EXTENDS Integers, Sequences

CONSTANT Size      \* elements of the array

ASSUME SizeAssumption == Size \in Nat /\ Size >= 2

Elements == 0..(Size - 1)

(* A location after the `%=' of put and get: the last element is not used.  *)
Reduce(loc) == loc % (Size - 1)

Locations == 0..(Size - 2)

available(wloc, rloc) == wloc # rloc

Capacity == Size - 2

(* How many bytes wait between two locations, where, and which.             *)
Held(wloc, rloc) == IF wloc >= rloc THEN wloc - rloc ELSE wloc + (Size - 1) - rloc

Element(rloc, i) ==
  IF rloc + i - 1 >= Size - 1 THEN rloc + i - Size ELSE rloc + i - 1

Unread(buf, wloc, rloc) == [i \in 1..Held(wloc, rloc) |-> buf[Element(rloc, i)]]
=============================================================================
