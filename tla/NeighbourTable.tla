--------------------------- MODULE NeighbourTable ---------------------------
(***************************************************************************)
(* What a node promises about its neighbours: a bounded table with one     *)
(* entry per neighbour, the strength of its last packet in it.  A          *)
(* neighbour is forgotten only after Timeout of silence, and a beacon      *)
(* lists the table as it is.  A strength is represented by the moment it   *)
(* was measured.                                                           *)
(***************************************************************************)
EXTENDS Naturals, FiniteSets

CONSTANTS
  Nodes,     \* addresses of other nodes
  MaxNodes,  \* capacity of the table
  Timeout    \* silence after which a neighbour may be forgotten

VARIABLES time, table, beacon

vars == <<time, table, beacon>>

Addresses(t) == {e.address : e \in t}

Init == time = 0 /\ table = {} /\ beacon = {}

Tick == time' = time + 1 /\ UNCHANGED <<table, beacon>>

(* A packet of a known node, or of a new one while there is room.           *)
Hear(a) ==
  /\ a \in Addresses(table) \/ Cardinality(table) < MaxNodes
  /\ table' = {e \in table : e.address # a}
                \cup {[address |-> a, strength |-> time]}
  /\ UNCHANGED <<time, beacon>>

(* A new node finds the table full. *)
Ignore(a) ==
  /\ a \notin Addresses(table) /\ Cardinality(table) = MaxNodes
  /\ UNCHANGED vars

Forget(e) ==
  /\ time - e.strength > Timeout
  /\ table' = table \ {e}
  /\ UNCHANGED <<time, beacon>>

(* The clock of a node wraps around; an entry that was about to time out    *)
(* then may get two timeouts more.                                          *)
Advertise ==
  /\ \A e \in table : time - e.strength <= 3 * Timeout
  /\ beacon' = table
  /\ UNCHANGED <<time, table>>

Next ==
  \/ Tick
  \/ \E a \in Nodes : Hear(a) \/ Ignore(a)
  \/ \E e \in table : Forget(e)
  \/ Advertise

Spec == Init /\ [][Next]_vars
=============================================================================
