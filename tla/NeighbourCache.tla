--------------------------- MODULE NeighbourCache ---------------------------
(***************************************************************************)
(* The neighbour cache of SlightlightProtocol.cpp: on_packet enters the    *)
(* sender of a packet, craft_packet removes unresponsive nodes and lists   *)
(* the others in a beacon.                                                 *)
(*                                                                         *)
(* get_ms divides the 32-bit microsecond ticker by 1000, so it falls from  *)
(* Wrap - 1 to 0 while the code subtracts time stamps modulo Word = 2^32.  *)
(* The clean-up loop of craft_packet runs without the clock: it takes far  *)
(* less than a time unit.                                                  *)
(***************************************************************************)
EXTENDS Integers, FiniteSets

CONSTANTS
  Nodes,     \* addresses of other nodes
  NoNode,    \* address 0 of an entry that was never used
  MaxNodes,  \* MAX_NODES
  Timeout,   \* NODE_TIMEOUT_MS
  Wrap,      \* get_ms () counts modulo this
  Word,      \* uint32_t arithmetic is modulo this
  MaxGap,    \* assumption: longest time from one beacon to the next
  MaxTime    \* bound: length of a behaviour

(* A node is kept from sending by the traffic it hears, and beacons at      *)
(* least every Timeout all the same.                                        *)
ASSUME CacheAssumption ==
  /\ NoNode \notin Nodes
  /\ MaxNodes \in Nat /\ Timeout \in Nat /\ Wrap \in Nat
  /\ Word \in Nat /\ MaxGap \in Nat /\ MaxTime \in Nat
  /\ MaxGap <= Timeout
  /\ 3 * Timeout < Wrap
  /\ Wrap + 2 * Timeout < Word

VARIABLES
  time,        \* the true time; only the clock and strengths know it
  now,         \* get_ms ()
  sinceClean,  \* time since the last clean-up
  pc,          \* idle, or where craft_packet is
  cache,       \* cache[MAX_NODES]
  numNodes,    \* its entries in use
  i0, i1,      \* clean-up: next free entry, next entry to look at
  packet       \* the static Packet of the main loop

clock == <<time, now, sinceClean>>
vars  == <<clock, pc, cache, numNodes, i0, i1, packet>>

Times   == 0..MaxTime
Slots   == 0..(MaxNodes - 1)
Entries == [address : Nodes \cup {NoNode}, strength : Times, tspMs : 0..(Wrap - 1)]
Fields  == [address : Nodes \cup {NoNode}, strength : Times]
Zero    == [address |-> NoNode, strength |-> 0]

TypeOK ==
  /\ time \in Times /\ now \in 0..(Wrap - 1) /\ sinceClean \in 0..MaxGap
  /\ pc \in {"idle", "for", "while", "craft"}
  /\ cache \in [Slots -> Entries]
  /\ numNodes \in 0..MaxNodes
  /\ i0 \in 0..numNodes /\ i1 \in i0..numNodes
  /\ packet \in [numNodes : 0..MaxNodes, nodes : [Slots -> Fields]]

Init ==
  /\ time = 0 /\ now = 0 /\ sinceClean = 0
  /\ pc = "idle"
  /\ cache = [i \in Slots |-> [address |-> NoNode, strength |-> 0, tspMs |-> 0]]
  /\ numNodes = 0 /\ i0 = 0 /\ i1 = 0
  /\ packet = [numNodes |-> 0, nodes |-> [i \in Slots |-> Zero]]

-----------------------------------------------------------------------------
Tick ==
  /\ pc = "idle" /\ time < MaxTime /\ sinceClean < MaxGap
  /\ time' = time + 1 /\ sinceClean' = sinceClean + 1
  /\ now' = IF now + 1 = Wrap THEN 0 ELSE now + 1
  /\ UNCHANGED <<pc, cache, numNodes, i0, i1, packet>>

(* Faulty variant: the lookup misses the last entry. *)
KnownMissesLast(a) == {i \in 0..(numNodes - 2) : cache[i].address = a}

(* The slots with address a; the lookup ends at the first, or at numNodes.  *)
Known(a) == {i \in 0..(numNodes - 1) : cache[i].address = a}

Store(ci, a) ==
  cache' = [cache EXCEPT ![ci] = [address |-> a, strength |-> time, tspMs |-> now]]

(* on_packet for a packet that passes its checks, of a node in the cache.   *)
UpdateNode(a) ==
  /\ pc = "idle"
  /\ \E ci \in Known(a) :
       (\A i \in Known(a) : ci <= i) /\ Store(ci, a)
  /\ UNCHANGED <<clock, pc, numNodes, i0, i1, packet>>

HasRoom == numNodes < MaxNodes

(* on_packet, of a node the cache does not have yet. *)
AddNode(a) ==
  /\ pc = "idle" /\ Known(a) = {} /\ HasRoom
  /\ numNodes' = numNodes + 1
  /\ Store(numNodes, a)
  /\ UNCHANGED <<clock, pc, i0, i1, packet>>

(* ... and there is no room for it. *)
CacheIsFull(a) ==
  /\ pc = "idle" /\ Known(a) = {} /\ ~HasRoom
  /\ UNCHANGED vars

-----------------------------------------------------------------------------
(* craft_packet *)

(* The main loop calls craft_packet, which calls clean_up.                  *)
CleanUp ==
  /\ pc = "idle" /\ pc' = "for"
  /\ UNCHANGED <<clock, cache, numNodes, i0, i1, packet>>

ElapsedMs(i) == (now - cache[i].tspMs) % Word

(* Faulty variant: no workaround for the overflow of get_ms. *)
ForNoWorkaround ==
  /\ pc = "for" /\ i1 < numNodes
  /\ pc' = "while"
  /\ UNCHANGED <<clock, cache, numNodes, i0, i1, packet>>

(* The body of the for loop starts with the overflow workaround.            *)
For ==
  /\ pc = "for" /\ i0 < numNodes /\ i1 < numNodes
  /\ pc' = "while"
  /\ cache' = IF ElapsedMs(i1) > 2 * Timeout
                THEN [cache EXCEPT ![i1].tspMs = now]
                ELSE cache
  /\ UNCHANGED <<clock, numNodes, i0, i1, packet>>

(* Faulty variant: nodes live twice as long. *)
IsSilentTwice(i) == ElapsedMs(i) > 2 * Timeout

IsSilent(i) == ElapsedMs(i) > Timeout

(* The while loop steps over entries that timed out.  It also reads the     *)
(* time stamp beyond the last entry, and does not use it.                   *)
RemoveNode ==
  /\ pc = "while" /\ i1 < numNodes /\ IsSilent(i1)
  /\ i1' = i1 + 1
  /\ UNCHANGED <<clock, pc, cache, numNodes, i0, packet>>

KeepNode ==
  /\ pc = "while" /\ i1 < numNodes /\ ~IsSilent(i1)
  /\ pc' = "for"
  /\ cache' = [cache EXCEPT ![i0] = cache[i1]]
  /\ i0' = i0 + 1 /\ i1' = i1 + 1
  /\ UNCHANGED <<clock, numNodes, packet>>

(* The loop ends by its condition or by the break. *)
CleanUpDone ==
  /\ pc \in {"for", "while"} /\ i1 = numNodes
  /\ pc' = "craft"
  /\ numNodes' = i0 /\ i0' = 0 /\ i1' = 0
  /\ sinceClean' = 0
  /\ UNCHANGED <<time, now, cache, packet>>

(* Faulty variant: the unused part of the packet is not cleared. *)
CraftNoClear ==
  /\ pc = "craft" /\ pc' = "idle"
  /\ packet' = [numNodes |-> numNodes,
                nodes |-> [i \in Slots |->
                  IF i < numNodes
                    THEN [address |-> cache[i].address, strength |-> cache[i].strength]
                    ELSE packet.nodes[i]]]
  /\ UNCHANGED <<clock, cache, numNodes, i0, i1>>

Craft ==
  /\ pc = "craft" /\ pc' = "idle"
  /\ packet' = [numNodes |-> numNodes,
                nodes |-> [i \in Slots |->
                  IF i < numNodes
                    THEN [address |-> cache[i].address, strength |-> cache[i].strength]
                    ELSE Zero]]
  /\ UNCHANGED <<clock, cache, numNodes, i0, i1>>

OnPacket(a) == UpdateNode(a) \/ AddNode(a) \/ CacheIsFull(a)

CraftPacket == CleanUp \/ For \/ RemoveNode \/ KeepNode \/ CleanUpDone \/ Craft

Next ==
  \/ Tick
  \/ \E a \in Nodes : OnPacket(a)
  \/ CraftPacket

Spec == Init /\ [][Next]_vars

-----------------------------------------------------------------------------
(* Entries that are in use; in the middle of a clean-up, the ones kept and  *)
(* the ones not looked at yet.                                              *)
Live == 0..(i0 - 1) \cup i1..(numNodes - 1)

(* on_packet and the clean-up never leave two entries of one node, not even *)
(* while entries move.                                                      *)
CacheUnique ==
  \A i, j \in Live : cache[i].address = cache[j].address => i = j

(* What a beacon is about to list was measured at most Timeout ago; only    *)
(* when get_ms wrapped around in between it may be two timeouts older.      *)
AdvertisedFresh ==
  pc = "craft" => \A i \in Live :
    LET age == time - cache[i].strength
    IN  age <= Timeout \/ (now < age /\ age <= 3 * Timeout)

(* Beyond its numNodes entries a beacon is all zeros: craft_packet reuses   *)
(* one static packet and nothing of an earlier beacon goes out again.       *)
PacketCleared ==
  \A i \in Slots : i >= packet.numNodes => packet.nodes[i] = Zero

(* The cache implements NeighbourTable. *)
Reading(e) == [address |-> e.address, strength |-> e.strength]

Table  == {Reading(cache[i]) : i \in Live}
Beacon == {packet.nodes[i] : i \in 0..(packet.numNodes - 1)}

Neighbours == INSTANCE NeighbourTable WITH table <- Table, beacon <- Beacon

(* One entry per node, the last reading in it; no node heard within Timeout *)
(* is forgotten, around a wrap of the clock either; none is turned away     *)
(* while there is room; and a beacon lists exactly the table.               *)
RefinesNeighbourTable == Neighbours!Spec
=============================================================================
