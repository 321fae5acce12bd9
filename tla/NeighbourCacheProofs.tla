------------------------ MODULE NeighbourCacheProofs ------------------------
(***************************************************************************)
(* Theorems about the neighbour cache, for every capacity, timeout and     *)
(* clock width that CacheAssumption admits.                                *)
(***************************************************************************)
EXTENDS NeighbourCache, FiniteSetTheorems, TLAPS

(* Time stamps are below Wrap: their difference modulo Word.                *)
LEMMA ElapsedValue ==
  ASSUME NEW a \in 0..(Wrap - 1), NEW b \in 0..(Wrap - 1)
  PROVE  (a - b) % Word = IF b <= a THEN a - b ELSE a - b + Word
<1>1. Word \in Nat /\ Wrap \in Nat /\ Wrap < Word
  BY CacheAssumption
<1> QED
  BY <1>1

-----------------------------------------------------------------------------
LEMMA InitType == Init => TypeOK
  BY CacheAssumption DEF Init, TypeOK, Times, Slots, Entries, Fields, Zero

LEMMA StepType == TypeOK /\ [Next]_vars => TypeOK'
<1> SUFFICES ASSUME TypeOK, [Next]_vars PROVE TypeOK'
  OBVIOUS
<1> USE CacheAssumption DEF TypeOK, Times, Slots
<1>1. CASE Tick
  BY <1>1 DEF Tick
<1>2. ASSUME NEW a \in Nodes, UpdateNode(a) PROVE TypeOK'
  <2>1. PICK ci \in Known(a) : Store(ci, a)
    BY <1>2 DEF UpdateNode
  <2>2. ci \in Slots /\ ci \in 0..(numNodes - 1)
    BY <2>1 DEF Known
  <2>3. [address |-> a, strength |-> time, tspMs |-> now] \in Entries
    BY DEF Entries
  <2>4. cache' \in [Slots -> Entries]
    BY <2>1, <2>2, <2>3 DEF Store
  <2> QED
    BY <1>2, <2>4 DEF UpdateNode, clock
<1>3. ASSUME NEW a \in Nodes, AddNode(a) PROVE TypeOK'
  <2>1. [address |-> a, strength |-> time, tspMs |-> now] \in Entries
    BY DEF Entries
  <2>2. cache' \in [Slots -> Entries]
    BY <1>3, <2>1 DEF AddNode, Store, HasRoom
  <2> QED
    BY <1>3, <2>2 DEF AddNode, HasRoom, clock
<1>4. ASSUME NEW a \in Nodes, CacheIsFull(a) PROVE TypeOK'
  BY <1>4 DEF CacheIsFull, vars, clock
<1>5. CASE CleanUp
  BY <1>5 DEF CleanUp, clock
<1>6. CASE For
  <2>1. cache' \in [Slots -> Entries]
    BY <1>6 DEF For, Entries
  <2> QED
    BY <1>6, <2>1 DEF For, clock
<1>7. CASE RemoveNode
  BY <1>7 DEF RemoveNode, clock
<1>8. CASE KeepNode
  <2>1. cache' \in [Slots -> Entries]
    BY <1>8 DEF KeepNode
  <2> QED
    BY <1>8, <2>1 DEF KeepNode, clock
<1>9. CASE CleanUpDone
  BY <1>9 DEF CleanUpDone
<1>10. CASE Craft
  <2>1. \A i \in Slots : i < numNodes =>
          [address |-> cache[i].address, strength |-> cache[i].strength] \in Fields
    BY DEF Entries, Fields
  <2>2. packet' \in [numNodes : 0..MaxNodes, nodes : [Slots -> Fields]]
    BY <1>10, <2>1 DEF Craft, Fields, Zero
  <2> QED
    BY <1>10, <2>2 DEF Craft, clock
<1>11. CASE UNCHANGED vars
  BY <1>11 DEF vars, clock
<1> QED
  BY <1>1, <1>2, <1>3, <1>4, <1>5, <1>6, <1>7, <1>8, <1>9, <1>10, <1>11
     DEF Next, OnPacket, CraftPacket

(* The cache never holds more entries than it has slots, and the clean-up   *)
(* never indexes beyond the entries in use, for every capacity.             *)
THEOREM TypeCorrect == Spec => []TypeOK
  BY InitType, StepType, PTL DEF Spec

-----------------------------------------------------------------------------
(* The inductive invariant.  An entry in use was stamped on this turn of    *)
(* the clock, or on the last one and not cleaned up since, or the clean-up  *)
(* after the last wrap stamped it again (the overflow workaround).          *)

Direct(i) ==
  /\ cache[i].tspMs <= now
  /\ time - cache[i].strength = now - cache[i].tspMs
  /\ now - cache[i].tspMs <= Timeout + sinceClean

Wrapped(i) ==
  /\ cache[i].tspMs > now /\ now < sinceClean
  /\ time - cache[i].strength = now - cache[i].tspMs + Wrap
  /\ time - cache[i].strength <= Timeout + sinceClean

Refreshed(i) ==
  /\ cache[i].tspMs <= now /\ cache[i].tspMs <= MaxGap
  /\ now < time - cache[i].strength
  /\ time - cache[i].strength <= now - cache[i].tspMs + 2 * Timeout
  /\ now - cache[i].tspMs <= Timeout + sinceClean

Responsive(i) == cache[i].tspMs <= now /\ now - cache[i].tspMs <= Timeout

AgeInv == \A i \in Live : Direct(i) \/ Wrapped(i) \/ Refreshed(i)

(* Between clean-ups its indices are 0; within one, the entries kept so far *)
(* are responsive and the one looked at is not older than the last wrap.    *)
ScanInv ==
  /\ pc \in {"idle", "craft"} => i0 = 0 /\ i1 = 0
  /\ pc \in {"for", "while"} => \A i \in 0..(i0 - 1) : Responsive(i)
  /\ pc = "craft" => \A i \in Live : Responsive(i)
  /\ pc = "while" /\ i1 < numNodes => cache[i1].tspMs <= now

CacheInv == TypeOK /\ ScanInv /\ CacheUnique /\ AgeInv

LEMMA InitCache == Init => CacheInv
<1> SUFFICES ASSUME Init PROVE CacheInv
  OBVIOUS
<1>1. TypeOK
  BY InitType
<1>2. Live = {}
  BY DEF Init, Live
<1> QED
  BY <1>1, <1>2 DEF Init, CacheInv, ScanInv, CacheUnique, AgeInv

(* What TypeOK says about the entries in use. *)
LEMMA LiveType ==
  ASSUME TypeOK
  PROVE  /\ time \in Nat /\ now \in 0..(Wrap - 1) /\ sinceClean \in 0..MaxGap
         /\ numNodes \in Nat /\ i0 \in Nat /\ i1 \in Nat
         /\ i0 <= i1 /\ i1 <= numNodes /\ numNodes <= MaxNodes
         /\ Live \subseteq 0..(numNodes - 1) /\ Live \subseteq Slots
         /\ \A i \in Live : cache[i].tspMs \in 0..(Wrap - 1) /\ cache[i].strength \in Nat
         /\ \A i \in Slots : cache[i].tspMs \in 0..(Wrap - 1) /\ cache[i].strength \in Nat
  BY CacheAssumption DEF TypeOK, Live, Slots, Times, Entries

(* The clock advances by one: every entry still is in one of the three      *)
(* states, and an entry can be in the third on one turn of the clock only.  *)
LEMMA TickCache == CacheInv /\ Tick => CacheInv'
<1> SUFFICES ASSUME CacheInv, Tick PROVE CacheInv'
  OBVIOUS
<1>1. TypeOK'
  BY StepType DEF Next, CacheInv
<1>2. Live' = Live /\ cache' = cache
  BY DEF Tick, Live
<1>3. ScanInv' /\ CacheUnique'
  BY <1>2 DEF CacheInv, ScanInv, CacheUnique, Tick
<1>4. ASSUME NEW i \in Live PROVE (Direct(i) \/ Wrapped(i) \/ Refreshed(i))'
  <2>1. Direct(i) \/ Wrapped(i) \/ Refreshed(i)
    BY DEF CacheInv, AgeInv
  <2>2. /\ cache[i].tspMs \in 0..(Wrap - 1) /\ cache[i].strength \in Nat
        /\ time \in Nat /\ now \in 0..(Wrap - 1) /\ sinceClean \in 0..MaxGap
    BY LiveType DEF CacheInv
  <2>3. /\ time' = time + 1 /\ sinceClean' = sinceClean + 1 /\ sinceClean < MaxGap
        /\ now' = IF now + 1 = Wrap THEN 0 ELSE now + 1
        /\ cache' = cache
    BY DEF Tick
  <2> HIDE DEF Tick
  <2> DEFINE t == cache[i].tspMs
             s == cache[i].strength
  <2>4. t \in 0..(Wrap - 1) /\ s \in Nat
    BY <2>2
  <2>5. CASE Direct(i)
    BY <2>2, <2>3, <2>5, CacheAssumption DEF Direct, Wrapped
  <2>6. CASE Wrapped(i)
    BY <2>2, <2>3, <2>6, CacheAssumption DEF Wrapped
  <2>7. CASE Refreshed(i)
    BY <2>2, <2>3, <2>7, CacheAssumption DEF Refreshed
  <2> QED
    BY <2>1, <2>5, <2>6, <2>7
<1>5. AgeInv'
  BY <1>2, <1>4 DEF AgeInv
<1> QED
  BY <1>1, <1>3, <1>5 DEF CacheInv

(* on_packet stores at a slot ci that holds the node or is the next free    *)
(* one: no other entry has its address.                                     *)
LEMMA StoreCache ==
  ASSUME CacheInv, NEW a \in Nodes, pc = "idle", NEW ci \in Slots, Store(ci, a),
         numNodes' \in {numNodes, numNodes + 1}, ci < numNodes',
         numNodes' = numNodes + 1 => ci = numNodes,
         \A i \in 0..(numNodes - 1) : cache[i].address = a => i = ci,
         UNCHANGED <<clock, pc, i0, i1>>
  PROVE  ScanInv' /\ CacheUnique' /\ AgeInv'
<1> USE DEF clock
<1>1. /\ i0 = 0 /\ i1 = 0 /\ numNodes \in Nat /\ ci \in Nat
      /\ TypeOK
  BY LiveType DEF CacheInv, ScanInv, Slots
<1>2. Live = 0..(numNodes - 1) /\ Live' = 0..(numNodes' - 1)
  BY <1>1 DEF Live
<1>3. ScanInv'
  BY <1>1 DEF ScanInv
<1>4. /\ cache'[ci] = [address |-> a, strength |-> time, tspMs |-> now]
      /\ \A i \in Slots : i # ci => cache'[i] = cache[i]
  BY <1>1 DEF Store, TypeOK
<1>5. \A i \in Live' : i # ci => i \in Live /\ i \in Slots
  <2>1. ASSUME NEW i \in Live', i # ci PROVE i \in Live
    <3>1. i \in 0..(numNodes' - 1)
      BY <1>2
    <3>2. CASE numNodes' = numNodes
      BY <1>2, <3>1, <3>2
    <3>3. CASE numNodes' = numNodes + 1
      BY <1>1, <1>2, <2>1, <3>1, <3>3
    <3> QED
      BY <3>2, <3>3
  <2>2. Live \subseteq Slots
    BY <1>1, LiveType
  <2> QED
    BY <2>1, <2>2
<1>6. CacheUnique'
  <2> SUFFICES ASSUME NEW i \in Live', NEW j \in Live',
                      cache'[i].address = cache'[j].address
               PROVE  i = j
    BY DEF CacheUnique
  <2>1. CASE i # ci /\ j # ci
    BY <1>4, <1>5, <2>1 DEF CacheInv, CacheUnique
  <2>2. CASE i = ci /\ j # ci
    BY <1>2, <1>4, <1>5, <2>2
  <2>3. CASE i # ci /\ j = ci
    BY <1>2, <1>4, <1>5, <2>3
  <2> QED
    BY <2>1, <2>2, <2>3
<1>7. ASSUME NEW i \in Live' PROVE (Direct(i) \/ Wrapped(i) \/ Refreshed(i))'
  <2>1. CASE i = ci
    <3>1. /\ cache'[i].tspMs = now' /\ cache'[i].strength = time'
          /\ time' \in Nat /\ now' \in Nat /\ sinceClean' \in Nat
      BY <1>1, <1>4, <2>1, LiveType, CacheAssumption
    <3> QED
      BY <3>1, CacheAssumption DEF Direct
  <2>2. CASE i # ci
    <3>1. cache'[i] = cache[i] /\ i \in Live
      BY <1>4, <1>5, <2>2
    <3> QED
      BY <3>1 DEF CacheInv, AgeInv, Direct, Wrapped, Refreshed
  <2> QED
    BY <2>1, <2>2
<1> QED
  BY <1>3, <1>6, <1>7 DEF AgeInv

LEMMA PacketCache ==
  ASSUME CacheInv, NEW a \in Nodes, OnPacket(a)
  PROVE  CacheInv'
<1>1. TypeOK'
  BY StepType DEF Next, CacheInv
<1>2. CASE UpdateNode(a)
  <2>1. PICK ci \in Known(a) : Store(ci, a)
    BY <1>2 DEF UpdateNode
  <2>2. numNodes \in Nat /\ numNodes <= MaxNodes /\ i0 = 0 /\ i1 = 0
    BY <1>2, LiveType DEF CacheInv, ScanInv, UpdateNode
  <2>3. ci \in 0..(numNodes - 1) /\ cache[ci].address = a
    BY <2>1 DEF Known
  <2>4. ci \in Slots
    BY <2>2, <2>3, CacheAssumption DEF Slots
  <2>5. \A i \in 0..(numNodes - 1) : cache[i].address = a => i = ci
    BY <2>2, <2>3 DEF CacheInv, CacheUnique, Live
  <2>6. ScanInv' /\ CacheUnique' /\ AgeInv'
    BY <1>2, <2>1, <2>2, <2>3, <2>4, <2>5, StoreCache DEF UpdateNode
  <2> QED
    BY <1>1, <2>6 DEF CacheInv
<1>3. CASE AddNode(a)
  <2>1. numNodes \in Slots /\ numNodes \in Nat
    BY <1>3, LiveType, CacheAssumption DEF AddNode, HasRoom, CacheInv, Slots
  <2>2. \A i \in 0..(numNodes - 1) : cache[i].address # a
    BY <1>3 DEF AddNode, Known
  <2>3. ScanInv' /\ CacheUnique' /\ AgeInv'
    BY <1>3, <2>1, <2>2, StoreCache DEF AddNode
  <2> QED
    BY <1>1, <2>3 DEF CacheInv
<1>4. CASE CacheIsFull(a)
  BY <1>1, <1>4 DEF CacheIsFull, vars, clock, CacheInv, ScanInv, CacheUnique, AgeInv,
     Live, Direct, Wrapped, Refreshed, Responsive
<1> QED
  BY <1>2, <1>3, <1>4 DEF OnPacket

(* The head of the loop stamps an entry of the last turn of the clock again *)
(* and leaves the others alone.                                             *)
LEMMA ForCache == CacheInv /\ For => CacheInv'
<1> SUFFICES ASSUME CacheInv, For PROVE CacheInv'
  OBVIOUS
<1>1. TypeOK'
  BY StepType DEF Next, CraftPacket, CacheInv
<1>2. TypeOK /\ i1 \in Live /\ i1 \in Slots /\ i1 \in Nat /\ i0 \in Nat /\ i0 <= i1
  BY LiveType DEF CacheInv, For, Live
<1>3. Live' = Live
  BY DEF For, Live
<1>4. \A i \in Slots : i # i1 => cache'[i] = cache[i]
  BY <1>2 DEF For, TypeOK
<1>5. \A i \in Slots : cache'[i].address = cache[i].address
                       /\ cache'[i].strength = cache[i].strength
  BY <1>2 DEF For, TypeOK, Entries
<1>6. CacheUnique'
  <2>1. Live \subseteq Slots
    BY <1>2, LiveType
  <2>2. \A i, j \in Live : cache'[i].address = cache'[j].address => i = j
    BY <1>5, <2>1 DEF CacheInv, CacheUnique
  <2> QED
    BY <1>3, <2>2 DEF CacheUnique
<1>7. cache'[i1].tspMs <= now /\ (Direct(i1) \/ Refreshed(i1))'
  <2> DEFINE t == cache[i1].tspMs
             s == cache[i1].strength
  <2>1. /\ t \in 0..(Wrap - 1) /\ s \in Nat
        /\ time \in Nat /\ now \in 0..(Wrap - 1) /\ sinceClean \in 0..MaxGap
    BY <1>2, LiveType
  <2>2. ElapsedMs(i1) = IF t <= now THEN now - t ELSE now - t + Word
    BY <2>1, ElapsedValue DEF ElapsedMs
  <2>3. Direct(i1) \/ Wrapped(i1) \/ Refreshed(i1)
    BY <1>2 DEF CacheInv, AgeInv
  <2>4. time' = time /\ now' = now /\ sinceClean' = sinceClean /\ i1' = i1
    BY DEF For, clock
  <2>5. cache'[i1].strength = s
    BY <1>2, <1>5
  <2>6. CASE ElapsedMs(i1) > 2 * Timeout
    <3>1. cache'[i1].tspMs = now
      BY <1>2, <2>6 DEF For, TypeOK, Entries
    <3>2. Wrapped(i1)
      <4>1. ~Direct(i1)
        BY <2>1, <2>2, <2>6, CacheAssumption DEF Direct
      <4>2. ~Refreshed(i1)
        BY <2>1, <2>2, <2>6, CacheAssumption DEF Refreshed
      <4> QED
        BY <2>3, <4>1, <4>2
    <3>3. Refreshed(i1)'
      BY <2>1, <2>4, <2>5, <3>1, <3>2, CacheAssumption DEF Wrapped, Refreshed
    <3> QED
      BY <2>1, <3>1, <3>3
  <2>7. CASE ~(ElapsedMs(i1) > 2 * Timeout)
    <3>1. cache' = cache
      BY <2>7 DEF For
    <3>2. ~Wrapped(i1)
      BY <2>1, <2>2, <2>7, CacheAssumption DEF Wrapped
    <3>3. (Direct(i1) \/ Refreshed(i1))'
      BY <2>3, <2>4, <3>1, <3>2 DEF Direct, Refreshed
    <3>4. cache'[i1].tspMs <= now
      BY <2>4, <3>3 DEF Direct, Refreshed
    <3> QED
      BY <3>3, <3>4
  <2> QED
    BY <2>6, <2>7
<1>8. i1' = i1 /\ cache'[i1].tspMs <= now'
  BY <1>7 DEF For, clock
<1>9. ScanInv'
  <2>1. \A i \in 0..(i0 - 1) : i \in Slots /\ i # i1 /\ Responsive(i)
    BY <1>2, CacheAssumption DEF CacheInv, ScanInv, For, Slots
  <2>2. \A i \in 0..(i0' - 1) : Responsive(i)'
    BY <1>4, <2>1 DEF Responsive, For, clock
  <2> QED
    BY <1>8, <2>2 DEF ScanInv, For
<1>10. AgeInv'
  <2> SUFFICES ASSUME NEW i \in Live PROVE (Direct(i) \/ Wrapped(i) \/ Refreshed(i))'
    BY <1>3 DEF AgeInv
  <2>1. CASE i = i1
    BY <1>7, <1>8, <2>1 DEF Direct, Refreshed
  <2>2. CASE i # i1
    <3>1. cache'[i] = cache[i]
      BY <1>2, <1>4, <2>2, LiveType
    <3>2. Direct(i) \/ Wrapped(i) \/ Refreshed(i)
      BY DEF CacheInv, AgeInv
    <3> QED
      BY <3>1, <3>2 DEF Direct, Wrapped, Refreshed, For, clock
  <2> QED
    BY <2>1, <2>2
<1> QED
  BY <1>1, <1>6, <1>9, <1>10 DEF CacheInv

(* The entry the clean-up removes: it has not been heard for Timeout.  Nor  *)
(* can the next one date from the last turn of the clock, for the clock has *)
(* come further on this one than the last clean-up is away.                 *)
LEMMA RemovedIsSilent ==
  ASSUME CacheInv, RemoveNode
  PROVE  /\ i1 \in Live /\ time - cache[i1].strength > Timeout
         /\ \A i \in Live : cache[i].tspMs <= now
<1> DEFINE t == cache[i1].tspMs
           s == cache[i1].strength
<1>1. TypeOK /\ i1 \in Live /\ i1 \in Slots
  BY LiveType DEF CacheInv, RemoveNode, Live
<1>2. /\ t \in 0..(Wrap - 1) /\ s \in Nat
      /\ time \in Nat /\ now \in 0..(Wrap - 1) /\ sinceClean \in 0..MaxGap
  BY <1>1, LiveType
<1>3. t <= now
  BY DEF CacheInv, ScanInv, RemoveNode
<1>4. now - t > Timeout
  <2>1. ElapsedMs(i1) = now - t
    BY <1>2, <1>3, ElapsedValue DEF ElapsedMs
  <2> QED
    BY <2>1 DEF RemoveNode, IsSilent
<1>5. Direct(i1) \/ Refreshed(i1)
  BY <1>1, <1>2, <1>3 DEF CacheInv, AgeInv, Wrapped
<1>6. time - s > Timeout
  BY <1>2, <1>4, <1>5, CacheAssumption DEF Direct, Refreshed
<1>7. now >= sinceClean
  BY <1>2, <1>4, CacheAssumption
<1>8. \A i \in Live : cache[i].tspMs <= now
  <2> SUFFICES ASSUME NEW i \in Live PROVE cache[i].tspMs <= now
    OBVIOUS
  <2>1. ~Wrapped(i)
    BY <1>2, <1>7, CacheAssumption DEF Wrapped
  <2> QED
    BY <2>1 DEF CacheInv, AgeInv, Direct, Refreshed
<1> QED
  BY <1>1, <1>6, <1>8

LEMMA RemoveCache == CacheInv /\ RemoveNode => CacheInv'
<1> SUFFICES ASSUME CacheInv, RemoveNode PROVE CacheInv'
  OBVIOUS
<1>1. TypeOK' /\ TypeOK
  BY StepType DEF Next, CraftPacket, CacheInv
<1>2. Live' = Live \ {i1}
  BY <1>1, LiveType DEF RemoveNode, Live
<1>3. \A i \in Live : (Direct(i) \/ Wrapped(i) \/ Refreshed(i))
                      => (Direct(i) \/ Wrapped(i) \/ Refreshed(i))'
  BY DEF Direct, Wrapped, Refreshed, RemoveNode, clock
<1>4. AgeInv' /\ CacheUnique'
  BY <1>2, <1>3 DEF CacheInv, AgeInv, CacheUnique, RemoveNode
<1>5. i1' < numNodes' => cache'[i1'].tspMs <= now'
  <2>1. i1' < numNodes' => i1' \in Live
    BY <1>1, LiveType DEF RemoveNode, Live
  <2> QED
    BY <2>1, RemovedIsSilent DEF RemoveNode, clock
<1>6. ScanInv'
  BY <1>5 DEF CacheInv, ScanInv, RemoveNode, Responsive, clock
<1> QED
  BY <1>1, <1>4, <1>6 DEF CacheInv

(* A kept entry moves from slot i1 to slot i0; the slots in use before and  *)
(* after it correspond one to one.                                          *)
LEMMA KeepLive ==
  ASSUME TypeOK, KeepNode
  PROVE  /\ i1 \in Live /\ i0 \in Live'
         /\ cache'[i0] = cache[i1]
         /\ \A i \in Live' : i # i0 => i \in Live /\ i # i1 /\ cache'[i] = cache[i]
         /\ \A i \in Live : i # i1 => i \in Live' /\ i # i0
<1>1. /\ numNodes \in Nat /\ i0 \in Nat /\ i1 \in Nat /\ i0 <= i1 /\ i1 < numNodes
      /\ numNodes <= MaxNodes /\ MaxNodes \in Nat
  BY LiveType, CacheAssumption DEF KeepNode
<1>2. cache'[i0] = cache[i1] /\ \A i \in Slots : i # i0 => cache'[i] = cache[i]
  BY <1>1 DEF KeepNode, TypeOK, Slots
<1>3. Live' = 0..i0 \cup (i1 + 1)..(numNodes - 1)
  BY <1>1 DEF KeepNode, Live
<1>4. Live = 0..(i0 - 1) \cup i1..(numNodes - 1)
  BY DEF Live
<1>5. i1 \in Live /\ i0 \in Live'
  BY <1>1, <1>3, <1>4
<1>6. \A i \in Live' : i # i0 => i \in Live /\ i # i1
  BY <1>1, <1>3, <1>4
<1>7. \A i \in Live : i # i1 => i \in Live' /\ i # i0
  BY <1>1, <1>3, <1>4
<1> QED
  BY <1>2, <1>5, <1>6, <1>7, LiveType

LEMMA KeepCache == CacheInv /\ KeepNode => CacheInv'
<1> SUFFICES ASSUME CacheInv, KeepNode PROVE CacheInv'
  OBVIOUS
<1>1. TypeOK' /\ TypeOK
  BY StepType DEF Next, CraftPacket, CacheInv
<1>2. time' = time /\ now' = now /\ sinceClean' = sinceClean
  BY DEF KeepNode, clock
<1>3. CacheUnique'
  <2> SUFFICES ASSUME NEW i \in Live', NEW j \in Live',
                      cache'[i].address = cache'[j].address
               PROVE  i = j
    BY DEF CacheUnique
  <2> USE <1>1, KeepLive
  <2>1. CASE i = i0 /\ j # i0
    BY <2>1 DEF CacheInv, CacheUnique
  <2>2. CASE i # i0 /\ j = i0
    BY <2>2 DEF CacheInv, CacheUnique
  <2>3. CASE i # i0 /\ j # i0
    BY <2>3 DEF CacheInv, CacheUnique
  <2> QED
    BY <2>1, <2>2, <2>3
<1>4. AgeInv'
  <2> SUFFICES ASSUME NEW i \in Live' PROVE (Direct(i) \/ Wrapped(i) \/ Refreshed(i))'
    BY DEF AgeInv
  <2>1. PICK j \in Live : cache'[i] = cache[j]
    BY <1>1, KeepLive
  <2>2. Direct(j) \/ Wrapped(j) \/ Refreshed(j)
    BY DEF CacheInv, AgeInv
  <2> QED
    BY <1>2, <2>1, <2>2 DEF Direct, Wrapped, Refreshed
<1>5. ScanInv'
  <2>1. cache[i1].tspMs <= now /\ now - cache[i1].tspMs <= Timeout
    <3>1. i1 \in Live /\ i1 \in Slots
      BY <1>1, KeepLive, LiveType
    <3>2. cache[i1].tspMs \in 0..(Wrap - 1) /\ now \in 0..(Wrap - 1)
      BY <1>1, <3>1, LiveType
    <3>3. cache[i1].tspMs <= now
      BY DEF CacheInv, ScanInv, KeepNode
    <3>4. ElapsedMs(i1) = now - cache[i1].tspMs
      BY <3>2, <3>3, ElapsedValue DEF ElapsedMs
    <3>5. ~(now - cache[i1].tspMs > Timeout)
      BY <3>4 DEF KeepNode, IsSilent
    <3> QED
      BY <3>2, <3>3, <3>5, CacheAssumption
  <2>2. ASSUME NEW i \in 0..(i0' - 1) PROVE Responsive(i)'
    <3>1. i0 \in Nat /\ i0' = i0 + 1 /\ i \in 0..i0 /\ i \in Live'
      BY <1>1, LiveType DEF KeepNode, Live
    <3>2. CASE i = i0
      BY <1>1, <1>2, <2>1, <3>2, KeepLive DEF Responsive
    <3>3. CASE i # i0
      <4>1. Responsive(i)
        BY <3>1, <3>3 DEF CacheInv, ScanInv, KeepNode
      <4> QED
        BY <1>1, <1>2, <3>1, <3>3, <4>1, KeepLive DEF Responsive
    <3> QED
      BY <3>2, <3>3
  <2> QED
    BY <2>2 DEF ScanInv, KeepNode
<1> QED
  BY <1>1, <1>3, <1>4, <1>5 DEF CacheInv

(* The clean-up ends: the entries kept are the first i0, all responsive.    *)
LEMMA DoneCache == CacheInv /\ CleanUpDone => CacheInv' /\ Live' = Live
<1> SUFFICES ASSUME CacheInv, CleanUpDone PROVE CacheInv' /\ Live' = Live
  OBVIOUS
<1>1. TypeOK' /\ TypeOK
  BY StepType DEF Next, CraftPacket, CacheInv
<1>2. Live' = Live /\ Live = 0..(i0 - 1)
  BY <1>1, LiveType DEF CleanUpDone, Live
<1>3. CacheUnique'
  BY <1>2 DEF CacheInv, CacheUnique, CleanUpDone
<1>4. \A i \in Live : Responsive(i)
  BY <1>2 DEF CacheInv, ScanInv, CleanUpDone
<1>5. ScanInv'
  BY <1>2, <1>4 DEF ScanInv, CleanUpDone, Responsive
<1>6. AgeInv'
  <2> SUFFICES ASSUME NEW i \in Live PROVE (Direct(i) \/ Refreshed(i))'
    BY <1>2 DEF AgeInv
  <2>1. /\ cache[i].tspMs \in 0..(Wrap - 1) /\ cache[i].strength \in Nat
        /\ time \in Nat /\ now \in 0..(Wrap - 1)
    BY <1>1, LiveType
  <2>2. Direct(i) \/ Refreshed(i)
    BY <1>4, <2>1 DEF CacheInv, AgeInv, Wrapped, Responsive
  <2>3. time' = time /\ now' = now /\ sinceClean' = 0 /\ cache' = cache
    BY DEF CleanUpDone
  <2> QED
    BY <1>4, <2>1, <2>2, <2>3, CacheAssumption DEF Direct, Refreshed, Responsive
<1> QED
  BY <1>1, <1>2, <1>3, <1>5, <1>6 DEF CacheInv

LEMMA StepCache == CacheInv /\ [Next]_vars => CacheInv'
<1> SUFFICES ASSUME CacheInv, [Next]_vars PROVE CacheInv'
  OBVIOUS
<1>1. TypeOK'
  BY StepType DEF CacheInv
<1> USE DEF CacheInv, ScanInv, CacheUnique, AgeInv, Live, Direct, Wrapped, Refreshed,
        Responsive
<1>2. CASE CleanUp
  BY <1>1, <1>2 DEF CleanUp, clock
<1>3. CASE Craft
  BY <1>1, <1>3 DEF Craft, clock
<1>4. CASE UNCHANGED vars
  BY <1>1, <1>4 DEF vars, clock
<1> QED
  BY <1>2, <1>3, <1>4, TickCache, PacketCache, ForCache, RemoveCache, KeepCache, DoneCache
     DEF Next, CraftPacket

(* CacheInv holds in every state on_packet and craft_packet reach.          *)
LEMMA CacheInvariant == Spec => []CacheInv
  BY InitCache, StepCache, PTL DEF Spec

(* There are never two entries of one node, not even while a clean-up moves *)
(* entries: on_packet updates the only entry a node has.                    *)
THEOREM UniqueEntries == Spec => []CacheUnique
  BY CacheInvariant, PTL DEF CacheInv

(* No beacon lists a reading older than Timeout, or than three times that   *)
(* when get_ms wrapped since, if beacons are at most Timeout apart.         *)
THEOREM BeaconsAreFresh == Spec => []AdvertisedFresh
<1>1. CacheInv => AdvertisedFresh
  <2> SUFFICES ASSUME CacheInv, pc = "craft", NEW i \in Live
               PROVE  LET age == time - cache[i].strength
                      IN  age <= Timeout \/ (now < age /\ age <= 3 * Timeout)
    BY DEF AdvertisedFresh
  <2>1. /\ cache[i].tspMs \in 0..(Wrap - 1) /\ cache[i].strength \in Nat
        /\ time \in Nat /\ now \in 0..(Wrap - 1)
    BY LiveType DEF CacheInv
  <2>2. Responsive(i) /\ (Direct(i) \/ Refreshed(i))
    BY <2>1 DEF CacheInv, ScanInv, AgeInv, Responsive, Wrapped
  <2> QED
    BY <2>1, <2>2, CacheAssumption DEF Direct, Refreshed, Responsive
<1> QED
  BY <1>1, CacheInvariant, PTL

(* The static packet never carries an entry of an earlier, longer beacon.   *)
THEOREM UnusedIsZero == Spec => []PacketCleared
<1>1. Init => PacketCleared
  BY DEF Init, PacketCleared
<1>2. TypeOK /\ PacketCleared /\ [Next]_vars => PacketCleared'
  <2> SUFFICES ASSUME TypeOK, PacketCleared, [Next]_vars PROVE PacketCleared'
    OBVIOUS
  <2>1. CASE Craft
    <3> SUFFICES ASSUME NEW i \in Slots, i >= packet'.numNodes
                 PROVE  packet'.nodes[i] = Zero
      BY DEF PacketCleared
    <3>1. packet'.numNodes = numNodes /\ numNodes \in Nat /\ i \in Int
      BY <2>1, LiveType DEF Craft, Slots
    <3>2. ~(i < numNodes)
      BY <3>1
    <3> QED
      BY <2>1, <3>2 DEF Craft
  <2>2. CASE UNCHANGED packet
    BY <2>2 DEF PacketCleared
  <2> QED
    BY <2>1, <2>2 DEF Next, Tick, OnPacket, UpdateNode, AddNode, CacheIsFull, CraftPacket,
       CleanUp, For, RemoveNode, KeepNode, CleanUpDone, vars
<1> QED
  BY <1>1, <1>2, TypeCorrect, PTL DEF Spec

-----------------------------------------------------------------------------
(* The cache implements NeighbourTable. *)

(* Between clean-ups the table has as many elements as the cache entries.   *)
LEMMA TableSize ==
  ASSUME CacheInv, pc \in {"idle", "craft"}
  PROVE  Live = 0..(numNodes - 1) /\ Cardinality(Table) = numNodes
<1>1. Live = 0..(numNodes - 1) /\ numNodes \in Nat
  BY LiveType DEF CacheInv, ScanInv, Live
<1>2. IsFiniteSet(Live) /\ Cardinality(Live) = numNodes
  <2>1. /\ IsFiniteSet(0..(numNodes - 1))
        /\ Cardinality(0..(numNodes - 1)) =
             IF 0 > numNodes - 1 THEN 0 ELSE (numNodes - 1) - 0 + 1
    BY <1>1, FS_Interval
  <2> QED
    BY <1>1, <2>1
<1> DEFINE f == [i \in Live |-> Reading(cache[i])]
<1>3. f \in Bijection(Live, Table)
  <2>1. f \in [Live -> Table] /\ \A t \in Table : \E i \in Live : f[i] = t
    BY DEF Table
  <2>2. \A i, j \in Live : f[i] = f[j] => i = j
    BY DEF Reading, CacheInv, CacheUnique
  <2> QED
    BY <2>1, <2>2 DEF Bijection, Injection, Surjection, IsInjective
<1>4. ExistsBijection(Live, Table)
  BY <1>3 DEF ExistsBijection
<1> QED
  BY <1>1, <1>2, <1>4, FS_Bijection

(* The instance has its own name for the same operator.                     *)
LEMMA SameCardinality == \A S : Neighbours!Cardinality(S) = Cardinality(S)
  BY Zenon DEF Neighbours!Cardinality, Cardinality

(* on_packet puts the new reading in the place of the old one.              *)
LEMMA StoreTable ==
  ASSUME CacheInv, NEW a \in Nodes, pc = "idle", NEW ci \in Slots, Store(ci, a),
         ci \in Live',
         \A i \in Live' : i # ci => i \in Live /\ i \in Slots,
         \A i \in Live : i = ci \/ i \in Live',
         \A i \in Live : cache[i].address = a => i = ci,
         ci \in Live => cache[ci].address = a
  PROVE  Table' = {e \in Table : e.address # a} \cup {[address |-> a, strength |-> time]}
<1>1. /\ Reading(cache'[ci]) = [address |-> a, strength |-> time]
      /\ \A i \in Slots : i # ci => cache'[i] = cache[i]
  BY DEF Store, CacheInv, TypeOK, Reading
<1>2. Table' = {Reading(cache'[i]) : i \in Live'}
  BY DEF Table, Reading
<1>3. \A i \in Live : i # ci => Reading(cache[i]).address # a
  BY DEF Reading
<1>4. \A i \in Live : i = ci => Reading(cache[i]).address = a
  BY DEF Reading
<1>5. ASSUME NEW e \in Table' PROVE e \in {x \in Table : x.address # a}
                                          \cup {[address |-> a, strength |-> time]}
  <2>1. PICK i \in Live' : e = Reading(cache'[i])
    BY <1>2
  <2>2. CASE i = ci
    BY <1>1, <2>1, <2>2
  <2>3. CASE i # ci
    BY <1>1, <1>3, <2>1, <2>3 DEF Table
  <2> QED
    BY <2>2, <2>3
<1>6. ASSUME NEW e \in Table, e.address # a PROVE e \in Table'
  <2>1. PICK i \in Live : e = Reading(cache[i])
    BY DEF Table
  <2>2. i # ci
    BY <1>4, <1>6, <2>1
  <2>3. i \in Live' /\ i \in Slots
    BY <2>2
  <2> QED
    BY <1>1, <1>2, <2>1, <2>2, <2>3
<1>7. [address |-> a, strength |-> time] \in Table'
  BY <1>1, <1>2
<1> QED
  BY <1>5, <1>6, <1>7

LEMMA RefineInit == Init => Neighbours!Init
<1> SUFFICES ASSUME Init PROVE Neighbours!Init
  OBVIOUS
<1>1. Live = {} /\ 0..(packet.numNodes - 1) = {}
  BY DEF Init, Live
<1> QED
  BY <1>1 DEF Init, Table, Beacon, Neighbours!Init

LEMMA RefinePacket ==
  ASSUME CacheInv, NEW a \in Nodes, OnPacket(a)
  PROVE  Neighbours!Hear(a) \/ Neighbours!Ignore(a)
<1>1. /\ Live = 0..(numNodes - 1) /\ Cardinality(Table) = numNodes
      /\ numNodes \in Nat /\ numNodes <= MaxNodes /\ MaxNodes \in Nat
      /\ Live \subseteq Slots /\ TypeOK /\ i0 = 0 /\ i1 = 0
  BY TableSize, LiveType, CacheAssumption
     DEF OnPacket, UpdateNode, AddNode, CacheIsFull, CacheInv, ScanInv
<1>2. \A x : x \in Neighbours!Addresses(Table) <=> \E i \in Live : cache[i].address = x
  <2>1. \A x : x \in Neighbours!Addresses(Table) <=> \E e \in Table : e.address = x
    BY DEF Neighbours!Addresses
  <2>2. \A e : e \in Table <=> \E i \in Live : e = Reading(cache[i])
    BY DEF Table
  <2>3. \A i : Reading(cache[i]).address = cache[i].address
    BY DEF Reading
  <2> QED
    BY <2>1, <2>2, <2>3
<1>3. CASE UpdateNode(a)
  <2>1. PICK ci \in Known(a) : Store(ci, a)
    BY <1>3 DEF UpdateNode
  <2>2. ci \in Live /\ ci \in Slots /\ cache[ci].address = a
    BY <1>1, <2>1 DEF Known
  <2>3. Live' = Live /\ pc = "idle" /\ UNCHANGED <<time, packet>>
    BY <1>3 DEF UpdateNode, Live, clock
  <2>4. \A i \in Live : cache[i].address = a => i = ci
    BY <2>2 DEF CacheInv, CacheUnique
  <2>5. Table' = {e \in Table : e.address # a} \cup {[address |-> a, strength |-> time]}
    BY <1>1, <2>1, <2>2, <2>3, <2>4, StoreTable
  <2>6. a \in Neighbours!Addresses(Table)
    BY <1>2, <2>2
  <2>7. Beacon' = Beacon
    BY <2>3 DEF Beacon
  <2> QED
    BY <2>3, <2>5, <2>6, <2>7 DEF Neighbours!Hear
<1>4. CASE AddNode(a)
  <2>1. /\ numNodes \in Slots /\ Store(numNodes, a) /\ pc = "idle"
        /\ numNodes < MaxNodes /\ numNodes' = numNodes + 1
        /\ UNCHANGED <<time, packet, i0, i1>>
    BY <1>1, <1>4 DEF AddNode, HasRoom, Slots, clock
  <2>2. Live' = 0..numNodes
    BY <1>1, <2>1 DEF Live
  <2>3. \A i \in Live : cache[i].address # a
    BY <1>1, <1>4 DEF AddNode, Known
  <2>4. /\ numNodes \in Live' /\ numNodes \notin Live
        /\ \A i \in Live' : i # numNodes => i \in Live
        /\ \A i \in Live : i \in Live'
    BY <1>1, <2>2
  <2>5. Table' = {e \in Table : e.address # a} \cup {[address |-> a, strength |-> time]}
    BY <1>1, <2>1, <2>3, <2>4, StoreTable
  <2>6. Beacon' = Beacon
    BY <2>1 DEF Beacon
  <2> QED
    BY <1>1, <2>1, <2>5, <2>6, SameCardinality DEF Neighbours!Hear
<1>5. CASE CacheIsFull(a)
  <2>1. numNodes = MaxNodes /\ UNCHANGED vars
    BY <1>1, <1>5 DEF CacheIsFull, HasRoom
  <2>2. a \notin Neighbours!Addresses(Table)
    BY <1>1, <1>2, <1>5 DEF CacheIsFull, Known
  <2>3. UNCHANGED <<time, Table, Beacon>>
    BY <2>1 DEF vars, clock, Table, Beacon, Live, Reading
  <2> QED
    BY <1>1, <2>1, <2>2, <2>3, SameCardinality DEF Neighbours!Ignore, Neighbours!vars
<1> QED
  BY <1>3, <1>4, <1>5 DEF OnPacket

LEMMA RefineRemove ==
  ASSUME CacheInv, RemoveNode
  PROVE  \E e \in Table : Neighbours!Forget(e)
<1> DEFINE e == Reading(cache[i1])
<1>1. i1 \in Live /\ time - e.strength > Timeout
  BY RemovedIsSilent DEF Reading
<1>2. Live' = Live \ {i1}
  BY LiveType DEF CacheInv, RemoveNode, Live
<1>3. cache' = cache /\ time' = time /\ packet' = packet
  BY DEF RemoveNode, clock
<1>4. \A i \in Live : Reading(cache[i]) = e => i = i1
  BY <1>1 DEF Reading, CacheInv, CacheUnique
<1>5. Table' = {Reading(cache[i]) : i \in Live \ {i1}}
  BY <1>2, <1>3 DEF Table, Reading
<1>6. Table' = Table \ {e}
  BY <1>1, <1>4, <1>5 DEF Table
<1>7. e \in Table /\ Beacon' = Beacon
  BY <1>1, <1>3 DEF Table, Beacon
<1> QED
  BY <1>1, <1>3, <1>6, <1>7 DEF Neighbours!Forget

LEMMA RefineCraft ==
  ASSUME CacheInv, Craft
  PROVE  Neighbours!Advertise
<1>1. /\ Live = 0..(numNodes - 1) /\ Live \subseteq Slots /\ numNodes \in Nat
      /\ pc = "craft"
  BY TableSize, LiveType DEF Craft, CacheInv
<1>2. /\ packet'.numNodes = numNodes
      /\ \A i \in Live : packet'.nodes[i] = Reading(cache[i])
  BY <1>1 DEF Craft, Reading
<1>3. Beacon' = Table
  BY <1>1, <1>2 DEF Beacon, Table
<1>4. Live' = Live /\ cache' = cache /\ time' = time
  BY DEF Craft, Live, clock
<1>5. Table' = Table
  BY <1>4 DEF Table, Reading
<1>6. \A i \in Live : time - cache[i].strength <= 3 * Timeout
  <2> SUFFICES ASSUME NEW i \in Live PROVE time - cache[i].strength <= 3 * Timeout
    OBVIOUS
  <2>1. /\ cache[i].tspMs \in 0..(Wrap - 1) /\ cache[i].strength \in Nat
        /\ time \in Nat /\ now \in 0..(Wrap - 1)
    BY LiveType DEF CacheInv
  <2>2. Responsive(i) /\ (Direct(i) \/ Refreshed(i))
    BY <1>1, <2>1 DEF CacheInv, ScanInv, AgeInv, Responsive, Wrapped
  <2> QED
    BY <2>1, <2>2, CacheAssumption DEF Direct, Refreshed, Responsive
<1>7. \A e \in Table : time - e.strength <= 3 * Timeout
  BY <1>6 DEF Table, Reading
<1> QED
  BY <1>3, <1>4, <1>5, <1>7 DEF Neighbours!Advertise

LEMMA StepRefines == CacheInv /\ [Next]_vars => [Neighbours!Next]_(Neighbours!vars)
<1> SUFFICES ASSUME CacheInv, [Next]_vars PROVE [Neighbours!Next]_(Neighbours!vars)
  OBVIOUS
<1> USE DEF Neighbours!Next, Neighbours!vars
<1>1. CASE Tick
  <2>1. /\ Live' = Live /\ cache' = cache /\ packet' = packet /\ time' = time + 1
    BY <1>1 DEF Tick, Live
  <2>2. Table' = Table /\ Beacon' = Beacon
    BY <2>1 DEF Table, Beacon, Reading
  <2> QED
    BY <2>1, <2>2 DEF Neighbours!Tick
<1>2. ASSUME NEW a \in Nodes, OnPacket(a) PROVE Neighbours!Next
  BY <1>2, RefinePacket
<1>3. CASE RemoveNode
  BY <1>3, RefineRemove
<1>4. CASE Craft
  BY <1>4, RefineCraft
<1>5. CASE CleanUp
  BY <1>5 DEF CleanUp, clock, Table, Beacon, Live, Reading
<1>6. CASE For
  <2>1. Live' = Live /\ UNCHANGED <<time, packet>> /\ i1 \in Slots /\ Live \subseteq Slots
    BY <1>6, LiveType DEF For, clock, Live, CacheInv
  <2>2. \A i \in Slots : Reading(cache'[i]) = Reading(cache[i])
    BY <1>6, <2>1 DEF For, CacheInv, TypeOK, Entries, Reading
  <2>3. Table' = Table /\ Beacon' = Beacon
    BY <2>1, <2>2 DEF Table, Beacon, Reading
  <2> QED
    BY <2>1, <2>3
<1>7. CASE KeepNode
  <2>1. Table' \subseteq Table /\ Table \subseteq Table'
    <3>1. \A i \in Live' : \E j \in Live : cache'[i] = cache[j]
      BY <1>7, KeepLive DEF CacheInv
    <3>2. \A j \in Live : \E i \in Live' : cache'[i] = cache[j]
      BY <1>7, KeepLive DEF CacheInv
    <3> QED
      BY <3>1, <3>2 DEF Table, Reading
  <2>2. Beacon' = Beacon /\ time' = time
    BY <1>7 DEF KeepNode, Beacon, clock
  <2> QED
    BY <2>1, <2>2
<1>8. CASE CleanUpDone
  <2>1. Live' = Live /\ cache' = cache /\ UNCHANGED <<time, packet>>
    BY <1>8, DoneCache DEF CleanUpDone
  <2>2. Table' = Table /\ Beacon' = Beacon
    BY <2>1 DEF Table, Beacon, Reading
  <2> QED
    BY <2>1, <2>2
<1>9. CASE UNCHANGED vars
  BY <1>9 DEF vars, clock, Table, Beacon, Live, Reading
<1> QED
  BY <1>1, <1>2, <1>3, <1>4, <1>5, <1>6, <1>7, <1>8, <1>9 DEF Next, CraftPacket

(* For every capacity, timeout and clock width the cache is the table of    *)
(* NeighbourTable: nobody heard within Timeout is forgotten, nobody is      *)
(* turned away while there is room, and a beacon lists the table.           *)
THEOREM CacheImplementsTable == Spec => RefinesNeighbourTable
<1>1. Spec => Neighbours!Init /\ [][Neighbours!Next]_(Neighbours!vars)
  BY RefineInit, StepRefines, CacheInvariant, PTL DEF Spec
<1> QED
  BY <1>1 DEF RefinesNeighbourTable, Neighbours!Spec

=============================================================================
