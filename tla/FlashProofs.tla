---------------------------- MODULE FlashProofs ----------------------------
(***************************************************************************)
(* The log of properties in flash and in one-time programmable memory, for *)
(* stores, rows, pages, keys and values of any number and size: it ends at *)
(* an erased page and never inside a value, what is programmed is never    *)
(* programmed over, and the store is the map of PropertyMap.               *)
(*                                                                         *)
(* Three things have to be known of the pages. A walk along the log goes   *)
(* forward, ends at one place and depends on the pages it visits only      *)
(* (WalkEnds, WalkSame), so that a value whose pages are programmed one by *)
(* one moves the end of the log once, with the first of them               *)
(* (WalkExtended). The pages NoSpaceFor counts are those a reorganisation  *)
(* copies (LatestFrom, LivePagesIs). And a reorganisation is at every step *)
(* about to leave a certain log, New, made of the pages written anew, those*)
(* on their way to flash and those collected; it erases the very pages it  *)
(* reads from, but keeps behind the place it reads, and New has room for   *)
(* what is still to be read and for the change that called for it (Ahead). *)
(*                                                                         *)
(* Two more have to be known of what the log means. A change cut short     *)
(* leaves the other keys alone and its own the old value, the new one or a *)
(* part (WriteMeans, FirstPage, NextPage, OutcomeIs). And at every step of *)
(* a reorganisation each value is in New or in what is still to be read    *)
(* (Saves, SavesCollect), so that when nothing is left to read New alone   *)
(* means what the log meant (SavesEnd).                                    *)
(*                                                                         *)
(* What the walk and the count compute is defined by recursion over the    *)
(* pages. Sets of numbers have a least element, which gives an induction   *)
(* from the last page down to the first (Downwards), and with it that such *)
(* a recursion has a solution (RecursionSolved).                           *)
(***************************************************************************)
EXTENDS FlashStore, FiniteSetTheorems, WellFoundedInduction, TLAPS

(***************************************************************************)
(* Induction, from a page down to the first                                *)
(***************************************************************************)

(* A non-empty set of numbers has a least one ...                           *)
LEMMA LeastOf ==
  ASSUME NEW S \in SUBSET Nat, S # {}
  PROVE  \E i \in S : \A j \in S : i <= j
<1> DEFINE R == OpToRel(<, Nat)
<1>1. IsWellFoundedOn(R, Nat)
  BY NatLessThanWellFounded
<1>2. \A i, j \in Nat : i < j => <<i, j>> \in R
  BY DEF OpToRel
<1> HIDE DEF R
<1>3. PICK i \in S : \A j \in S : ~(<<j, i>> \in R)
  BY <1>1, WFMin
<1>4. ASSUME NEW j \in S PROVE i <= j
  <2>1. ~(j < i)
    BY <1>2, <1>3
  <2> QED BY <2>1
<1> QED
  BY <1>4

(* ... so that what holds of a page if it holds of all behind it, and of    *)
(* all places behind the store, holds of every page.                        *)
LEMMA Downwards ==
  ASSUME NEW S \in SUBSET Nat, NEW n \in Nat,
         \A i \in Nat : i >= n => i \in S,
         \A i \in Nat : (\A j \in Nat : j > i => j \in S) => i \in S
  PROVE  S = Nat
<1> SUFFICES ASSUME S # Nat PROVE FALSE
  OBVIOUS
<1> DEFINE T == {k \in Nat : k <= n /\ n - k \notin S}
<1>1. PICK i \in Nat : i \notin S
  OBVIOUS
<1>2. n - i \in T
  BY <1>1
<1>3. PICK k \in T : \A j \in T : k <= j
  BY <1>2, LeastOf
<1>4. \A j \in Nat : j > n - k => j \in S
  <2> SUFFICES ASSUME NEW j \in Nat, j > n - k, j \notin S PROVE FALSE
    OBVIOUS
  <2>1. j < n
    OBVIOUS
  <2>2. n - j \in T /\ n - j < k
    BY <2>1
  <2> QED BY <1>3, <2>2
<1> QED
  BY <1>3, <1>4

(* A recursion that goes on to a later place, unless it stops.              *)
Recursion(n, stop, succ) ==
  /\ n \in Nat /\ stop \in SUBSET Nat /\ succ \in [Nat -> Nat]
  /\ \A i \in Nat : i >= n => i \in stop
  /\ \A i \in Nat : i \notin stop => succ[i] > i

Solution(V, stop, succ, base, step) ==
  \E f \in [Nat -> V] :
    \A i \in Nat : f[i] = IF i \in stop THEN base[i] ELSE step[i][f[succ[i]]]

(* Such a recursion has a solution.                                         *)
LEMMA RecursionSolved ==
  ASSUME NEW V, V # {}, NEW n, NEW stop, NEW succ, Recursion(n, stop, succ),
         NEW base \in [Nat -> V], NEW step \in [Nat -> [V -> V]]
  PROVE  Solution(V, stop, succ, base, step)
<1> USE DEF Recursion
<1> DEFINE Solves(f, i) == f[i] = IF i \in stop THEN base[i] ELSE step[i][f[succ[i]]]
           S == {k \in Nat : \E f \in [Nat -> V] : \A i \in Nat : i >= k => Solves(f, i)}
<1>1. \A i \in Nat : i >= n => i \in S
  <2>1. \A i, j \in Nat : i >= n /\ j >= i => j >= n
    OBVIOUS
  <2>2. \A i \in Nat : i >= n => Solves(base, i)
    OBVIOUS
  <2> QED BY <2>1, <2>2
<1>2. ASSUME NEW k \in Nat, \A j \in Nat : j > k => j \in S PROVE k \in S
  <2>1. k + 1 \in S
    <3> HIDE DEF S
    <3> QED BY <1>2
  <2>2. PICK f \in [Nat -> V] : \A i \in Nat : i >= k + 1 => Solves(f, i)
    BY <2>1
  <2> DEFINE v == IF k \in stop THEN base[k] ELSE step[k][f[succ[k]]]
             g == [f EXCEPT ![k] = v]
  <2>3. v \in V
    OBVIOUS
  <2> HIDE DEF v
  <2>4. g \in [Nat -> V] /\ g[k] = v /\ \A i \in Nat : i # k => g[i] = f[i]
    BY <2>3
  <2> HIDE DEF g
  <2>5. ASSUME NEW i \in Nat, i >= k PROVE Solves(g, i)
    <3>1. CASE i = k
      <4>1. k \notin stop => g[succ[k]] = f[succ[k]]
        BY <2>4
      <4> QED BY <2>4, <3>1, <4>1 DEF v
    <3>2. CASE i # k
      <4>1. i >= k + 1 /\ Solves(f, i) /\ g[i] = f[i]
        BY <2>2, <2>4, <2>5, <3>2
      <4>2. i \notin stop => succ[i] \in Nat /\ succ[i] # k
        BY <4>1
      <4>3. i \notin stop => g[succ[i]] = f[succ[i]]
        BY <2>4, <4>2
      <4> QED BY <4>1, <4>3
    <3> QED BY <3>1, <3>2
  <2> HIDE DEF Solves
  <2> QED BY <2>4, <2>5
<1> HIDE DEF Solves
<1>3. S = Nat
  <2> HIDE DEF S
  <2>1. S \in SUBSET Nat
    BY DEF S
  <2> QED BY <1>1, <1>2, <2>1, Downwards
<1>4. 0 \in S
  BY <1>3
<1>5. \E f \in [Nat -> V] : \A i \in Nat : Solves(f, i)
  BY <1>4
<1> QED
  BY <1>5 DEF Solves, Solution

(***************************************************************************)
(* Entries                                                                 *)
(***************************************************************************)
Logs == [0..(NumPages - 1) -> Cells]

LEMMA MinIs ==
  ASSUME NEW i \in Int, NEW j \in Int
  PROVE  Min({i, j}) \in {i, j} /\ Min({i, j}) <= i /\ Min({i, j}) <= j
<1>1. \E x \in {i, j} : \A y \in {i, j} : x =< y
  OBVIOUS
<1> QED
  BY <1>1 DEF Min

LEMMA PaddedIs == ASSUME NEW i \in Nat \ {0} PROVE Padded(i) \in Nat \ {0}
<1>1. PageSize \in Nat \ {0}
  BY LogAssumption
<1>2. i + PageSize - 1 >= PageSize /\ i + PageSize - 1 \in Nat
  BY <1>1
<1>3. \A a, b \in Nat : b > 0 /\ a >= b => a \div b \in Nat /\ a \div b > 0
  OBVIOUS
<1> QED
  BY <1>1, <1>2, <1>3 DEF Padded

LEMMA ValuePagesIs == ASSUME NEW v \in Values PROVE ValuePages(v) \in Nat \ {0}
<1>1. CASE v.type = "int"
  <2>1. v.n \in Int
    BY ValueAssumption
  <2>2. IntLen(v.n) \in {2, 4, 8, 12}
    BY <2>1 DEF IntLen, FLASH_ENTRY_HEADER, FLASH_ENTRY_HEADER_SHORT
  <2>3. IntLen(v.n) \in Nat \ {0}
    BY <2>2
  <2> QED BY <1>1, <2>3, PaddedIs DEF ValuePages
<1>2. CASE v.type # "int"
  <2>1. v.n \in Nat
    BY <1>2, ValueAssumption
  <2>2. CopyLen(v) \in Nat
    <3>1. MaxDataEntry \in Nat /\ MaxDataEntry - 1 \in Nat
      BY LogAssumption
    <3>2. \A i, j \in Nat : Min({i, j}) \in Nat
      BY MinIs
    <3> QED BY <2>1, <3>1, <3>2 DEF CopyLen
  <2>3. \A i \in Nat : i % 256 \in Nat
    OBVIOUS
  <2>4. FLASH_ENTRY_HEADER + DLen(v) \in Nat \ {0}
    BY <2>2, <2>3 DEF DLen, FLASH_ENTRY_HEADER
  <2> QED BY <1>2, <2>4, PaddedIs DEF ValuePages
<1> QED
  BY <1>1, <1>2

LEMMA EntryPagesIs == ASSUME NEW c \in Cells PROVE EntryPages(c) \in Nat \ {0}
<1>1. c.kind = "entry" => c.val \in Values
  BY DEF Cells, Entry, Deletion, Data, Erased, Header
<1> QED
  BY <1>1, ValuePagesIs DEF EntryPages

(***************************************************************************)
(* The walk along the log                                                  *)
(***************************************************************************)
Behind(log, i) == i + EntryPages(log[i])

LEMMA BehindIs ==
  ASSUME NEW log \in Logs, NEW i \in Nat, ~AtEnd(log, i)
  PROVE  i < NumPages /\ log[i] \in Cells /\ Behind(log, i) \in Nat /\ Behind(log, i) > i
<1>1. i < NumPages /\ log[i] \in Cells
  BY LogAssumption DEF AtEnd, Logs
<1> QED
  BY <1>1, EntryPagesIs DEF Behind

LEMMA WalkIs ==
  ASSUME NEW log \in Logs, NEW i \in Nat
  PROVE  Walk(log, i) = IF AtEnd(log, i) THEN {i} ELSE {i} \cup Walk(log, Behind(log, i))
<1> DEFINE stop == {j \in Nat : AtEnd(log, j)}
           succ == [j \in Nat |-> IF AtEnd(log, j) THEN j ELSE Behind(log, j)]
           base == [j \in Nat |-> {j}]
           step == [j \in Nat |-> [s \in SUBSET Nat |-> {j} \cup s]]
           Eq(f) == f = [j \in Nat |-> IF AtEnd(log, j) THEN {j}
                                       ELSE {j} \cup f[j + EntryPages(log[j])]]
           W == CHOOSE f : Eq(f)
<1>1. /\ stop \in SUBSET Nat /\ succ \in [Nat -> Nat]
      /\ base \in [Nat -> SUBSET Nat] /\ step \in [Nat -> [SUBSET Nat -> SUBSET Nat]]
      /\ NumPages \in Nat /\ SUBSET Nat # {}
  <2>1. stop \in SUBSET Nat
    OBVIOUS
  <2>2. succ \in [Nat -> Nat]
    BY BehindIs
  <2>3. base \in [Nat -> SUBSET Nat] /\ SUBSET Nat # {}
    OBVIOUS
  <2>4. \A j \in Nat, s \in SUBSET Nat : {j} \cup s \in SUBSET Nat
    OBVIOUS
  <2>5. step \in [Nat -> [SUBSET Nat -> SUBSET Nat]]
    BY <2>4
  <2> QED BY <2>1, <2>2, <2>3, <2>5, LogAssumption
<1>2. \A j \in Nat : j >= NumPages => j \in stop
  BY DEF AtEnd
<1>3. \A j \in Nat : j \notin stop => succ[j] > j
  BY BehindIs
<1>4. \E f : Eq(f)
  <2> HIDE DEF stop, succ, base, step
  <2> DEFINE V == SUBSET Nat
  <2>0. /\ V # {} /\ Recursion(NumPages, stop, succ)
        /\ base \in [Nat -> V] /\ step \in [Nat -> [V -> V]]
    BY <1>1, <1>2, <1>3 DEF Recursion
  <2> HIDE DEF V
  <2>1. PICK f \in [Nat -> V] :
          \A j \in Nat : f[j] = IF j \in stop THEN base[j] ELSE step[j][f[succ[j]]]
    <3>1. Solution(V, stop, succ, base, step)
      BY <2>0, RecursionSolved
    <3> QED BY <3>1 DEF Solution
  <2>2. ASSUME NEW j \in Nat
        PROVE  f[j] = IF AtEnd(log, j) THEN {j} ELSE {j} \cup f[j + EntryPages(log[j])]
    <3>1. CASE AtEnd(log, j)
      BY <2>1, <3>1 DEF stop, base
    <3>2. CASE ~AtEnd(log, j)
      <4>1. succ[j] = Behind(log, j) /\ f[Behind(log, j)] \in SUBSET Nat
        BY <3>2, BehindIs DEF succ, V
      <4>2. f[j] = step[j][f[Behind(log, j)]]
        BY <2>1, <3>2, <4>1 DEF stop
      <4>3. f[j] = {j} \cup f[Behind(log, j)]
        BY <4>1, <4>2 DEF step
      <4> QED BY <3>2, <4>3 DEF Behind
    <3> QED BY <3>1, <3>2
  <2> QED BY <2>2
<1>5. Eq(W)
  BY <1>4
<1>6. \A j : Walk(log, j) = W[j]
  BY DEF Walk
<1> HIDE DEF W
<1>7. W[i] = IF AtEnd(log, i) THEN {i} ELSE {i} \cup W[i + EntryPages(log[i])]
  BY <1>5
<1> QED
  BY <1>6, <1>7 DEF Behind

(* What holds at the end of a log, and of an entry if of the next one.      *)
LEMMA AlongLog ==
  ASSUME NEW log \in Logs, NEW S \in SUBSET Nat,
         \A i \in Nat : AtEnd(log, i) => i \in S,
         \A i \in Nat : ~AtEnd(log, i) /\ Behind(log, i) \in S => i \in S
  PROVE  S = Nat
<1>1. NumPages \in Nat /\ \A i \in Nat : i >= NumPages => i \in S
  BY LogAssumption DEF AtEnd
<1>2. ASSUME NEW i \in Nat, \A j \in Nat : j > i => j \in S PROVE i \in S
  <2>1. ~AtEnd(log, i) => Behind(log, i) \in S
    BY <1>2, BehindIs
  <2> QED BY <2>1
<1> QED
  BY <1>1, <1>2, Downwards

(* The walk goes forward, to one end.                                       *)
EndsAt(log, i, e) ==
  /\ i \in Walk(log, i) /\ Walk(log, i) \subseteq Nat
  /\ e \in Walk(log, i) /\ AtEnd(log, e)
  /\ \A j \in Walk(log, i) : i <= j /\ j <= e /\ (AtEnd(log, j) => j = e)

LEMMA WalkEnds ==
  ASSUME NEW log \in Logs, NEW i \in Nat
  PROVE  \E e \in Nat : EndsAt(log, i, e)
<1> DEFINE S == {j \in Nat : \E e \in Nat : EndsAt(log, j, e)}
<1>1. ASSUME NEW j \in Nat, AtEnd(log, j) PROVE j \in S
  <2>1. Walk(log, j) = {j}
    BY <1>1, WalkIs
  <2>2. EndsAt(log, j, j)
    BY <1>1, <2>1 DEF EndsAt
  <2> QED BY <2>2
<1>2. ASSUME NEW j \in Nat, ~AtEnd(log, j), Behind(log, j) \in S PROVE j \in S
  <2>1. PICK e \in Nat : EndsAt(log, Behind(log, j), e)
    BY <1>2
  <2>2. Walk(log, j) = {j} \cup Walk(log, Behind(log, j)) /\ Behind(log, j) \in Nat /\ Behind(log, j) > j
    BY <1>2, WalkIs, BehindIs
  <2>3. EndsAt(log, j, e)
    BY <1>2, <2>1, <2>2 DEF EndsAt
  <2> QED BY <2>3
<1> HIDE DEF S
<1>3. S = Nat
  <2>1. S \in SUBSET Nat
    BY DEF S
  <2> QED BY <1>1, <1>2, <2>1, AlongLog
<1> QED
  BY <1>3 DEF S

EndOf(log, i) == Max(Walk(log, i))

LEMMA EndIs ==
  ASSUME NEW log \in Logs, NEW i \in Nat
  PROVE  EndOf(log, i) \in Nat /\ EndsAt(log, i, EndOf(log, i)) /\ EndOf(log, i) >= i
<1>1. PICK e \in Nat : EndsAt(log, i, e)
  BY WalkEnds
<1>2. e \in Walk(log, i) /\ \A j \in Walk(log, i) : e >= j
  BY <1>1 DEF EndsAt
<1>3. EndOf(log, i) \in Walk(log, i) /\ \A j \in Walk(log, i) : EndOf(log, i) >= j
  BY <1>2 DEF EndOf, Max
<1>4. EndOf(log, i) = e
  BY <1>1, <1>2, <1>3 DEF EndsAt
<1> QED
  BY <1>1, <1>4 DEF EndsAt

(* The end is the one place of the walk where the log ends.                 *)
LEMMA EndUnique ==
  ASSUME NEW log \in Logs, NEW i \in Nat, NEW e \in Walk(log, i), AtEnd(log, e)
  PROVE  EndOf(log, i) = e
BY EndIs DEF EndsAt

LEMMA EndBehind ==
  ASSUME NEW log \in Logs, NEW i \in Nat
  PROVE  EndOf(log, i) = IF AtEnd(log, i) THEN i ELSE EndOf(log, Behind(log, i))
<1>1. CASE AtEnd(log, i)
  <2>1. i \in Walk(log, i)
    BY EndIs DEF EndsAt
  <2> QED BY <1>1, <2>1, EndUnique
<1>2. CASE ~AtEnd(log, i)
  <2> DEFINE b == Behind(log, i)
  <2>1. b \in Nat /\ Walk(log, i) = {i} \cup Walk(log, b)
    BY <1>2, BehindIs, WalkIs
  <2>2. EndOf(log, b) \in Walk(log, b) /\ AtEnd(log, EndOf(log, b))
    BY <2>1, EndIs DEF EndsAt
  <2>3. EndOf(log, i) = EndOf(log, b)
    BY <2>1, <2>2, EndUnique
  <2> QED BY <1>2, <2>3
<1> QED
  BY <1>1, <1>2

(* Only the pages it visits matter.                                         *)
LEMMA WalkSame ==
  ASSUME NEW l1 \in Logs, NEW l2 \in Logs, NEW i \in Nat,
         \A j \in Walk(l1, i) : j < NumPages => l1[j] = l2[j]
  PROVE  Walk(l1, i) = Walk(l2, i)
<1> DEFINE Same(j) == \A k \in Walk(l1, j) : k < NumPages => l1[k] = l2[k]
           S == {j \in Nat : Same(j) => Walk(l1, j) = Walk(l2, j)}
<1>0. \A j \in Nat : Same(j) => (AtEnd(l1, j) <=> AtEnd(l2, j))
  <2> SUFFICES ASSUME NEW j \in Nat, Same(j) PROVE AtEnd(l1, j) <=> AtEnd(l2, j)
    OBVIOUS
  <2>1. j \in Walk(l1, j) /\ NumPages \in Nat
    BY EndIs, LogAssumption DEF EndsAt
  <2>2. j < NumPages => l1[j] = l2[j]
    BY <2>1
  <2>3. j < NumPages <=> ~(j >= NumPages)
    BY <2>1
  <2> QED BY <2>2, <2>3 DEF AtEnd
<1>1. ASSUME NEW j \in Nat, AtEnd(l1, j) PROVE j \in S
  BY <1>0, <1>1, WalkIs
<1>2. ASSUME NEW j \in Nat, ~AtEnd(l1, j), Behind(l1, j) \in S PROVE j \in S
  <2> SUFFICES ASSUME Same(j) PROVE Walk(l1, j) = Walk(l2, j)
    OBVIOUS
  <2>1. /\ Walk(l1, j) = {j} \cup Walk(l1, Behind(l1, j))
        /\ Behind(l1, j) \in Nat /\ j < NumPages
    BY <1>2, WalkIs, BehindIs
  <2>2. l1[j] = l2[j] /\ Same(Behind(l1, j))
    BY <2>1
  <2>3. Behind(l2, j) = Behind(l1, j) /\ ~AtEnd(l2, j)
    BY <1>0, <1>2, <2>2 DEF Behind
  <2>4. Walk(l2, j) = {j} \cup Walk(l2, Behind(l1, j))
    BY <2>3, WalkIs
  <2> QED BY <1>2, <2>1, <2>2, <2>4
<1> HIDE DEF S
<1>3. S = Nat
  <2>1. S \in SUBSET Nat
    BY DEF S
  <2> QED BY <1>1, <1>2, <2>1, AlongLog
<1> QED
  BY <1>3 DEF S

(* The walk from a place it visits is the rest of it.                       *)
LEMMA WalkOn ==
  ASSUME NEW log \in Logs, NEW i \in Nat, NEW j \in Walk(log, i)
  PROVE  Walk(log, j) = {k \in Walk(log, i) : k >= j}
<1> DEFINE Rest(h) == \A k \in Walk(log, h) : Walk(log, k) = {x \in Walk(log, h) : x >= k}
           S == {h \in Nat : Rest(h)}
<1>1. ASSUME NEW h \in Nat, AtEnd(log, h) PROVE h \in S
  <2>1. Walk(log, h) = {h}
    BY <1>1, WalkIs
  <2> QED BY <2>1
<1>2. ASSUME NEW h \in Nat, ~AtEnd(log, h), Behind(log, h) \in S PROVE h \in S
  <2> DEFINE b == Behind(log, h)
  <2>1. Walk(log, h) = {h} \cup Walk(log, b) /\ b \in Nat /\ b > h /\ Rest(b)
    BY <1>2, WalkIs, BehindIs
  <2>2. \A k \in Walk(log, b) : k \in Nat /\ k >= b
    BY <2>1, EndIs DEF EndsAt
  <2> HIDE DEF b
  <2>3. ASSUME NEW k \in Walk(log, h) PROVE Walk(log, k) = {x \in Walk(log, h) : x >= k}
    <3>1. CASE k = h
      <4>1. \A x \in Walk(log, h) : x >= h
        BY EndIs DEF EndsAt
      <4> QED BY <3>1, <4>1
    <3>2. CASE k # h
      <4>1. k \in Walk(log, b) /\ ~(h >= k)
        BY <2>1, <2>2, <3>2
      <4>2. Walk(log, k) = {x \in Walk(log, b) : x >= k}
        BY <2>1, <4>1
      <4> QED BY <2>1, <4>1, <4>2
    <3> QED BY <3>1, <3>2
  <2> QED BY <2>3
<1> HIDE DEF S
<1>3. S = Nat
  <2>1. S \in SUBSET Nat
    BY DEF S
  <2> QED BY <1>1, <1>2, <2>1, AlongLog
<1> QED
  BY <1>3 DEF S

(* An entry written where the log ends, with the log ending behind it.      *)
Programs(new, log, e, c) == new = [log EXCEPT ![e] = c]

LEMMA WalkExtended ==
  ASSUME NEW log \in Logs, NEW i \in Nat, NEW e \in Nat, e = EndOf(log, i), e < NumPages,
         NEW c \in Cells, ~IsEnd(c), NEW new, Programs(new, log, e, c),
         AtEnd(new, e + EntryPages(c))
  PROVE  /\ new \in Logs
         /\ Walk(new, i) = Walk(log, i) \cup {e + EntryPages(c)}
         /\ EndOf(new, i) = e + EntryPages(c)
<1> DEFINE n == e + EntryPages(c)
           S == {j \in Nat : EndOf(log, j) = e => Walk(new, j) = Walk(log, j) \cup {n}}
<1>1. /\ new \in Logs /\ new[e] = c /\ n \in Nat /\ n > e
      /\ \A j \in 0..(NumPages - 1) : j # e => new[j] = log[j]
  BY EntryPagesIs, LogAssumption DEF Logs, Programs
<1>2. AtEnd(new, n) /\ ~AtEnd(new, e) /\ Behind(new, e) = n
  BY <1>1, LogAssumption DEF AtEnd, Behind
<1> HIDE DEF n
<1>3. Walk(new, e) = {e, n}
  BY <1>1, <1>2, WalkIs
<1>4. ASSUME NEW j \in Nat, AtEnd(log, j) PROVE j \in S
  <2>1. Walk(log, j) = {j} /\ EndOf(log, j) = j
    BY <1>4, WalkIs, EndBehind
  <2> QED BY <1>3, <2>1
<1>5. ASSUME NEW j \in Nat, ~AtEnd(log, j), Behind(log, j) \in S PROVE j \in S
  <2> SUFFICES ASSUME EndOf(log, j) = e PROVE Walk(new, j) = Walk(log, j) \cup {n}
    OBVIOUS
  <2>1. /\ Behind(log, j) \in Nat /\ j < NumPages /\ EndOf(log, Behind(log, j)) = e
        /\ Walk(log, j) = {j} \cup Walk(log, Behind(log, j))
    BY <1>5, BehindIs, EndBehind, WalkIs
  <2>2. j # e
    BY <1>5, EndIs DEF EndsAt
  <2>3. new[j] = log[j]
    BY <1>1, <2>1, <2>2, LogAssumption
  <2>4. ~AtEnd(new, j) /\ Behind(new, j) = Behind(log, j)
    BY <1>5, <2>1, <2>3 DEF AtEnd, Behind
  <2>5. Walk(new, j) = {j} \cup Walk(new, Behind(log, j))
    BY <1>1, <2>4, WalkIs
  <2> QED BY <1>5, <2>1, <2>5
<1> HIDE DEF S
<1>6. S = Nat
  <2>1. S \in SUBSET Nat
    BY DEF S
  <2> QED BY <1>4, <1>5, <2>1, AlongLog
<1>7. Walk(new, i) = Walk(log, i) \cup {n}
  BY <1>6 DEF S
<1>8. EndOf(new, i) = n
  BY <1>1, <1>2, <1>7, EndUnique
<1> QED
  BY <1>1, <1>7, <1>8 DEF n

(***************************************************************************)
(* Live entries                                                            *)
(***************************************************************************)

(* The pages of those entries from a page on that are in a set.             *)
CountOf(log, L, from) ==
  LET pages[i \in Nat] ==
        IF AtEnd(log, i) THEN 0
        ELSE pages[i + EntryPages(log[i])] + IF i \in L THEN EntryPages(log[i]) ELSE 0
  IN  pages[from]

LEMMA CountIs ==
  ASSUME NEW log \in Logs, NEW L, NEW i \in Nat
  PROVE  CountOf(log, L, i) =
           IF AtEnd(log, i) THEN 0
           ELSE CountOf(log, L, Behind(log, i)) + IF i \in L THEN EntryPages(log[i]) ELSE 0
<1> DEFINE stop == {j \in Nat : AtEnd(log, j)}
           succ == [j \in Nat |-> IF AtEnd(log, j) THEN j ELSE Behind(log, j)]
           base == [j \in Nat |-> 0]
           add  == [j \in Nat |-> IF j \notin stop /\ j \in L THEN EntryPages(log[j]) ELSE 0]
           step == [j \in Nat |-> [s \in Nat |-> s + add[j]]]
           Eq(f) == f = [j \in Nat |-> IF AtEnd(log, j) THEN 0
                                       ELSE f[j + EntryPages(log[j])]
                                            + IF j \in L THEN EntryPages(log[j]) ELSE 0]
           W == CHOOSE f : Eq(f)
<1>1. \A j \in Nat : add[j] \in Nat
  <2>1. \A j \in Nat : j \notin stop => EntryPages(log[j]) \in Nat
    BY BehindIs, EntryPagesIs
  <2> QED BY <2>1
<1>2. Recursion(NumPages, stop, succ)
  <2>1. \A j \in Nat : ~AtEnd(log, j) => Behind(log, j) \in Nat /\ Behind(log, j) > j
    BY BehindIs
  <2>2. succ \in [Nat -> Nat] /\ \A j \in Nat : j \notin stop => succ[j] > j
    BY <2>1
  <2>3. NumPages \in Nat /\ \A j \in Nat : j >= NumPages => j \in stop
    BY LogAssumption DEF AtEnd
  <2> HIDE DEF succ
  <2> QED BY <2>2, <2>3 DEF Recursion
<1>3. base \in [Nat -> Nat] /\ Nat # {}
  OBVIOUS
<1>4. step \in [Nat -> [Nat -> Nat]]
  <2> HIDE DEF add
  <2>1. \A j, s \in Nat : s + add[j] \in Nat
    BY <1>1
  <2> QED BY <2>1
<1>5. \E f : Eq(f)
  <2> HIDE DEF stop, succ, base, step, add
  <2>1. PICK f \in [Nat -> Nat] :
          \A j \in Nat : f[j] = IF j \in stop THEN base[j] ELSE step[j][f[succ[j]]]
    <3>1. Solution(Nat, stop, succ, base, step)
      BY <1>2, <1>3, <1>4, RecursionSolved
    <3> QED BY <3>1 DEF Solution
  <2>2. ASSUME NEW j \in Nat
        PROVE  f[j] = IF AtEnd(log, j) THEN 0
                      ELSE f[j + EntryPages(log[j])] + IF j \in L THEN EntryPages(log[j]) ELSE 0
    <3>1. CASE AtEnd(log, j)
      BY <2>1, <3>1 DEF stop, base
    <3>2. CASE ~AtEnd(log, j)
      <4>1. succ[j] = Behind(log, j) /\ f[Behind(log, j)] \in Nat
        BY <3>2, BehindIs DEF succ
      <4>2. f[j] = step[j][f[Behind(log, j)]]
        BY <2>1, <3>2, <4>1 DEF stop
      <4>3. f[j] = f[Behind(log, j)] + add[j]
        BY <4>1, <4>2 DEF step
      <4>4. add[j] = IF j \in L THEN EntryPages(log[j]) ELSE 0
        BY <3>2 DEF add, stop
      <4> QED BY <3>2, <4>3, <4>4 DEF Behind
    <3> QED BY <3>1, <3>2
  <2> QED BY <2>2
<1>6. Eq(W)
  BY <1>5
<1>7. \A j : CountOf(log, L, j) = W[j]
  BY DEF CountOf
<1> HIDE DEF W
<1>8. W[i] = IF AtEnd(log, i) THEN 0
             ELSE W[i + EntryPages(log[i])] + IF i \in L THEN EntryPages(log[i]) ELSE 0
  BY <1>6
<1> QED
  BY <1>7, <1>8 DEF Behind

(* Only the pages the walk visits matter, and which of them are in the set. *)
LEMMA CountSame ==
  ASSUME NEW l1 \in Logs, NEW l2 \in Logs, NEW L1, NEW L2, NEW i \in Nat,
         \A j \in Walk(l1, i) : j < NumPages => l1[j] = l2[j],
         \A j \in Visited(l1, i) : j \in L1 <=> j \in L2
  PROVE  CountOf(l1, L1, i) \in Nat /\ CountOf(l1, L1, i) = CountOf(l2, L2, i)
<1> DEFINE Same(j) == /\ \A k \in Walk(l1, j) : k < NumPages => l1[k] = l2[k]
                      /\ \A k \in Visited(l1, j) : k \in L1 <=> k \in L2
           S == {j \in Nat : Same(j) => CountOf(l1, L1, j) \in Nat /\ CountOf(l1, L1, j) = CountOf(l2, L2, j)}
<1>0. \A j \in Nat : Same(j) => (AtEnd(l1, j) <=> AtEnd(l2, j))
  <2> SUFFICES ASSUME NEW j \in Nat, Same(j) PROVE AtEnd(l1, j) <=> AtEnd(l2, j)
    OBVIOUS
  <2>1. j \in Walk(l1, j) /\ NumPages \in Nat
    BY EndIs, LogAssumption DEF EndsAt
  <2>2. j < NumPages => l1[j] = l2[j]
    BY <2>1
  <2>3. j < NumPages <=> ~(j >= NumPages)
    BY <2>1
  <2> QED BY <2>2, <2>3 DEF AtEnd
<1>1. ASSUME NEW j \in Nat, AtEnd(l1, j) PROVE j \in S
  BY <1>0, <1>1, CountIs
<1>2. ASSUME NEW j \in Nat, ~AtEnd(l1, j), Behind(l1, j) \in S PROVE j \in S
  <2> SUFFICES ASSUME Same(j)
               PROVE  CountOf(l1, L1, j) \in Nat /\ CountOf(l1, L1, j) = CountOf(l2, L2, j)
    OBVIOUS
  <2>1. /\ Walk(l1, j) = {j} \cup Walk(l1, Behind(l1, j))
        /\ Behind(l1, j) \in Nat /\ j < NumPages /\ EntryPages(l1[j]) \in Nat
    BY <1>2, WalkIs, BehindIs, EntryPagesIs
  <2>2. l1[j] = l2[j] /\ Same(Behind(l1, j)) /\ (j \in L1 <=> j \in L2)
    BY <1>2, <2>1 DEF Visited
  <2>3. Behind(l2, j) = Behind(l1, j) /\ ~AtEnd(l2, j)
    BY <1>0, <1>2, <2>2 DEF Behind
  <2>4. CountOf(l1, L1, j) = CountOf(l1, L1, Behind(l1, j)) + IF j \in L1 THEN EntryPages(l1[j]) ELSE 0
    BY <1>2, CountIs
  <2>5. CountOf(l2, L2, j) = CountOf(l2, L2, Behind(l1, j)) + IF j \in L2 THEN EntryPages(l2[j]) ELSE 0
    BY <2>3, CountIs
  <2>6. CountOf(l1, L1, Behind(l1, j)) \in Nat /\ CountOf(l1, L1, Behind(l1, j)) = CountOf(l2, L2, Behind(l1, j))
    BY <1>2, <2>2
  <2> QED BY <2>1, <2>2, <2>4, <2>5, <2>6
<1> HIDE DEF S
<1>3. S = Nat
  <2>1. S \in SUBSET Nat
    BY DEF S
  <2> QED BY <1>1, <1>2, <2>1, AlongLog
<1> QED
  BY <1>3 DEF S

(* The pages of the latest entries from a page on.                          *)
LiveFrom(log, from) == CountOf(log, {i \in Nat : IsLatest(log, i)}, from)

LEMMA LiveFromIs ==
  ASSUME NEW log \in Logs, NEW i \in Nat
  PROVE  /\ LiveFrom(log, i) \in Nat
         /\ AtEnd(log, i) => LiveFrom(log, i) = 0
         /\ ~AtEnd(log, i) => LiveFrom(log, i) = LiveFrom(log, Behind(log, i))
                                + IF IsLatest(log, i) THEN EntryPages(log[i]) ELSE 0
<1> DEFINE L == {j \in Nat : IsLatest(log, j)}
<1>1. CountOf(log, L, i) \in Nat
  BY CountSame
<1>2. i \in L <=> IsLatest(log, i)
  OBVIOUS
<1> HIDE DEF L
<1> QED
  BY <1>1, <1>2, CountIs DEF LiveFrom, L

(* Whether an entry is the latest depends on the pages from it on only.     *)
LEMMA LatestSame ==
  ASSUME NEW l1 \in Logs, NEW l2 \in Logs, NEW i \in Nat,
         \A j \in Nat : i <= j /\ j < NumPages => l1[j] = l2[j]
  PROVE  /\ Walk(l1, i) = Walk(l2, i) /\ Visited(l1, i) = Visited(l2, i)
         /\ i < NumPages => (IsLatest(l1, i) <=> IsLatest(l2, i))
<1>1. \A j \in Walk(l1, i) : j \in Nat /\ i <= j
  BY EndIs DEF EndsAt
<1>2. Walk(l1, i) = Walk(l2, i)
  BY <1>1, WalkSame
<1>3. \A j \in Walk(l1, i) : AtEnd(l1, j) <=> AtEnd(l2, j)
  <2>1. \A j \in Nat : ~(j >= NumPages) => j < NumPages
    BY LogAssumption
  <2> QED BY <1>1, <2>1 DEF AtEnd
<1>4. Visited(l1, i) = Visited(l2, i) /\ \A j \in Visited(l1, i) : l1[j] = l2[j]
  <2>1. \A j \in Walk(l1, i) : ~AtEnd(l1, j) => j < NumPages
    BY <1>1, BehindIs
  <2> QED BY <1>1, <1>2, <1>3, <2>1 DEF Visited
<1>5. \A k : GetFlashEntry(l1, k, i) = GetFlashEntry(l2, k, i)
  <2> TAKE k
  <2> DEFINE m1 == {j \in Visited(l1, i) : KeyAt(l1, j, k)}
             m2 == {j \in Visited(l2, i) : KeyAt(l2, j, k)}
  <2>1. m1 = m2
    BY <1>4 DEF KeyAt
  <2>2. \A j \in m1 : l1[j] = l2[j]
    BY <1>4
  <2>3. /\ GetFlashEntry(l1, k, i) = {j \in m1 : j = Max(m1) /\ l1[j].kind = "entry"}
        /\ GetFlashEntry(l2, k, i) = {j \in m2 : j = Max(m2) /\ l2[j].kind = "entry"}
    BY DEF GetFlashEntry
  <2> HIDE DEF m1, m2
  <2> QED BY <2>1, <2>2, <2>3
<1>6. i < NumPages => (IsLatest(l1, i) <=> IsLatest(l2, i))
  <2> SUFFICES ASSUME i < NumPages PROVE IsLatest(l1, i) <=> IsLatest(l2, i)
    OBVIOUS
  <2>1. l1[i] = l2[i]
    OBVIOUS
  <2> QED BY <1>5, <2>1 DEF IsLatest, KeyAt
<1> QED
  BY <1>2, <1>4, <1>6

LEMMA LiveSame ==
  ASSUME NEW l1 \in Logs, NEW l2 \in Logs, NEW i \in Nat,
         \A j \in Nat : i <= j /\ j < NumPages => l1[j] = l2[j]
  PROVE  LiveFrom(l1, i) = LiveFrom(l2, i)
<1> DEFINE L1 == {j \in Nat : IsLatest(l1, j)}
           L2 == {j \in Nat : IsLatest(l2, j)}
<1>1. \A j \in Walk(l1, i) : j \in Nat /\ i <= j
  BY EndIs DEF EndsAt
<1>2. \A j \in Walk(l1, i) : j < NumPages => l1[j] = l2[j]
  BY <1>1
<1>3. ASSUME NEW j \in Visited(l1, i) PROVE j \in L1 <=> j \in L2
  <2>1. j \in Nat /\ i <= j /\ j < NumPages
    BY <1>1, BehindIs DEF Visited
  <2>2. \A h \in Nat : j <= h /\ h < NumPages => l1[h] = l2[h]
    BY <2>1
  <2> QED BY <2>1, <2>2, LatestSame
<1> HIDE DEF L1, L2
<1>4. CountOf(l1, L1, i) = CountOf(l2, L2, i)
  BY <1>2, <1>3, CountSame
<1> QED
  BY <1>4 DEF L1, L2, LiveFrom

(* A bounded set of numbers has a greatest one.                             *)
LEMMA MaxIs ==
  ASSUME NEW S \in SUBSET Nat, S # {}, NEW n \in Nat, \A i \in S : i <= n
  PROVE  Max(S) \in S /\ \A i \in S : i <= Max(S)
<1> DEFINE T == {k \in Nat : k <= n /\ n - k \in S}
<1>1. PICK i \in S : TRUE
  OBVIOUS
<1>2. n - i \in T
  BY <1>1
<1>3. PICK k \in T : \A j \in T : k <= j
  BY <1>2, LeastOf
<1>4. \A j \in S : j <= n - k
  <2> SUFFICES ASSUME NEW j \in S PROVE j <= n - k
    OBVIOUS
  <2>1. n - j \in T
    OBVIOUS
  <2> QED BY <1>3, <2>1
<1>5. \E m \in S : \A j \in S : m >= j
  BY <1>3, <1>4
<1>6. Max(S) \in S /\ \A j \in S : Max(S) >= j
  BY <1>5 DEF Max
<1> QED
  BY <1>6

(* An entry is the latest of its key whether one looks from it or from the  *)
(* start, so that _FlashReorgEntries copies what it counted.                *)
LEMMA LatestFrom ==
  ASSUME NEW log \in Logs, NEW i \in Nat, NEW j \in Visited(log, i)
  PROVE  j \in Live(log, i) <=> IsLatest(log, j)
<1>1. /\ j \in Walk(log, i) /\ j \in Nat /\ ~AtEnd(log, j)
      /\ Walk(log, j) = {k \in Walk(log, i) : k >= j}
  BY WalkOn, EndIs DEF Visited, EndsAt
<1>2. Visited(log, j) = {k \in Visited(log, i) : k >= j}
  BY <1>1 DEF Visited
<1>3. Visited(log, i) \subseteq Nat /\ EndOf(log, i) \in Nat /\ \A k \in Visited(log, i) : k <= EndOf(log, i)
  BY EndIs DEF Visited, EndsAt
<1>4. ASSUME NEW k \in Keys, KeyAt(log, j, k)
      PROVE  j \in GetFlashEntry(log, k, i) <=> j \in GetFlashEntry(log, k, j)
  <2> DEFINE m1 == {h \in Visited(log, i) : KeyAt(log, h, k)}
             m2 == {h \in Visited(log, j) : KeyAt(log, h, k)}
  <2>1. m1 \in SUBSET Nat /\ m2 = {h \in m1 : h >= j} /\ j \in m1 /\ j \in m2
    BY <1>1, <1>2, <1>3, <1>4
  <2>2. \A h \in m1 : h <= EndOf(log, i)
    BY <1>3
  <2>3. /\ GetFlashEntry(log, k, i) = {h \in m1 : h = Max(m1) /\ log[h].kind = "entry"}
        /\ GetFlashEntry(log, k, j) = {h \in m2 : h = Max(m2) /\ log[h].kind = "entry"}
    BY DEF GetFlashEntry
  <2> HIDE DEF m1, m2
  <2>4. Max(m1) \in m1 /\ \A h \in m1 : h <= Max(m1)
    BY <1>3, <2>1, <2>2, MaxIs
  <2>5. Max(m2) \in m2 /\ \A h \in m2 : h <= Max(m2)
    <3>1. m2 \in SUBSET Nat /\ \A h \in m2 : h <= EndOf(log, i)
      BY <2>1, <2>2
    <3> QED BY <1>3, <2>1, <3>1, MaxIs
  <2>6. PICK g \in m1 : g = Max(m1) /\ \A h \in m1 : h <= g
    BY <2>4
  <2>7. PICK e \in m2 : e = Max(m2) /\ \A h \in m2 : h <= e
    BY <2>5
  <2>8. j = g <=> \A h \in m1 : h <= j
    <3>1. j \in Nat /\ g \in Nat /\ \A h \in m1 : h \in Nat
      BY <2>1
    <3> QED BY <2>1, <2>6, <3>1
  <2>9. j = e <=> \A h \in m1 : h <= j
    <3>1. j \in Nat /\ e \in Nat /\ \A h \in m1 : h \in Nat
      BY <2>1
    <3>2. ASSUME j = e, NEW h \in m1 PROVE h <= j
      <4>1. h >= j => h \in m2
        BY <2>1
      <4>2. h \in m2 => h <= j
        BY <2>7, <3>2
      <4> QED BY <3>1, <4>1, <4>2
    <3>3. (\A h \in m1 : h <= j) => j = e
      BY <2>1, <2>7, <3>1
    <3> QED BY <3>2, <3>3
  <2> QED BY <2>1, <2>3, <2>6, <2>7, <2>8, <2>9
<1> QED
  BY <1>4 DEF Live, IsLatest

LEMMA LivePagesIs == ASSUME NEW log \in Logs PROVE LivePages(log) = LiveFrom(log, 1)
<1> DEFINE L == {j \in Nat : IsLatest(log, j)}
<1>1. LivePages(log) = CountOf(log, Live(log, 1), 1)
  BY DEF LivePages, CountOf
<1>2. \A j \in Visited(log, 1) : j \in Live(log, 1) <=> j \in L
  <2>1. \A j \in Visited(log, 1) : j \in Nat
    BY EndIs DEF Visited, EndsAt
  <2> QED BY <2>1, LatestFrom
<1> HIDE DEF L
<1>3. CountOf(log, Live(log, 1), 1) = CountOf(log, L, 1)
  BY <1>2, CountSame
<1> QED
  BY <1>1, <1>3 DEF LiveFrom, L

ErasedFrom(log, i) == \A j \in 0..(NumPages - 1) : j >= i => log[j] = Erased

(***************************************************************************)
(* Entries with their pages                                                *)
(***************************************************************************)

(* The pages of an entry behind the first one are part of the store and no  *)
(* entries themselves.                                                      *)
Inside(log, j) == \A a \in Nat : j < a /\ a < Behind(log, j) => a < NumPages /\ IsEnd(log[a])
Sound(log, i)  == \A j \in Visited(log, i) : Inside(log, j)

LEMMA CellFacts ==
  /\ Erased \in Cells /\ Header \in Cells /\ Erased # Header
  /\ IsEnd(Erased) /\ ~IsEnd(Header) /\ EntryPages(Erased) = 1 /\ EntryPages(Header) = 1
BY DEF Cells, Erased, Header, IsEnd, EntryPages

LEMMA LogEndIs ==
  ASSUME NEW log \in Logs
  PROVE  /\ LogEnd(log) \in Nat /\ LogEnd(log) >= 1 /\ LogEnd(log) \in Walk(log, 1)
         /\ LogEnd(log) = EndOf(log, 1) /\ AtEnd(log, LogEnd(log))
         /\ \A j \in Walk(log, 1) : j \in Nat /\ j >= 1 /\ j <= LogEnd(log)
BY EndIs DEF LogEnd, EndOf, EndsAt

LEMMA VisitedIs ==
  ASSUME NEW log \in Logs, NEW i \in Nat
  PROVE  /\ \A j \in Visited(log, i) : j \in Nat /\ i <= j /\ j < NumPages /\ ~AtEnd(log, j)
                                       /\ log[j] \in Cells
         /\ AtEnd(log, i) => Visited(log, i) = {}
         /\ ~AtEnd(log, i) => Visited(log, i) = {i} \cup Visited(log, Behind(log, i))
<1>1. EndsAt(log, i, EndOf(log, i))
  BY EndIs
<1>2. ASSUME NEW j \in Visited(log, i)
      PROVE  j \in Nat /\ i <= j /\ j < NumPages /\ ~AtEnd(log, j) /\ log[j] \in Cells
  <2>1. j \in Nat /\ i <= j /\ ~AtEnd(log, j)
    BY <1>1 DEF Visited, EndsAt
  <2> QED BY <2>1, BehindIs
<1> QED
  BY <1>2, WalkIs DEF Visited


(* An entry ends before the next place of the walk.                         *)
LEMMA EntriesApart ==
  ASSUME NEW log \in Logs, NEW i \in Nat, NEW j \in Visited(log, i), NEW s \in Walk(log, i), j < s
  PROVE  Behind(log, j) <= s
<1>1. j \in Nat /\ ~AtEnd(log, j) /\ j \in Walk(log, i)
  BY VisitedIs DEF Visited
<1>2. s \in Nat
  BY EndIs DEF EndsAt
<1>3. s \in Walk(log, j)
  BY <1>1, <1>2, WalkOn
<1>4. s \in Walk(log, Behind(log, j)) /\ Behind(log, j) \in Nat
  BY <1>1, <1>3, WalkIs, BehindIs
<1> QED
  BY <1>4, EndIs DEF EndsAt


LEMMA SoundBehind ==
  ASSUME NEW log \in Logs, NEW i \in Nat, ~AtEnd(log, i), Sound(log, i)
  PROVE  Inside(log, i) /\ Behind(log, i) <= NumPages /\ Sound(log, Behind(log, i))
<1>1. Behind(log, i) \in Nat /\ i < NumPages /\ Behind(log, i) > i /\ NumPages \in Nat
  BY BehindIs, LogAssumption
<1>2. Visited(log, i) = {i} \cup Visited(log, Behind(log, i))
  BY VisitedIs
<1>3. Inside(log, i) /\ Sound(log, Behind(log, i))
  BY <1>2 DEF Sound
<1>4. Behind(log, i) <= NumPages
  <2>1. Behind(log, i) - 1 \in Nat
    BY <1>1
  <2>2. i < Behind(log, i) - 1 => Behind(log, i) - 1 < NumPages
    BY <1>1, <1>3, <2>1 DEF Inside
  <2> QED BY <1>1, <2>2
<1> QED
  BY <1>3, <1>4

LEMMA SoundSame ==
  ASSUME NEW l1 \in Logs, NEW l2 \in Logs, NEW i \in Nat, Sound(l1, i),
         \A j \in Nat : i <= j /\ j < NumPages => l1[j] = l2[j]
  PROVE  Sound(l2, i)
<1>1. Visited(l1, i) = Visited(l2, i)
  BY LatestSame
<1>2. ASSUME NEW j \in Visited(l1, i) PROVE Inside(l2, j)
  <2>1. j \in Nat /\ i <= j /\ l1[j] = l2[j]
    BY VisitedIs
  <2>2. Behind(l2, j) = Behind(l1, j)
    BY <2>1 DEF Behind
  <2> QED BY <2>1, <2>2 DEF Sound, Inside
<1> QED
  BY <1>1, <1>2 DEF Sound

(* An entry put at the end of a log that is erased behind it.               *)
Extends(new, log, e, n) ==
  /\ \A a \in 0..(NumPages - 1) : /\ a < e => new[a] = log[a]
                                  /\ e < a /\ a < e + n => IsEnd(new[a])
                                  /\ a >= e + n => new[a] = Erased
  /\ ~IsEnd(new[e]) /\ EntryPages(new[e]) = n

LEMMA EntryAppended ==
  ASSUME NEW log \in Logs, NEW e \in Nat, e = LogEnd(log), ErasedFrom(log, e), Sound(log, 1),
         NEW n \in Nat \ {0}, e + n <= NumPages, NEW new \in Logs, Extends(new, log, e, n)
  PROVE  /\ LogEnd(new) = e + n /\ ErasedFrom(new, e + n) /\ Sound(new, 1)
         /\ Visited(new, 1) = Visited(log, 1) \cup {e} /\ e \notin Visited(log, 1)
         /\ \A j \in Visited(log, 1) : j < e /\ Behind(log, j) <= e
<1> DEFINE c == new[e]
           mid == [log EXCEPT ![e] = c]
<1>0. NumPages \in Nat /\ e < NumPages /\ e \in 0..(NumPages - 1) /\ e + n \in Nat
  BY LogAssumption
<1>1. e = EndOf(log, 1) /\ e >= 1 /\ AtEnd(log, e) /\ e \in Walk(log, 1)
      /\ \A j \in Walk(log, 1) : j \in Nat /\ j <= e
  BY LogEndIs
<1>2. c \in Cells /\ ~IsEnd(c) /\ EntryPages(c) = n
  BY <1>0 DEF Logs, Extends
<1>3. mid \in Logs /\ mid[e] = c /\ \A a \in 0..(NumPages - 1) : a # e => mid[a] = log[a]
  BY <1>0, <1>2 DEF Logs
<1> HIDE DEF mid
<1>4. AtEnd(mid, e + n)
  <2>1. e + n < NumPages => mid[e + n] = Erased
    BY <1>0, <1>3 DEF ErasedFrom
  <2> QED BY <1>0, <2>1, CellFacts DEF AtEnd
<1>5. Walk(mid, 1) = Walk(log, 1) \cup {e + n} /\ EndOf(mid, 1) = e + n
  <2>1. Programs(mid, log, e, c)
    BY DEF Programs, mid
  <2> HIDE DEF c
  <2> QED BY <1>0, <1>1, <1>2, <1>4, <2>1, WalkExtended
<1>6. \A j \in Walk(mid, 1) : j < NumPages => mid[j] = new[j]
  <2> SUFFICES ASSUME NEW j \in Walk(mid, 1), j < NumPages PROVE mid[j] = new[j]
    OBVIOUS
  <2>1. j \in 0..(NumPages - 1) /\ (j < e \/ j = e \/ j = e + n)
    BY <1>0, <1>1, <1>5
  <2> QED BY <1>0, <1>3, <2>1 DEF Extends, ErasedFrom
<1>7. Walk(new, 1) = Walk(log, 1) \cup {e + n} /\ LogEnd(new) = e + n
  <2>1. Walk(mid, 1) = Walk(new, 1)
    BY <1>3, <1>6, WalkSame
  <2> QED BY <1>5, <2>1 DEF LogEnd, EndOf
<1>8. \A j \in Visited(log, 1) : j \in Nat /\ j < e /\ Behind(log, j) <= e /\ new[j] = log[j]
                                /\ j \in Walk(log, 1) /\ ~AtEnd(log, j) /\ j < NumPages
  <2> SUFFICES ASSUME NEW j \in Visited(log, 1)
               PROVE  /\ j \in Nat /\ j < e /\ Behind(log, j) <= e /\ new[j] = log[j]
                      /\ j \in Walk(log, 1) /\ ~AtEnd(log, j) /\ j < NumPages
    OBVIOUS
  <2>1. j \in Nat /\ ~AtEnd(log, j) /\ j \in Walk(log, 1) /\ j < NumPages
    BY VisitedIs DEF Visited
  <2>2. j < e
    BY <1>1, <2>1
  <2>3. Behind(log, j) <= e
    BY <1>1, <2>2, EntriesApart
  <2>4. j \in 0..(NumPages - 1)
    BY <1>0, <2>1
  <2> QED BY <2>1, <2>2, <2>3, <2>4 DEF Extends
<1>9. Visited(new, 1) = Visited(log, 1) \cup {e} /\ e \notin Visited(log, 1)
  <2>1. ~AtEnd(new, e) /\ AtEnd(new, e + n)
    <3>1. AtEnd(new, e + n)
      BY <1>7, LogEndIs
    <3> QED BY <1>0, <1>2, <3>1 DEF AtEnd
  <2>2. \A j \in Visited(log, 1) : ~AtEnd(new, j)
    BY <1>8 DEF AtEnd
  <2>3. \A j \in Walk(log, 1) : j = e \/ j \in Visited(log, 1)
    BY <1>1, EndIs DEF EndsAt, Visited
  <2>4. e \notin Visited(log, 1)
    BY <1>8
  <2> QED BY <1>1, <1>7, <1>8, <2>1, <2>2, <2>3, <2>4 DEF Visited
<1>10. Inside(new, e)
  <2> SUFFICES ASSUME NEW a \in Nat, e < a, a < e + n PROVE a < NumPages /\ IsEnd(new[a])
    BY <1>2 DEF Inside, Behind
  <2>1. a \in 0..(NumPages - 1)
    BY <1>0
  <2> QED BY <1>0, <2>1 DEF Extends
<1>11. ASSUME NEW j \in Visited(log, 1) PROVE Inside(new, j)
  <2>1. j \in Nat /\ Behind(log, j) <= e /\ Behind(new, j) = Behind(log, j)
    BY <1>8 DEF Behind
  <2> SUFFICES ASSUME NEW a \in Nat, j < a, a < Behind(log, j) PROVE a < NumPages /\ IsEnd(new[a])
    BY <2>1 DEF Inside
  <2>2. Behind(log, j) \in Nat
    BY <1>8, BehindIs
  <2>3. a < NumPages /\ IsEnd(log[a])
    BY DEF Sound, Inside
  <2>4. a < e /\ a \in 0..(NumPages - 1)
    BY <1>0, <2>1, <2>2, <2>3
  <2> QED BY <2>3, <2>4 DEF Extends
<1>12. Sound(new, 1)
  BY <1>9, <1>10, <1>11 DEF Sound
<1>13. ErasedFrom(new, e + n)
  BY DEF ErasedFrom, Extends
<1> QED
  BY <1>7, <1>8, <1>9, <1>12, <1>13

(* A page of an entry, where the walk does not look.                        *)
LEMMA PageInside ==
  ASSUME NEW log \in Logs, Sound(log, 1), NEW e \in Nat, e < NumPages, e \notin Walk(log, 1),
         NEW c \in Cells, IsEnd(c), NEW new, Programs(new, log, e, c)
  PROVE  new \in Logs /\ Walk(new, 1) = Walk(log, 1) /\ LogEnd(new) = LogEnd(log) /\ Sound(new, 1)
<1>1. new \in Logs
  BY DEF Logs, Programs
<1>2. new[e] = c /\ \A j \in Nat : j # e /\ j < NumPages => new[j] = log[j]
  BY LogAssumption DEF Logs, Programs
<1>3. \A j \in Walk(log, 1) : j \in Nat /\ (j < NumPages => log[j] = new[j])
  BY <1>2, LogEndIs
<1>4. Walk(new, 1) = Walk(log, 1)
  BY <1>1, <1>3, WalkSame
<1>5. Visited(new, 1) = Visited(log, 1)
  <2>1. \A j \in Walk(log, 1) : AtEnd(new, j) <=> AtEnd(log, j)
    BY <1>3, LogAssumption DEF AtEnd
  <2> QED BY <1>4, <2>1 DEF Visited
<1>6. ASSUME NEW j \in Visited(log, 1) PROVE Inside(new, j)
  <2>1. log[j] = new[j]
    BY <1>3, VisitedIs DEF Visited
  <2>2. Inside(log, j) /\ Behind(new, j) = Behind(log, j)
    BY <2>1 DEF Sound, Behind
  <2> QED BY <1>2, <2>2 DEF Inside
<1> QED
  BY <1>1, <1>4, <1>5, <1>6 DEF Sound, LogEnd

(***************************************************************************)
(* The inductive invariant                                                 *)
(***************************************************************************)
StartOf(r) == r * RowPages
Whole(s)   == s # <<>> => /\ ~IsEnd(s[1]) /\ EntryPages(s[1]) = Len(s)
                          /\ \A i \in 2..Len(s) : IsEnd(s[i])
Changes    == [key : Keys \cup {0}, val : Values \cup {Missing}]

(* One-time programmable memory is not formatted or reorganised.            *)
MediumInv == medium = "otp" => ~damaged /\ pc \in {"off", "idle", "write"}

(* What is formatted is erased; a row being programmed has its rest erased; *)
(* the entry just copied was one of the store.                              *)
RowInv ==
  /\ pc = "format" => \A j \in 0..(NumPages - 1) : j < StartOf(row) => flash[j] = Erased
  /\ pc \in {"erase", "program"} <=> image # <<>>
  /\ pc = "program" =>
       /\ off < Len(image)
       /\ \A j \in 0..(NumPages - 1) :
            StartOf(row) + off <= j /\ j < StartOf(row) + RowPages => flash[j] = Erased
  /\ pc = "advance" \/ (pc \in {"erase", "program"} /\ ret = "advance") => p < NumPages

(* So far for every store, damaged or not.                                  *)
Typed == TypeOK /\ MediumInv /\ RowInv

(* A value being written to an intact store: its first page comes where the *)
(* log ends, the others where the walk does not look.                       *)
Appending ==
  /\ at >= 1 /\ ErasedFrom(flash, at) /\ at + Len(todo) <= NumPages
  /\ \/ at = LogEnd(flash) /\ Whole(todo)
     \/ /\ at + Len(todo) = LogEnd(flash)
        /\ \A j \in Walk(flash, 1) : j >= at => j = LogEnd(flash)
        /\ \A i \in 1..Len(todo) : IsEnd(todo[i])

(* The pages of an intact store are a header and entries with their pages,  *)
(* erased behind the last of them.                                          *)
Closed(log) == log[0] = Header /\ Sound(log, 1) /\ ErasedFrom(log, LogEnd(log))

IntactInv ==
  ~damaged =>
    /\ pc = "off" => Closed(flash) \/ ErasedFrom(flash, 0)
    /\ pc = "format" => ErasedFrom(flash, 0)
    /\ pc = "idle" => Closed(flash)
    /\ pc = "write" => flash[0] = Header /\ Sound(flash, 1) /\ Appending
    /\ pc \in {"erase", "program"} => ret # "write"

(* A reorganisation, and that part of it which still reads the log.         *)
Moving     == pc \in Reorganising \/ (pc \in {"erase", "program"} /\ ret # "write")
Collecting == pc \in {"scan", "advance"} \/ (pc \in {"erase", "program"} /\ ret = "advance")

(* The log it is about to leave, were it to copy nothing more: the pages     *)
(* written anew, those on their way to flash and those collected.  Erasing   *)
(* and programming do not change it.                                         *)
Programmed   == IF pc = "program" THEN off ELSE 0
CarriedAt(j) == IF j <= Len(image) THEN image[j] ELSE copy[j - Len(image)]
NewEnd       == StartOf(row) + Len(image) + Len(copy)
New == [a \in 0..(NumPages - 1) |->
          IF a < StartOf(row) + Programmed THEN flash[a]
          ELSE IF a < NewEnd THEN CarriedAt(a - StartOf(row) + 1) ELSE Erased]

(* The entry copied last, and the place behind the one it was copied from.  *)
Last  == Max(Visited(New, 1))
Place == IF pc = "scan" THEN p ELSE p + EntryPages(New[Last])

(* What is still to be read from page i on is not reached by the new log,   *)
(* which has room for it and for a change of k pages.                       *)
Ahead(log, i, new, k) ==
  /\ i \in Nat /\ i <= NumPages /\ Sound(log, i)
  /\ LogEnd(new) <= i /\ LogEnd(new) + LiveFrom(log, i) + k < NumPages

(* The entry copied last is where it was unless the row written last took   *)
(* its place.                                                               *)
CopiedInv ==
  pc # "scan" =>
    /\ Visited(New, 1) # {}
    /\ p >= StartOf(row) + Len(image) => ~IsEnd(flash[p]) /\ Behind(flash, p) = Place

ReorgInv ==
  ~damaged /\ Moving =>
    /\ Whole(todo) /\ Closed(New)
    /\ Collecting =>
         /\ LogEnd(New) = NewEnd /\ Ahead(flash, Place, New, Len(todo)) /\ CopiedInv
         /\ pc \in {"erase", "program"} => Len(image) = RowPages
    /\ ~Collecting =>
         /\ LogEnd(New) + Len(todo) < NumPages /\ copy = <<>>
         /\ IF pc = "clear" THEN LogEnd(New) <= StartOf(row) ELSE LogEnd(New) = NewEnd

StoreInv == Typed /\ IntactInv /\ ReorgInv

(***************************************************************************)
(* Facts the steps need                                                    *)
(***************************************************************************)
LEMMA RowFacts ==
  ASSUME NEW r \in Nat
  PROVE  /\ StartOf(r) \in Nat /\ StartOf(r + 1) = StartOf(r) + RowPages /\ StartOf(0) = 0
         /\ Rows \in Nat \ {0} /\ RowPages \in Nat \ {0} /\ NumPages \in Nat \ {0}
         /\ r < Rows <=> StartOf(r) < NumPages
         /\ r < Rows => StartOf(r) + RowPages <= NumPages
         /\ r = Rows => StartOf(r) = NumPages
         /\ r > 0 => StartOf(r) >= RowPages
<1>1. NumPages \in Nat \ {0} /\ RowPages \in Nat \ {0} /\ NumPages % RowPages = 0
  BY LogAssumption, RowAssumption
<1>2. \A a \in Nat, b \in Nat \ {0} : a % b = 0 => a = b * (a \div b)
  OBVIOUS
<1>3. Rows * RowPages = NumPages /\ Rows \in Nat
  <2>1. Rows \in Nat
    BY <1>1 DEF Rows
  <2> QED BY <1>1, <1>2, <2>1 DEF Rows
<1>4. Rows # 0
  BY <1>1, <1>3
<1>5. \A a, b \in Nat : a < b => a * RowPages + RowPages <= b * RowPages
  BY <1>1
<1>6. \A a, b \in Nat : a >= b => a * RowPages >= b * RowPages
  BY <1>1
<1>7. /\ r * RowPages \in Nat /\ (r + 1) * RowPages = r * RowPages + RowPages
      /\ 0 * RowPages = 0
  BY <1>1
<1>8. r < Rows => r * RowPages + RowPages <= NumPages
  BY <1>3, <1>5
<1>9. ~(r < Rows) => r * RowPages >= NumPages
  BY <1>3, <1>6
<1>10. r > 0 => r * RowPages >= RowPages
  BY <1>1, <1>6
<1> QED
  BY <1>1, <1>3, <1>4, <1>7, <1>8, <1>9, <1>10 DEF StartOf

LEMMA RowErased ==
  ASSUME flash \in Logs, NEW r \in Nat, EraseRow(r)
  PROVE  /\ flash' \in Logs
         /\ \A j \in 0..(NumPages - 1) :
              flash'[j] = IF StartOf(r) <= j /\ j < StartOf(r) + RowPages THEN Erased ELSE flash[j]
<1>1. DOMAIN flash = 0..(NumPages - 1) /\ RowPages \in Nat /\ r * RowPages \in Nat
  BY RowFacts DEF Logs, StartOf
<1>2. \A j \in 0..(NumPages - 1) :
        j \in InRow(r) <=> StartOf(r) <= j /\ j < StartOf(r) + RowPages
  BY <1>1, LogAssumption DEF InRow, StartOf
<1>3. Erased \in Cells
  BY CellFacts
<1> QED
  BY <1>1, <1>2, <1>3 DEF EraseRow, Logs


(* What is known of every store.                                            *)
LEMMA StoreFacts ==
  ASSUME TypeOK
  PROVE  /\ flash \in Logs /\ RowPages \in Nat \ {0} /\ NumPages \in Nat \ {0} /\ Rows \in Nat \ {0}
         /\ medium \in {"flash", "otp"} /\ p \in Nat /\ row \in Nat /\ off \in Nat /\ at \in Nat
         /\ copy \in Seq(Cells) /\ Len(copy) \in Nat /\ Len(copy) <= RowPages
         /\ image \in Seq(Cells) /\ Len(image) \in Nat /\ Len(image) <= RowPages
         /\ todo \in Seq(Cells) /\ Len(todo) \in Nat
         /\ StartOf(row) \in Nat /\ StartOf(row + 1) = StartOf(row) + RowPages
         /\ 0 \in 0..(NumPages - 1) /\ op \in Changes /\ asked \in Changes
<1>1. /\ RowPages \in Nat \ {0} /\ NumPages \in Nat \ {0} /\ Rows \in Nat \ {0}
  BY RowFacts
<1>2. /\ flash \in Logs /\ medium \in {"flash", "otp"} /\ p \in Nat /\ row \in Nat /\ at \in Nat
      /\ copy \in Seq(Cells) /\ image \in Seq(Cells) /\ todo \in Seq(Cells) /\ off \in 0..RowPages
      /\ Len(copy) <= RowPages /\ Len(image) <= RowPages /\ op \in Changes /\ asked \in Changes
  BY DEF TypeOK, Logs, Changes
<1>3. StartOf(row) \in Nat /\ StartOf(row + 1) = StartOf(row) + RowPages
  BY <1>2, RowFacts
<1>4. Len(copy) \in Nat /\ Len(image) \in Nat /\ Len(todo) \in Nat
  BY <1>2
<1> QED
  BY <1>1, <1>2, <1>3, <1>4

(* The store is idle again.                                                 *)
LEMMA Rests ==
  ASSUME TypeOK, NEW result \in {"none", "ok", "nospace", "noent"}, Returns(result),
         flash' \in Logs, UNCHANGED <<medium, losses, damaged>>, asked' \in Changes,
         medium = "otp" => ~damaged, ~damaged => Closed(flash')
  PROVE  StoreInv'
<1>1. /\ pc' = "idle" /\ op' = NoChange /\ res' = result /\ todo' = <<>> /\ at' = 0 /\ p' = 0
      /\ copy' = <<>> /\ image' = <<>> /\ row' = 0 /\ off' = 0 /\ ret' = "write"
      /\ medium' = medium /\ losses' = losses /\ damaged' = damaged
  BY DEF Returns, Forget
<1>2. TypeOK'
  <2>1. NumPages \in Nat /\ RowPages \in Nat /\ 0 \in 0..RowPages
    BY RowFacts
  <2>2. <<>> \in Seq(Cells) /\ Len(<<>>) = 0
    OBVIOUS
  <2>3. NoChange \in [key : Keys \cup {0}, val : Values \cup {Missing}]
    BY DEF NoChange
  <2> QED BY <1>1, <2>1, <2>2, <2>3 DEF TypeOK, Logs, Changes
<1>3. MediumInv' /\ RowInv' /\ ReorgInv'
  BY <1>1 DEF MediumInv, RowInv, ReorgInv, Moving, Reorganising
<1>4. IntactInv'
  BY <1>1 DEF IntactInv, Closed
<1> QED
  BY <1>2, <1>3, <1>4 DEF StoreInv, Typed

LEMMA Stays ==
  ASSUME StoreInv, pc = "idle", NEW result \in {"none", "ok", "nospace", "noent"},
         Done(result), UNCHANGED <<medium, losses, damaged>>, asked' \in Changes
  PROVE  StoreInv'
<1>1. TypeOK /\ flash \in Logs /\ flash' = flash /\ Returns(result)
  BY StoreFacts DEF StoreInv, Typed, Done
<1>2. medium = "otp" => ~damaged
  BY DEF StoreInv, Typed, MediumInv
<1>3. ~damaged => Closed(flash)
  BY DEF StoreInv, IntactInv
<1> QED
  BY <1>1, <1>2, <1>3, Rests

(***************************************************************************)
(* The steps: opening and formatting                                       *)
(***************************************************************************)
LEMMA OpenStep == StoreInv /\ UNCHANGED medium /\ Open => StoreInv'
<1> SUFFICES ASSUME StoreInv, UNCHANGED medium, Open PROVE StoreInv'
  OBVIOUS
<1>1. /\ TypeOK /\ flash \in Logs /\ pc = "off" /\ UNCHANGED <<medium, losses, damaged, asked>>
      /\ asked \in Changes /\ image = <<>> /\ 0 \in 0..(NumPages - 1)
  BY StoreFacts DEF StoreInv, Typed, RowInv, Open
<1>2. CASE flash[0] = Header
  <2>1. Returns("none") /\ flash' = flash
    BY <1>2 DEF Open, Done
  <2>2. medium = "otp" => ~damaged
    BY DEF StoreInv, Typed, MediumInv
  <2>3. ~damaged => Closed(flash)
    <3>1. ~ErasedFrom(flash, 0)
      BY <1>1, <1>2, CellFacts DEF ErasedFrom
    <3> QED BY <1>1, <3>1 DEF StoreInv, IntactInv
  <2> QED BY <1>1, <2>1, <2>2, <2>3, Rests
<1>3. CASE flash[0] # Header
  <2>1. /\ medium = "flash" /\ pc' = "format" /\ row' = 0
        /\ UNCHANGED <<medium, flash, op, todo, at, p, copy, image, off, ret, res, losses, damaged, asked>>
    BY <1>1, <1>3 DEF Open, writing, moving
  <2>2. TypeOK'
    BY <1>1, <2>1 DEF TypeOK
  <2>3. MediumInv' /\ ReorgInv'
    BY <2>1 DEF MediumInv, ReorgInv, Moving, Reorganising
  <2>4. RowInv'
    <3>1. \A j \in 0..(NumPages - 1) : ~(j < StartOf(0))
      BY RowFacts
    <3> QED BY <1>1, <2>1, <3>1 DEF RowInv
  <2>5. IntactInv'
    <3>1. ~damaged => ErasedFrom(flash, 0)
      BY <1>1, <1>3 DEF StoreInv, IntactInv, Closed
    <3> QED BY <2>1, <3>1 DEF IntactInv
  <2> QED BY <2>2, <2>3, <2>4, <2>5 DEF StoreInv, Typed
<1> QED
  BY <1>2, <1>3

(* A header alone.                                                          *)
LEMMA HeaderAlone ==
  ASSUME NEW log \in Logs, log[0] = Header,
         \A j \in 0..(NumPages - 1) : j # 0 => log[j] = Erased
  PROVE  Closed(log) /\ LogEnd(log) = 1 /\ Visited(log, 1) = {}
<1>1. AtEnd(log, 1)
  <2>1. NumPages \in Nat /\ (1 < NumPages => log[1] = Erased)
    BY LogAssumption
  <2> QED BY <2>1, CellFacts DEF AtEnd
<1>2. LogEnd(log) = 1 /\ Visited(log, 1) = {}
  BY <1>1, LogEndIs, EndBehind, VisitedIs
<1> QED
  BY <1>2 DEF ErasedFrom, Closed, Sound

LEMMA OpenOtpStep == StoreInv /\ UNCHANGED medium /\ OpenOtp => StoreInv'
<1> SUFFICES ASSUME StoreInv, UNCHANGED medium, OpenOtp PROVE StoreInv'
  OBVIOUS
<1>1. /\ TypeOK /\ flash \in Logs /\ pc = "off" /\ medium = "otp" /\ flash[0] = Erased
      /\ Returns("none") /\ flash' = [flash EXCEPT ![0] = Header] /\ asked' \in Changes
      /\ UNCHANGED <<medium, losses, damaged>>
  BY StoreFacts DEF StoreInv, Typed, OpenOtp, Initialise
<1>2. ~damaged /\ ErasedFrom(flash, 0)
  BY <1>1, CellFacts DEF StoreInv, Typed, MediumInv, IntactInv, Closed
<1>3. flash' \in Logs /\ flash'[0] = Header /\ \A j \in 0..(NumPages - 1) : j # 0 => flash'[j] = Erased
  BY <1>1, <1>2, CellFacts, LogAssumption DEF Logs, ErasedFrom
<1>4. Closed(flash')
  BY <1>3, HeaderAlone
<1> QED
  BY <1>1, <1>2, <1>3, <1>4, Rests

LEMMA FormatStep == StoreInv /\ UNCHANGED medium /\ Format => StoreInv'
<1> SUFFICES ASSUME StoreInv, UNCHANGED medium, Format PROVE StoreInv'
  OBVIOUS
<1>1. /\ TypeOK /\ flash \in Logs /\ pc = "format" /\ row \in Nat /\ Rows \in Nat /\ RowPages \in Nat
      /\ NumPages \in Nat /\ StartOf(row) \in Nat /\ StartOf(row + 1) = StartOf(row) + RowPages
      /\ UNCHANGED <<medium, losses, damaged, asked>> /\ asked \in Changes
  BY StoreFacts DEF StoreInv, Typed, Format
<1>2. medium = "flash" /\ medium # "otp"
  BY <1>1 DEF StoreInv, Typed, TypeOK, MediumInv
<1>3. image = <<>> /\ \A j \in 0..(NumPages - 1) : j < StartOf(row) => flash[j] = Erased
  BY <1>1 DEF StoreInv, Typed, RowInv
<1>4. CASE row < Rows
  <2>1. /\ EraseRow(row) /\ row' = row + 1 /\ pc' = "format"
        /\ UNCHANGED <<medium, op, todo, at, p, copy, image, off, ret, res, losses, damaged, asked>>
    BY <1>1, <1>4 DEF Format, writing, moving
  <2>2. /\ flash' \in Logs
        /\ \A j \in 0..(NumPages - 1) :
             flash'[j] = IF StartOf(row) <= j /\ j < StartOf(row) + RowPages THEN Erased ELSE flash[j]
    BY <1>1, <2>1, RowErased
  <2>3. TypeOK'
    <3>1. row + 1 \in Nat
      BY <1>1
    <3> QED BY <1>1, <2>1, <2>2, <3>1 DEF TypeOK, Logs
  <2>4. MediumInv' /\ ReorgInv'
    BY <1>2, <2>1 DEF MediumInv, ReorgInv, Moving, Reorganising
  <2>5. RowInv'
    <3>1. \A j \in 0..(NumPages - 1) : j < StartOf(row + 1) => flash'[j] = Erased
      BY <1>1, <1>3, <2>2
    <3> QED BY <1>3, <2>1, <3>1 DEF RowInv
  <2>6. IntactInv'
    <3>1. ~damaged => ErasedFrom(flash, 0)
      BY <1>1 DEF StoreInv, IntactInv
    <3>2. ~damaged => ErasedFrom(flash', 0)
      BY <2>2, <3>1 DEF ErasedFrom
    <3> QED BY <2>1, <3>2 DEF IntactInv
  <2> QED BY <2>3, <2>4, <2>5, <2>6 DEF StoreInv, Typed
<1>5. CASE ~(row < Rows)
  <2>1. Returns("none") /\ flash' = [flash EXCEPT ![0] = Header]
    BY <1>1, <1>5 DEF Format, Initialise
  <2>2. StartOf(row) >= NumPages
    BY <1>1, <1>5, RowFacts
  <2>3. /\ flash' \in Logs /\ flash'[0] = Header
        /\ \A j \in 0..(NumPages - 1) : j # 0 => flash'[j] = Erased
    BY <1>1, <1>3, <2>1, <2>2, CellFacts, LogAssumption DEF Logs
  <2>4. Closed(flash')
    BY <2>3, HeaderAlone
  <2> QED BY <1>1, <1>2, <2>1, <2>3, <2>4, Rests
<1> QED
  BY <1>4, <1>5

LEMMA PowerLossStep == StoreInv /\ UNCHANGED medium /\ PowerLoss => StoreInv'
<1> SUFFICES ASSUME StoreInv, UNCHANGED medium, PowerLoss PROVE StoreInv'
  OBVIOUS
<1>1. /\ TypeOK /\ flash \in Logs /\ losses < MaxPowerLosses /\ losses' = losses + 1
      /\ damaged' = (damaged \/ InDanger) /\ pc # "off" /\ pc' = "off" /\ res' = "none"
      /\ todo' = <<>> /\ at' = 0 /\ p' = 0 /\ copy' = <<>> /\ image' = <<>> /\ asked' = NoChange
      /\ row' = 0 /\ off' = 0 /\ ret' = "write" /\ UNCHANGED <<medium, flash, op>>
  BY DEF StoreInv, Typed, TypeOK, Logs, PowerLoss, Forget
<1>2. TypeOK'
  <2>1. NumPages \in Nat /\ RowPages \in Nat /\ 0 \in 0..RowPages
    BY RowFacts
  <2>2. <<>> \in Seq(Cells) /\ Len(<<>>) = 0
    OBVIOUS
  <2>3. losses + 1 \in 0..MaxPowerLosses
    BY <1>1, RowAssumption DEF TypeOK
  <2>4. damaged' \in BOOLEAN
    BY <1>1 DEF TypeOK
  <2>5. /\ medium' \in {"flash", "otp"} /\ flash' \in [0..(NumPages - 1) -> Cells]
        /\ op' \in [key : Keys \cup {0}, val : Values \cup {Missing}]
        /\ asked' \in [key : Keys \cup {0}, val : Values \cup {Missing}]
    BY <1>1 DEF TypeOK, NoChange
  <2> QED BY <1>1, <2>1, <2>2, <2>3, <2>4, <2>5 DEF TypeOK
<1>3. MediumInv'
  BY <1>1 DEF StoreInv, Typed, MediumInv, InDanger, Reorganising
<1>4. RowInv' /\ ReorgInv'
  BY <1>1 DEF RowInv, ReorgInv, Moving, Reorganising
<1>5. ~damaged' => pc \in {"format", "idle", "write"}
  BY <1>1 DEF InDanger, Reorganising, TypeOK
<1>6. ~damaged' => Closed(flash) \/ ErasedFrom(flash, 0)
  <2> SUFFICES ASSUME ~damaged' PROVE Closed(flash) \/ ErasedFrom(flash, 0)
    OBVIOUS
  <2>1. ~damaged
    BY <1>1
  <2>2. CASE pc = "write"
    <3>1. flash[0] = Header /\ Sound(flash, 1) /\ Appending
      BY <2>1, <2>2 DEF StoreInv, IntactInv
    <3>2. at \in Nat /\ Len(todo) \in Nat /\ LogEnd(flash) \in Nat
      BY <1>1, StoreFacts, LogEndIs
    <3>3. at <= LogEnd(flash) /\ ErasedFrom(flash, at)
      BY <3>1, <3>2 DEF Appending
    <3>4. ErasedFrom(flash, LogEnd(flash))
      BY <3>2, <3>3 DEF ErasedFrom
    <3> QED BY <3>1, <3>4 DEF Closed
  <2> QED BY <1>5, <2>1, <2>2 DEF StoreInv, IntactInv
<1>7. IntactInv'
  BY <1>1, <1>6 DEF IntactInv, Closed, ErasedFrom
<1> QED
  BY <1>2, <1>3, <1>4, <1>7 DEF StoreInv, Typed

(***************************************************************************)
(* The steps: operations of the user                                       *)
(***************************************************************************)
LEMMA EncodeIs ==
  ASSUME NEW k \in Keys, NEW v \in Values
  PROVE  /\ Encode(k, v) \in Seq(Cells) /\ Whole(Encode(k, v)) /\ Encode(k, v) # <<>>
         /\ Len(Encode(k, v)) = ValuePages(v) /\ Encode(k, v)[1] = Entry(k, v)
         /\ \A i \in 1..(ValuePages(v) - 1) : Encode(k, v)[i + 1] = Data(v, i)
<1> DEFINE n == ValuePages(v)
           rest == [i \in 1..(n - 1) |-> Data(v, i)]
<1>1. n \in Nat \ {0} /\ NumPages \in Nat /\ n <= NumPages
  <2>1. n \in Nat \ {0} /\ n <= RowPages
    BY ValuePagesIs, RowAssumption
  <2>2. RowPages \in Nat /\ NumPages \in Nat /\ RowPages <= NumPages
    BY RowFacts
  <2> HIDE DEF n
  <2> QED BY <2>1, <2>2
<1> HIDE DEF n
<1>2. Encode(k, v) = <<Entry(k, v)>> \o rest
  BY DEF Encode, n
<1>3. Entry(k, v) \in Cells /\ \A i \in 1..(n - 1) : Data(v, i) \in Cells
  BY <1>1 DEF Cells
<1>4. rest \in Seq(Cells) /\ Len(rest) = n - 1 /\ <<Entry(k, v)>> \in Seq(Cells)
      /\ \A i \in 1..(n - 1) : rest[i] = Data(v, i)
  BY <1>1, <1>3
<1> HIDE DEF rest
<1>5. /\ Len(Encode(k, v)) = n /\ Encode(k, v)[1] = Entry(k, v)
      /\ \A i \in 1..(n - 1) : Encode(k, v)[i + 1] = rest[i]
      /\ Encode(k, v) \in Seq(Cells)
  BY <1>1, <1>2, <1>4
<1>6. ~IsEnd(Entry(k, v)) /\ EntryPages(Entry(k, v)) = n /\ \A i : IsEnd(Data(v, i))
  BY DEF IsEnd, EntryPages, Entry, Data, n
<1>7. \A i \in 2..n : IsEnd(Encode(k, v)[i])
  <2> SUFFICES ASSUME NEW i \in 2..n PROVE IsEnd(Encode(k, v)[i])
    OBVIOUS
  <2>1. i - 1 \in 1..(n - 1) /\ (i - 1) + 1 = i
    BY <1>1
  <2> QED BY <1>4, <1>5, <1>6, <2>1
<1>8. Encode(k, v) # <<>>
  BY <1>1, <1>5
<1> QED
  BY <1>4, <1>5, <1>6, <1>7, <1>8 DEF Whole, n

LEMMA DeletionIs ==
  ASSUME NEW k \in Keys
  PROVE  /\ <<Deletion(k)>> \in Seq(Cells) /\ Whole(<<Deletion(k)>>) /\ Len(<<Deletion(k)>>) = 1
         /\ <<Deletion(k)>> # <<>>
<1>1. Deletion(k) \in Cells /\ ~IsEnd(Deletion(k)) /\ EntryPages(Deletion(k)) = 1
  BY DEF Cells, Deletion, IsEnd, EntryPages
<1> QED
  BY <1>1 DEF Whole

LEMMA WriteStarts ==
  ASSUME StoreInv, pc = "idle", UNCHANGED <<medium, losses, damaged>>,
         NEW k \in Keys, NEW v \in Values \cup {Missing}, NEW cells \in Seq(Cells),
         Whole(cells), LogEnd(flash) + Len(cells) <= NumPages, StartWrite(k, v, cells)
  PROVE  StoreInv'
<1>1. /\ TypeOK /\ flash \in Logs /\ pc' = "write" /\ at' = LogEnd(flash) /\ todo' = cells
      /\ op' = [key |-> k, val |-> v] /\ res' = "none" /\ asked' = NoChange /\ image = <<>>
      /\ UNCHANGED <<medium, flash, p, copy, image, row, off, ret, losses, damaged>>
  BY DEF StoreInv, Typed, TypeOK, RowInv, Logs, StartWrite, moving, rowing
<1>2. LogEnd(flash) \in Nat /\ LogEnd(flash) >= 1
  BY <1>1, LogEndIs
<1>3. TypeOK'
  <2>1. /\ [key |-> k, val |-> v] \in [key : Keys \cup {0}, val : Values \cup {Missing}]
        /\ NoChange \in [key : Keys \cup {0}, val : Values \cup {Missing}]
    BY DEF NoChange
  <2> QED BY <1>1, <1>2, <2>1 DEF TypeOK
<1>4. MediumInv' /\ RowInv' /\ ReorgInv'
  BY <1>1 DEF StoreInv, Typed, MediumInv, RowInv, ReorgInv, Moving, Reorganising
<1>5. ~damaged => Closed(flash)
  BY DEF StoreInv, IntactInv
<1>6. ~damaged => Appending'
  BY <1>1, <1>2, <1>5 DEF Appending, Closed
<1>7. IntactInv'
  BY <1>1, <1>5, <1>6 DEF IntactInv, Closed
<1> QED
  BY <1>3, <1>4, <1>7 DEF StoreInv, Typed

LEMMA ReorgStarts ==
  ASSUME StoreInv, pc = "idle", medium = "flash", UNCHANGED <<medium, losses, damaged>>,
         NEW k \in Keys \cup {0}, NEW v \in Values \cup {Missing}, NEW cells \in Seq(Cells),
         Whole(cells), ~NoSpaceFor(Len(cells)), StartReorg(k, v, cells)
  PROVE  /\ StoreInv'
         /\ New' \in Logs /\ LogEnd(New') = 1 /\ Visited(New', 1) = {} /\ Place' = 1
<1>1. /\ TypeOK /\ flash \in Logs /\ pc' = "scan" /\ p' = 1 /\ copy' = <<Header>> /\ row' = 0
      /\ op' = [key |-> k, val |-> v] /\ todo' = cells /\ at' = 0 /\ res' = "none"
      /\ asked' = NoChange /\ image = <<>> /\ image' = <<>>
      /\ UNCHANGED <<medium, flash, off, ret, losses, damaged>>
  BY StoreFacts DEF StoreInv, Typed, RowInv, StartReorg
<1>2. LiveFrom(flash, 1) \in Nat /\ 1 + LiveFrom(flash, 1) + Len(cells) < NumPages
  <2>1. LiveFrom(flash, 1) \in Nat /\ LivePages(flash) = LiveFrom(flash, 1)
    BY <1>1, LiveFromIs, LivePagesIs
  <2> QED BY <2>1, LogAssumption DEF NoSpaceFor
<1>3. Header \in Cells
  BY CellFacts
<1>4. /\ <<Header>> \in Seq(Cells) /\ Len(<<Header>>) = 1 /\ <<Header>>[1] = Header
      /\ Len(<<>>) = 0 /\ Len(cells) \in Nat
  BY <1>3
<1>5. StartOf(0) = 0 /\ RowPages \in Nat \ {0} /\ NumPages \in Nat \ {0}
  BY RowFacts
<1>6. TypeOK'
  <2>1. /\ [key |-> k, val |-> v] \in [key : Keys \cup {0}, val : Values \cup {Missing}]
        /\ NoChange \in [key : Keys \cup {0}, val : Values \cup {Missing}]
    BY DEF NoChange
  <2>2. pc' \in Reorganising
    BY <1>1 DEF Reorganising
  <2>3. /\ medium' \in {"flash", "otp"} /\ flash' \in [0..(NumPages - 1) -> Cells]
        /\ image' \in Seq(Cells) /\ Len(image') <= RowPages /\ off' \in 0..RowPages
        /\ ret' \in {"write", "advance", "clear"}
        /\ losses' \in 0..MaxPowerLosses /\ damaged' \in BOOLEAN
    BY <1>1 DEF TypeOK
  <2>4. Len(copy') <= RowPages
    BY <1>1, <1>4, <1>5
  <2> QED BY <1>1, <1>4, <2>1, <2>2, <2>3, <2>4 DEF TypeOK
<1>7. MediumInv' /\ RowInv' /\ IntactInv'
  BY <1>1 DEF MediumInv, RowInv, IntactInv
<1>8. New' \in Logs /\ New'[0] = Header /\ \A j \in 0..(NumPages - 1) : j # 0 => New'[j] = Erased
  <2>1. New' = [a \in 0..(NumPages - 1) |->
                  IF a < 0 + 0 THEN flash'[a]
                  ELSE IF a < 0 + 0 + 1 THEN CarriedAt(a - 0 + 1)' ELSE Erased]
    BY <1>1, <1>4, <1>5 DEF New, NewEnd, Programmed
  <2>2. CarriedAt(1)' = Header
    BY <1>1, <1>4 DEF CarriedAt
  <2>3. \A a \in 0..(NumPages - 1) : /\ ~(a < 0 + 0) /\ (a < 0 + 0 + 1 <=> a = 0)
    BY <1>5
  <2>4. New' = [a \in 0..(NumPages - 1) |-> IF a = 0 THEN Header ELSE Erased]
    BY <2>1, <2>2, <2>3
  <2> QED BY <1>3, <1>5, <2>4, CellFacts DEF Logs
<1>9. Closed(New') /\ LogEnd(New') = 1 /\ Visited(New', 1) = {}
  BY <1>8, HeaderAlone
<1>10. Place' = 1
  BY <1>1 DEF Place
<1>11. ReorgInv'
  <2> SUFFICES ASSUME ~damaged PROVE ReorgInv'
    BY <1>1 DEF ReorgInv
  <2>1. Sound(flash, 1)
    BY DEF StoreInv, IntactInv, Closed
  <2>2. Ahead(flash, 1, New', Len(cells))
    BY <1>2, <1>4, <1>5, <1>9, <2>1 DEF Ahead
  <2>3. NewEnd' = 1 /\ Collecting' /\ CopiedInv'
    BY <1>1, <1>4, <1>5 DEF NewEnd, Collecting, CopiedInv
  <2> QED BY <1>1, <1>9, <1>10, <2>2, <2>3 DEF ReorgInv
<1> QED
  BY <1>6, <1>7, <1>8, <1>9, <1>10, <1>11 DEF StoreInv, Typed

LEMMA AppendStep ==
  ASSUME StoreInv, pc = "idle", UNCHANGED <<medium, losses, damaged>>,
         NEW k \in Keys, NEW v \in Values \cup {Missing}, NEW cells \in Seq(Cells), Whole(cells),
         NEW full \in BOOLEAN, ~full => LogEnd(flash) + Len(cells) <= NumPages,
         AppendEntry(k, v, cells, full)
  PROVE  StoreInv'
<1>1. CASE ~full /\ StartWrite(k, v, cells)
  BY <1>1, WriteStarts
<1>2. CASE Answers(k, v, "nospace")
  <2>1. asked' \in Changes /\ Done("nospace")
    BY <1>2 DEF Answers, Changes
  <2> QED BY <2>1, Stays
<1>3. CASE medium = "flash" /\ ~NoSpaceFor(Len(cells)) /\ StartReorg(k, v, cells)
  BY <1>3, ReorgStarts
<1> QED
  BY <1>1, <1>2, <1>3 DEF AppendEntry

LEMMA SetStep ==
  ASSUME StoreInv, UNCHANGED medium, NEW k \in Keys, NEW v \in Values, SetProperty(k, v)
  PROVE  StoreInv'
<1>1. pc = "idle" /\ UNCHANGED <<medium, losses, damaged>>
  BY DEF SetProperty
<1>2. CASE AlreadyStored(flash, k, v)
  <2>1. asked' \in Changes /\ Done("ok")
    BY <1>2 DEF SetProperty, Answers, Changes
  <2> QED BY <1>1, <2>1, Stays
<1>3. CASE ~AlreadyStored(flash, k, v)
  <2> DEFINE cells == Encode(k, v)
             full == LogEnd(flash) + Len(cells) >= NumPages
  <2>1. AppendEntry(k, v, cells, full)
    BY <1>3 DEF SetProperty
  <2>2. cells \in Seq(Cells) /\ Whole(cells)
    BY EncodeIs
  <2>3. full \in BOOLEAN /\ (~full => LogEnd(flash) + Len(cells) <= NumPages)
    <3>1. LogEnd(flash) \in Nat /\ NumPages \in Nat /\ Len(cells) \in Nat
      BY <2>2, StoreFacts, LogEndIs DEF StoreInv, Typed
    <3> HIDE DEF cells
    <3> QED BY <3>1
  <2> HIDE DEF cells, full
  <2> QED BY <1>1, <2>1, <2>2, <2>3, AppendStep
<1> QED
  BY <1>2, <1>3

LEMMA EraseStep ==
  ASSUME StoreInv, UNCHANGED medium, NEW k \in Keys, EraseProperty(k)
  PROVE  StoreInv'
<1>1. pc = "idle" /\ UNCHANGED <<medium, losses, damaged>>
  BY DEF EraseProperty
<1>2. CASE Get(flash, k) = Missing
  <2>1. asked' \in Changes /\ Done("noent")
    BY <1>2 DEF EraseProperty, Answers, Changes
  <2> QED BY <1>1, <2>1, Stays
<1>3. CASE Get(flash, k) # Missing
  <2> DEFINE cells == <<Deletion(k)>>
             full == LogEnd(flash) + 1 > NumPages
  <2>1. AppendEntry(k, Missing, cells, full)
    BY <1>3 DEF EraseProperty
  <2>2. cells \in Seq(Cells) /\ Whole(cells) /\ Len(cells) = 1
    BY DeletionIs
  <2>3. full \in BOOLEAN /\ (~full => LogEnd(flash) + Len(cells) <= NumPages)
    <3>1. LogEnd(flash) \in Nat /\ NumPages \in Nat
      BY StoreFacts, LogEndIs DEF StoreInv, Typed
    <3> HIDE DEF cells
    <3> QED BY <2>2, <3>1
  <2> HIDE DEF cells, full
  <2>4. Missing \in Values \cup {Missing}
    OBVIOUS
  <2> QED BY <1>1, <2>1, <2>2, <2>3, <2>4, AppendStep
<1> QED
  BY <1>2, <1>3

LEMMA ReorgStep ==
  ASSUME StoreInv, UNCHANGED medium, ReorgProperties
  PROVE  StoreInv'
<1>1. pc = "idle" /\ UNCHANGED <<medium, losses, damaged>>
  BY DEF ReorgProperties
<1>2. NoChange \in Changes
  BY DEF NoChange, Changes
<1>3. CASE (Done("ok") \/ Done("nospace")) /\ asked' = NoChange
  BY <1>1, <1>2, <1>3, Stays
<1>4. CASE medium = "flash" /\ ~NoSpaceFor(0) /\ StartReorg(0, Missing, <<>>)
  <2>1. <<>> \in Seq(Cells) /\ Whole(<<>>) /\ Len(<<>>) = 0
    BY DEF Whole
  <2> QED BY <1>1, <1>4, <2>1, ReorgStarts
<1> QED
  BY <1>3, <1>4 DEF ReorgProperties

LEMMA ReadStep == StoreInv /\ UNCHANGED medium /\ Read => StoreInv'
  BY Stays DEF Read, NoChange, Changes

(***************************************************************************)
(* The steps: reorganising                                                 *)
(***************************************************************************)
LEMMA NewTyped == Typed => New \in Logs
<1> SUFFICES ASSUME Typed PROVE New \in Logs
  OBVIOUS
<1>1. /\ flash \in Logs /\ NumPages \in Nat \ {0} /\ StartOf(row) \in Nat /\ Programmed \in Nat
      /\ copy \in Seq(Cells) /\ Len(copy) \in Nat /\ image \in Seq(Cells) /\ Len(image) \in Nat
  BY StoreFacts DEF Typed, Programmed
<1>2. ASSUME NEW a \in 0..(NumPages - 1), ~(a < StartOf(row) + Programmed), a < NewEnd
      PROVE  CarriedAt(a - StartOf(row) + 1) \in Cells
  <2> DEFINE j == a - StartOf(row) + 1
  <2>1. j \in Nat /\ j >= 1 /\ j <= Len(image) + Len(copy)
    BY <1>1, <1>2 DEF NewEnd
  <2> HIDE DEF j
  <2>2. ASSUME j <= Len(image) PROVE CarriedAt(j) \in Cells
    <3>1. j \in 1..Len(image)
      BY <1>1, <2>1, <2>2
    <3>2. image[j] \in Cells
      BY <1>1, <3>1
    <3> QED BY <2>2, <3>2 DEF CarriedAt
  <2>3. ASSUME ~(j <= Len(image)) PROVE CarriedAt(j) \in Cells
    <3>1. j - Len(image) \in 1..Len(copy)
      BY <1>1, <2>1, <2>3
    <3>2. copy[j - Len(image)] \in Cells
      BY <1>1, <3>1
    <3> QED BY <2>3, <3>2 DEF CarriedAt
  <2> QED BY <2>2, <2>3 DEF j
<1>3. \A a \in 0..(NumPages - 1) : flash[a] \in Cells
  BY <1>1 DEF Logs
<1> QED
  BY <1>2, <1>3, CellFacts DEF New, Logs

LEMMA NextNewTyped == Typed' => (New \in Logs)'
  BY NewTyped, PTL

(* What a step of a reorganisation finds.                                   *)
LEMMA MoveFacts ==
  ASSUME StoreInv, pc \in Reorganising \cup {"erase", "program"}
  PROVE  /\ TypeOK /\ flash \in Logs /\ New \in Logs /\ medium = "flash"
         /\ RowPages \in Nat \ {0} /\ NumPages \in Nat \ {0} /\ Rows \in Nat
         /\ p \in Nat /\ row \in Nat /\ off \in Nat /\ StartOf(row) \in Nat
         /\ StartOf(row + 1) = StartOf(row) + RowPages
         /\ copy \in Seq(Cells) /\ Len(copy) \in Nat /\ Len(copy) <= RowPages
         /\ image \in Seq(Cells) /\ Len(image) \in Nat /\ Len(image) <= RowPages
         /\ todo \in Seq(Cells) /\ Len(todo) \in Nat
         /\ LogEnd(New) \in Nat /\ LogEnd(New) >= 1
         /\ pc \in Reorganising => image = <<>> /\ Len(image) = 0
<1>1. TypeOK /\ New \in Logs
  BY NewTyped DEF StoreInv, Typed
<1>2. medium = "flash"
  BY <1>1 DEF StoreInv, Typed, MediumInv, TypeOK, Reorganising
<1>3. pc \in Reorganising => image = <<>>
  BY DEF StoreInv, Typed, RowInv, Reorganising
<1>4. LogEnd(New) \in Nat /\ LogEnd(New) >= 1
  BY <1>1, LogEndIs
<1> QED
  BY <1>1, <1>2, <1>3, <1>4, StoreFacts

(* The last entry ends where the log does.                                  *)
LEMMA LastEntry ==
  ASSUME NEW log \in Logs, Visited(log, 1) # {}
  PROVE  LET last == Max(Visited(log, 1))
         IN  /\ last \in Visited(log, 1) /\ last \in Nat /\ last < NumPages /\ log[last] \in Cells
             /\ ~IsEnd(log[last]) /\ Behind(log, last) = LogEnd(log)
<1> DEFINE last == Max(Visited(log, 1))
<1>1. /\ Visited(log, 1) \in SUBSET Nat /\ NumPages \in Nat
      /\ \A j \in Visited(log, 1) : j <= NumPages
  BY VisitedIs, LogAssumption
<1>2. last \in Visited(log, 1) /\ \A j \in Visited(log, 1) : j <= last
  BY <1>1, MaxIs
<1> HIDE DEF last
<1>3. /\ last \in Nat /\ last >= 1 /\ last < NumPages /\ log[last] \in Cells /\ ~AtEnd(log, last)
      /\ last \in Walk(log, 1)
  BY <1>2, VisitedIs DEF Visited
<1>4. Behind(log, last) \in Nat /\ Behind(log, last) > last
  BY <1>3, BehindIs
<1>5. Behind(log, last) \in Walk(log, 1)
  <2>1. Walk(log, last) = {j \in Walk(log, 1) : j >= last}
    BY <1>3, WalkOn
  <2>2. Behind(log, last) \in Walk(log, Behind(log, last))
    BY <1>4, EndIs DEF EndsAt
  <2>3. Walk(log, last) = {last} \cup Walk(log, Behind(log, last))
    BY <1>3, WalkIs
  <2> QED BY <2>1, <2>2, <2>3
<1>6. AtEnd(log, Behind(log, last))
  <2>1. Behind(log, last) \in Visited(log, 1) => Behind(log, last) <= last
    BY <1>2
  <2>2. ~(Behind(log, last) <= last)
    BY <1>3, <1>4
  <2> QED BY <1>5, <2>1, <2>2 DEF Visited
<1>7. Behind(log, last) = LogEnd(log)
  BY <1>5, <1>6, EndUnique DEF LogEnd, EndOf
<1>8. ~IsEnd(log[last])
  BY <1>3 DEF AtEnd
<1> QED
  BY <1>2, <1>3, <1>7, <1>8 DEF last

(* What lies ahead is what it was ...                                       *)
LEMMA AheadSame ==
  ASSUME NEW l1 \in Logs, NEW l2 \in Logs, NEW i \in Nat, NEW new, NEW k, Ahead(l1, i, new, k),
         \A j \in Nat : i <= j /\ j < NumPages => l1[j] = l2[j]
  PROVE  Ahead(l2, i, new, k)
<1>1. Sound(l2, i)
  BY SoundSame DEF Ahead
<1>2. LiveFrom(l1, i) = LiveFrom(l2, i)
  BY LiveSame
<1> QED
  BY <1>1, <1>2 DEF Ahead

(* ... or less by an entry.                                                 *)
LEMMA AheadBehind ==
  ASSUME NEW log \in Logs, NEW i \in Nat, ~AtEnd(log, i), NEW k \in Nat,
         NEW new \in Logs, Ahead(log, i, new, k)
  PROVE  /\ EntryPages(log[i]) \in Nat \ {0} /\ Behind(log, i) <= NumPages /\ Inside(log, i)
         /\ ~IsLatest(log, i) => Ahead(log, Behind(log, i), new, k)
         /\ IsLatest(log, i) =>
              /\ LogEnd(new) + EntryPages(log[i]) <= NumPages
              /\ \A more \in Logs : LogEnd(more) = LogEnd(new) + EntryPages(log[i])
                                      => Ahead(log, Behind(log, i), more, k)
<1>1. /\ i < NumPages /\ log[i] \in Cells /\ Behind(log, i) \in Nat /\ Behind(log, i) > i
      /\ EntryPages(log[i]) \in Nat \ {0} /\ Behind(log, i) = i + EntryPages(log[i])
  BY BehindIs, EntryPagesIs DEF Behind
<1>2. Inside(log, i) /\ Behind(log, i) <= NumPages /\ Sound(log, Behind(log, i))
  BY SoundBehind DEF Ahead
<1>3. /\ LiveFrom(log, Behind(log, i)) \in Nat
      /\ LiveFrom(log, i) = LiveFrom(log, Behind(log, i))
                              + IF IsLatest(log, i) THEN EntryPages(log[i]) ELSE 0
  BY <1>1, LiveFromIs
<1>4. LogEnd(new) \in Nat /\ NumPages \in Nat
  BY LogEndIs, LogAssumption
<1> DEFINE b == Behind(log, i)
<1>5. LogEnd(new) <= i /\ LogEnd(new) + LiveFrom(log, i) + k < NumPages
  BY DEF Ahead
<1> HIDE DEF b
<1>6. ~IsLatest(log, i) => Ahead(log, Behind(log, i), new, k)
  BY <1>1, <1>2, <1>3, <1>4, <1>5 DEF Ahead
<1>7. IsLatest(log, i) =>
        /\ LogEnd(new) + EntryPages(log[i]) <= NumPages
        /\ \A more \in Logs : LogEnd(more) = LogEnd(new) + EntryPages(log[i])
                                => Ahead(log, Behind(log, i), more, k)
  BY <1>1, <1>2, <1>3, <1>4, <1>5 DEF Ahead
<1> QED
  BY <1>1, <1>2, <1>6, <1>7

(* A scan of an intact store.                                               *)
LEMMA ScanFinds ==
  ASSUME StoreInv, ~damaged, pc = "scan"
  PROVE  /\ Moving /\ Collecting /\ Place = p /\ Len(image) = 0
         /\ Whole(todo) /\ Closed(New) /\ LogEnd(New) = StartOf(row) + Len(copy)
         /\ Ahead(flash, p, New, Len(todo))
<1>1. Moving /\ Collecting /\ Place = p
  BY DEF Moving, Collecting, Place, Reorganising
<1>2. Len(image) = 0 /\ StartOf(row) \in Nat
  BY MoveFacts DEF Reorganising
<1>3. LogEnd(New) = StartOf(row) + Len(copy)
  BY <1>1, <1>2 DEF StoreInv, ReorgInv, NewEnd
<1> QED
  BY <1>1, <1>2, <1>3 DEF StoreInv, ReorgInv

LEMMA SkipStep ==
  StoreInv /\ UNCHANGED medium /\ Skip => StoreInv' /\ (~damaged => New' = New /\ Place' = Behind(flash, p))
<1> SUFFICES ASSUME StoreInv, UNCHANGED medium, Skip
             PROVE  StoreInv' /\ (~damaged => New' = New /\ Place' = Behind(flash, p))
  OBVIOUS
<1>1. /\ pc = "scan" /\ ~AtEnd(flash, p) /\ ~IsLatest(flash, p) /\ p' = Behind(flash, p)
      /\ UNCHANGED <<medium, flash, pc, op, todo, at, copy, image, row, off, ret, res, asked, losses, damaged>>
  BY DEF Skip, Scanning, writing, rowing, history, Behind
<1>2. TypeOK /\ flash \in Logs /\ New \in Logs /\ p \in Nat /\ Len(todo) \in Nat /\ image = <<>>
  BY <1>1, MoveFacts DEF Reorganising
<1>3. Behind(flash, p) \in Nat
  BY <1>1, <1>2, BehindIs
<1>4. TypeOK'
  BY <1>1, <1>2, <1>3 DEF TypeOK
<1>5. MediumInv' /\ RowInv' /\ IntactInv'
  BY <1>1, <1>2 DEF StoreInv, Typed, MediumInv, RowInv, IntactInv
<1>6. New' = New /\ NewEnd' = NewEnd
  BY <1>1 DEF New, NewEnd, Programmed, CarriedAt
<1>7. Place' = Behind(flash, p)
  BY <1>1 DEF Place
<1>8. ReorgInv'
  <2> SUFFICES ASSUME ~damaged PROVE ReorgInv'
    BY <1>1 DEF ReorgInv
  <2>1. /\ Collecting /\ Whole(todo) /\ Closed(New) /\ LogEnd(New) = NewEnd
        /\ Ahead(flash, p, New, Len(todo))
    BY <1>1, ScanFinds DEF StoreInv, ReorgInv
  <2>2. Ahead(flash, Behind(flash, p), New, Len(todo))
    BY <1>1, <1>2, <2>1, AheadBehind
  <2>3. Collecting' /\ CopiedInv'
    BY <1>1 DEF Collecting, CopiedInv
  <2> QED BY <1>1, <1>6, <1>7, <2>1, <2>2, <2>3 DEF ReorgInv
<1> QED
  BY <1>4, <1>5, <1>6, <1>7, <1>8 DEF StoreInv, Typed

(* The entry reached, with its pages, behind the others.                    *)
LEMMA CollectedIs ==
  ASSUME StoreInv, Scanning
  PROVE  LET n == EntryPages(flash[p])
         IN  /\ n \in Nat \ {0} /\ n <= RowPages
             /\ Collected \in Seq(Cells) /\ Len(Collected) = Len(copy) + n
             /\ \A i \in 1..Len(copy) : Collected[i] = copy[i]
             /\ \A i \in 1..n : Collected[Len(copy) + i] = CellAt(p + i - 1)
<1> DEFINE n == EntryPages(flash[p])
           cells == [i \in 1..n |-> CellAt(p + i - 1)]
<1>1. /\ flash \in Logs /\ p \in Nat /\ NumPages \in Nat /\ copy \in Seq(Cells) /\ Len(copy) \in Nat
      /\ RowPages \in Nat \ {0} /\ ~AtEnd(flash, p)
  BY MoveFacts DEF Scanning, Reorganising
<1>2. flash[p] \in Cells
  BY <1>1, BehindIs
<1>3. n \in Nat \ {0} /\ n <= RowPages
  <2>1. flash[p].kind = "entry" => flash[p].val \in Values
    BY <1>2 DEF Cells, Erased, Header, Entry, Deletion, Data
  <2>2. flash[p].kind = "entry" => n <= RowPages
    BY <2>1, RowAssumption DEF EntryPages
  <2>3. flash[p].kind # "entry" => n = 1
    BY DEF EntryPages
  <2>4. n \in Nat \ {0}
    BY <1>2, EntryPagesIs
  <2> HIDE DEF n
  <2> QED BY <1>1, <2>2, <2>3, <2>4
<1> HIDE DEF n
<1>4. \A i \in 1..n : CellAt(p + i - 1) \in Cells
  <2> SUFFICES ASSUME NEW i \in 1..n PROVE CellAt(p + i - 1) \in Cells
    OBVIOUS
  <2>1. p + i - 1 < NumPages => p + i - 1 \in 0..(NumPages - 1)
    BY <1>1, <1>3
  <2> QED BY <1>1, <2>1, CellFacts DEF CellAt, Logs
<1>5. cells \in Seq(Cells) /\ Len(cells) = n /\ \A i \in 1..n : cells[i] = CellAt(p + i - 1)
  BY <1>3, <1>4
<1> HIDE DEF cells
<1>6. Collected = copy \o cells
  BY DEF Collected, cells, n
<1>7. \A s \in Seq(Cells), t \in Seq(Cells) :
        /\ s \o t \in Seq(Cells) /\ Len(s \o t) = Len(s) + Len(t)
        /\ \A i \in 1..Len(s) : (s \o t)[i] = s[i]
        /\ \A i \in 1..Len(t) : (s \o t)[Len(s) + i] = t[i]
  OBVIOUS
<1>8. /\ Collected \in Seq(Cells) /\ Len(Collected) = Len(copy) + Len(cells)
      /\ \A i \in 1..Len(copy) : Collected[i] = copy[i]
      /\ \A i \in 1..Len(cells) : Collected[Len(copy) + i] = cells[i]
  BY <1>1, <1>5, <1>6, <1>7, Zenon
<1> QED
  BY <1>3, <1>5, <1>8 DEF n

(* The log about to be left once the entry reached is carried along.        *)
Carries(new) ==
  \A a \in 0..(NumPages - 1) :
    new[a] = IF a < StartOf(row) THEN flash[a]
             ELSE IF a < StartOf(row) + Len(Collected) THEN Collected[a - StartOf(row) + 1]
             ELSE Erased

LEMMA ScanNew ==
  ASSUME StoreInv, pc = "scan"
  PROVE  \A a \in 0..(NumPages - 1) :
           New[a] = IF a < StartOf(row) THEN flash[a]
                    ELSE IF a < StartOf(row) + Len(copy) THEN copy[a - StartOf(row) + 1]
                    ELSE Erased
<1>1. /\ Len(image) = 0 /\ StartOf(row) \in Nat /\ Len(copy) \in Nat /\ NumPages \in Nat
      /\ Programmed = 0
  BY MoveFacts DEF Reorganising, Programmed
<1>2. NewEnd = StartOf(row) + Len(copy) /\ StartOf(row) + Programmed = StartOf(row)
  BY <1>1 DEF NewEnd
<1> SUFFICES ASSUME NEW a \in 0..(NumPages - 1)
             PROVE  New[a] = IF a < StartOf(row) THEN flash[a]
                             ELSE IF a < StartOf(row) + Len(copy) THEN copy[a - StartOf(row) + 1]
                             ELSE Erased
  OBVIOUS
<1>3. New[a] = IF a < StartOf(row) THEN flash[a]
               ELSE IF a < StartOf(row) + Len(copy) THEN CarriedAt(a - StartOf(row) + 1)
               ELSE Erased
  BY <1>2 DEF New
<1>4. ASSUME ~(a < StartOf(row)) PROVE CarriedAt(a - StartOf(row) + 1) = copy[a - StartOf(row) + 1]
  <2>1. a - StartOf(row) + 1 > 0 /\ a - StartOf(row) + 1 - 0 = a - StartOf(row) + 1
    BY <1>1, <1>4
  <2> QED BY <1>1, <2>1 DEF CarriedAt
<1> QED
  BY <1>3, <1>4

LEMMA CollectedNew ==
  ASSUME StoreInv, ~damaged, Scanning, IsLatest(flash, p), NEW new \in Logs, Carries(new)
  PROVE  LET e == LogEnd(New)
             n == EntryPages(flash[p])
         IN  /\ n \in Nat \ {0} /\ Behind(flash, p) <= NumPages /\ e \in Nat /\ e >= 1 /\ e + n <= NumPages
             /\ e = StartOf(row) + Len(copy) /\ Len(Collected) = Len(copy) + n
             /\ \A d \in 0..(n - 1) : new[e + d] = flash[p + d]
             /\ Extends(new, New, e, n)
             /\ Closed(new) /\ LogEnd(new) = e + n
             /\ Visited(new, 1) = Visited(New, 1) \cup {e} /\ Max(Visited(new, 1)) = e
             /\ Ahead(flash, Behind(flash, p), new, Len(todo))
<1> DEFINE e == LogEnd(New)
           n == EntryPages(flash[p])
<1>1. /\ flash \in Logs /\ New \in Logs /\ p \in Nat /\ NumPages \in Nat \ {0}
      /\ StartOf(row) \in Nat /\ Len(copy) \in Nat /\ Len(todo) \in Nat /\ pc = "scan"
      /\ ~AtEnd(flash, p)
  BY MoveFacts DEF Scanning, Reorganising
<1>2. Closed(New) /\ e = StartOf(row) + Len(copy) /\ Ahead(flash, p, New, Len(todo))
  BY <1>1, ScanFinds
<1>3. /\ n \in Nat \ {0} /\ Behind(flash, p) <= NumPages /\ Inside(flash, p) /\ e + n <= NumPages
      /\ \A more \in Logs : LogEnd(more) = e + n => Ahead(flash, Behind(flash, p), more, Len(todo))
      /\ p + n = Behind(flash, p) /\ ~IsEnd(flash[p]) /\ p < NumPages
  BY <1>1, <1>2, AheadBehind, BehindIs DEF Behind, AtEnd
<1>4. e \in Nat /\ e >= 1
  BY <1>1, LogEndIs
<1>5. /\ Len(Collected) = Len(copy) + n
      /\ \A i \in 1..Len(copy) : Collected[i] = copy[i]
      /\ \A i \in 1..n : Collected[Len(copy) + i] = CellAt(p + i - 1)
  BY CollectedIs
<1> HIDE DEF e, n
<1>6. \A d \in 0..(n - 1) : new[e + d] = flash[p + d]
  <2> SUFFICES ASSUME NEW d \in 0..(n - 1) PROVE new[e + d] = flash[p + d]
    OBVIOUS
  <2>0. n \in Nat /\ d \in Nat /\ d < n
    BY <1>3
  <2> DEFINE m == StartOf(row)
             c == Len(copy)
             l == Len(Collected)
  <2>a. m \in Nat /\ c \in Nat /\ e = m + c /\ l = c + n
    BY <1>1, <1>2, <1>5
  <2> HIDE DEF m, c, l
  <2>b. /\ e + d \in 0..(NumPages - 1) /\ ~(e + d < m) /\ e + d < m + l
        /\ (e + d) - m + 1 = c + (d + 1) /\ d + 1 \in 1..n
    BY <1>1, <1>3, <1>4, <2>0, <2>a
  <2>c. p + (d + 1) - 1 = p + d /\ p + d < NumPages
    BY <1>1, <1>3, <2>0
  <2>1. /\ e + d \in 0..(NumPages - 1) /\ ~(e + d < StartOf(row))
        /\ e + d < StartOf(row) + Len(Collected)
        /\ (e + d) - StartOf(row) + 1 = Len(copy) + (d + 1) /\ d + 1 \in 1..n
        /\ p + (d + 1) - 1 = p + d /\ p + d < NumPages
    BY <2>b, <2>c DEF m, c, l
  <2>2. new[e + d] = Collected[Len(copy) + (d + 1)]
    <3> DEFINE b == e + d
    <3> HIDE DEF b
    <3>1. new[b] = Collected[b - StartOf(row) + 1]
      BY <2>1 DEF Carries, b
    <3>2. b - StartOf(row) + 1 = Len(copy) + (d + 1)
      BY <2>1, Zenon DEF b
    <3> QED BY <3>1, <3>2 DEF b
  <2>3. Collected[Len(copy) + (d + 1)] = CellAt(p + d)
    BY <1>5, <2>1
  <2> QED BY <2>1, <2>2, <2>3 DEF CellAt
<1>7. \A a \in 0..(NumPages - 1) : a < e => new[a] = New[a]
  <2> SUFFICES ASSUME NEW a \in 0..(NumPages - 1), a < e PROVE new[a] = New[a]
    OBVIOUS
  <2>1. CASE a < StartOf(row)
    BY <1>1, <2>1, ScanNew DEF Carries
  <2>2. CASE ~(a < StartOf(row))
    <3>1. /\ a - StartOf(row) + 1 \in 1..Len(copy) /\ a < StartOf(row) + Len(Collected)
          /\ a < StartOf(row) + Len(copy)
      BY <1>1, <1>2, <1>3, <1>5, <2>2
    <3> QED BY <1>1, <1>5, <2>2, <3>1, ScanNew DEF Carries
  <2> QED BY <2>1, <2>2
<1>8. Extends(new, New, e, n)
  <2>1. ASSUME NEW a \in 0..(NumPages - 1), e < a, a < e + n PROVE IsEnd(new[a])
    <3>1. a - e \in 0..(n - 1) /\ e + (a - e) = a /\ p < p + (a - e) /\ p + (a - e) < Behind(flash, p)
          /\ p + (a - e) \in Nat
      BY <1>1, <1>3, <1>4, <2>1
    <3>2. new[a] = flash[p + (a - e)]
      BY <1>6, <3>1
    <3> QED BY <1>3, <3>1, <3>2 DEF Inside
  <2>2. ASSUME NEW a \in 0..(NumPages - 1), a >= e + n PROVE new[a] = Erased
    <3>1. ~(a < StartOf(row)) /\ ~(a < StartOf(row) + Len(Collected))
      BY <1>1, <1>2, <1>3, <1>5, <2>2
    <3> QED BY <3>1 DEF Carries
  <2>3. new[e] = flash[p]
    <3>1. 0 \in 0..(n - 1) /\ e + 0 = e /\ p + 0 = p
      BY <1>1, <1>3, <1>4
    <3> QED BY <1>6, <3>1
  <2>4. ~IsEnd(new[e]) /\ EntryPages(new[e]) = n
    BY <1>3, <2>3 DEF n
  <2> QED BY <1>7, <2>1, <2>2, <2>4 DEF Extends
<1>9. /\ LogEnd(new) = e + n /\ ErasedFrom(new, e + n) /\ Sound(new, 1)
      /\ Visited(new, 1) = Visited(New, 1) \cup {e}
      /\ \A j \in Visited(New, 1) : j < e
  <2>1. Sound(New, 1) /\ ErasedFrom(New, e)
    BY <1>2 DEF Closed, e
  <2> QED BY <1>1, <1>3, <1>4, <1>8, <2>1, EntryAppended DEF e
<1>10. new[0] = Header
  <2>1. New[0] = Header /\ 0 \in 0..(NumPages - 1) /\ 0 < e
    BY <1>1, <1>2, <1>4 DEF Closed
  <2> QED BY <1>7, <2>1
<1>11. Max(Visited(new, 1)) = e
  <2>1. Visited(new, 1) \in SUBSET Nat /\ \A j \in Visited(new, 1) : j <= e
    BY <1>1, <1>4, <1>9, VisitedIs
  <2>2. /\ Max(Visited(new, 1)) \in Visited(new, 1)
        /\ \A j \in Visited(new, 1) : j <= Max(Visited(new, 1))
    BY <1>4, <1>9, <2>1, MaxIs
  <2>3. e \in Visited(new, 1)
    BY <1>9
  <2> HIDE DEF e
  <2> QED BY <1>4, <2>1, <2>2, <2>3
<1>12. Closed(new) /\ Ahead(flash, Behind(flash, p), new, Len(todo))
  BY <1>3, <1>9, <1>10 DEF Closed
<1> QED
  BY <1>2, <1>3, <1>4, <1>5, <1>6, <1>8, <1>9, <1>11, <1>12 DEF e, n

LEMMA CollectStep ==
  StoreInv /\ UNCHANGED medium /\ Collect =>
    StoreInv' /\ New' \in Logs /\ Carries(New') /\ Place' = Behind(flash, p)
<1> SUFFICES ASSUME StoreInv, UNCHANGED medium, Collect
             PROVE  StoreInv' /\ New' \in Logs /\ Carries(New') /\ Place' = Behind(flash, p)
  OBVIOUS
<1>1. /\ Scanning /\ pc = "scan" /\ ~AtEnd(flash, p) /\ IsLatest(flash, p) /\ p' = Behind(flash, p)
      /\ copy' = Collected /\ Len(Collected) < RowPages
      /\ UNCHANGED <<medium, flash, pc, op, todo, at, image, row, off, ret, res, asked, losses, damaged>>
  BY DEF Collect, Scanning, writing, rowing, history, Behind
<1>2. /\ TypeOK /\ flash \in Logs /\ New \in Logs /\ p \in Nat /\ Len(todo) \in Nat /\ image = <<>>
      /\ StartOf(row) \in Nat /\ RowPages \in Nat /\ NumPages \in Nat
  BY <1>1, MoveFacts DEF Reorganising
<1>3. Behind(flash, p) \in Nat
  BY <1>1, <1>2, BehindIs
<1>4. Collected \in Seq(Cells) /\ Len(Collected) \in Nat
  BY <1>1, CollectedIs
<1> HIDE DEF Collected
<1>5. TypeOK'
  BY <1>1, <1>2, <1>3, <1>4 DEF TypeOK
<1>6. MediumInv' /\ RowInv' /\ IntactInv'
  BY <1>1, <1>2 DEF StoreInv, Typed, MediumInv, RowInv, IntactInv
<1>7. New' \in Logs
  BY <1>5, <1>6, NextNewTyped DEF Typed
<1>8. Carries(New')
  <2>1. /\ Programmed' = 0 /\ NewEnd' = StartOf(row) + Len(Collected) /\ StartOf(row)' = StartOf(row)
    BY <1>1, <1>2, <1>4 DEF Programmed, NewEnd, StartOf
  <2> SUFFICES ASSUME NEW a \in 0..(NumPages - 1)
               PROVE  New'[a] = IF a < StartOf(row) THEN flash[a]
                                ELSE IF a < StartOf(row) + Len(Collected)
                                THEN Collected[a - StartOf(row) + 1] ELSE Erased
    BY DEF Carries
  <2>2. New'[a] = IF a < StartOf(row) THEN flash[a]
                  ELSE IF a < StartOf(row) + Len(Collected) THEN CarriedAt(a - StartOf(row) + 1)'
                  ELSE Erased
    BY <1>1, <1>2, <2>1 DEF New, StartOf
  <2>3. ASSUME ~(a < StartOf(row))
        PROVE  CarriedAt(a - StartOf(row) + 1)' = Collected[a - StartOf(row) + 1]
    <3> DEFINE j == a - StartOf(row) + 1
    <3>1. j \in Int /\ j > 0 /\ j - 0 = j /\ Len(image) = 0 /\ j' = j
      BY <1>1, <1>2, <2>1, <2>3
    <3> HIDE DEF j
    <3>2. CarriedAt(j)' = Collected[j]
      BY <1>1, <3>1 DEF CarriedAt
    <3> QED BY <3>2 DEF j
  <2> QED BY <2>2, <2>3
<1>9. Place' = Behind(flash, p)
  BY <1>1 DEF Place
<1>10. ReorgInv'
  <2> SUFFICES ASSUME ~damaged PROVE ReorgInv'
    BY <1>1 DEF ReorgInv
  <2>1. /\ Closed(New') /\ LogEnd(New') = StartOf(row) + Len(copy) + EntryPages(flash[p])
        /\ Len(Collected) = Len(copy) + EntryPages(flash[p]) /\ EntryPages(flash[p]) \in Nat
        /\ Ahead(flash, Behind(flash, p), New', Len(todo))
    BY <1>1, <1>7, <1>8, CollectedNew
  <2>2. NewEnd' = LogEnd(New')
    <3>1. NewEnd' = StartOf(row) + 0 + Len(Collected) /\ Len(copy) \in Nat
      BY <1>1, <1>2, MoveFacts DEF NewEnd, StartOf, Reorganising
    <3> QED BY <1>2, <1>4, <2>1, <3>1
  <2>3. Collecting' /\ CopiedInv' /\ Whole(todo)
    BY <1>1, ScanFinds DEF Collecting, CopiedInv
  <2> QED BY <1>1, <1>9, <2>1, <2>2, <2>3 DEF ReorgInv
<1> QED
  BY <1>5, <1>6, <1>7, <1>8, <1>9, <1>10 DEF StoreInv, Typed

LEMMA SplitIs ==
  ASSUME NEW c \in Seq(Cells), NEW n \in Nat, n <= Len(c)
  PROVE  /\ SubSeq(c, 1, n) \in Seq(Cells) /\ Len(SubSeq(c, 1, n)) = n
         /\ \A i \in 1..n : SubSeq(c, 1, n)[i] = c[i]
         /\ SubSeq(c, n + 1, Len(c)) \in Seq(Cells) /\ Len(SubSeq(c, n + 1, Len(c))) = Len(c) - n
         /\ \A i \in 1..(Len(c) - n) : SubSeq(c, n + 1, Len(c))[i] = c[n + i]
OBVIOUS

LEMMA CollectRowStep ==
  StoreInv /\ UNCHANGED medium /\ CollectRow =>
    /\ StoreInv'
    /\ ~damaged => New' \in Logs /\ Carries(New') /\ Place' = Behind(flash, p)
<1> SUFFICES ASSUME StoreInv, UNCHANGED medium, CollectRow
             PROVE  /\ StoreInv'
                    /\ ~damaged => New' \in Logs /\ Carries(New') /\ Place' = Behind(flash, p)
  OBVIOUS
<1> DEFINE full == SubSeq(Collected, 1, RowPages)
           more == SubSeq(Collected, RowPages + 1, Len(Collected))
<1>1. /\ Scanning /\ pc = "scan" /\ ~AtEnd(flash, p) /\ IsLatest(flash, p) /\ Len(Collected) >= RowPages
      /\ image' = full /\ copy' = more /\ pc' = "erase" /\ ret' = "advance"
      /\ UNCHANGED <<medium, flash, p, op, todo, at, row, off, res, asked, losses, damaged>>
  BY DEF CollectRow, Scanning, writing, history
<1>2. /\ TypeOK /\ flash \in Logs /\ New \in Logs /\ p \in Nat /\ Len(todo) \in Nat /\ medium = "flash"
      /\ StartOf(row) \in Nat /\ RowPages \in Nat \ {0} /\ NumPages \in Nat
      /\ Len(copy) \in Nat /\ Len(copy) <= RowPages
  BY <1>1, MoveFacts DEF Reorganising
<1>3. p < NumPages /\ ~IsEnd(flash[p])
  BY <1>1, <1>2, BehindIs DEF AtEnd
<1>4. /\ Collected \in Seq(Cells) /\ Len(Collected) \in Nat /\ Len(Collected) <= RowPages + RowPages
  <2>1. /\ Collected \in Seq(Cells) /\ Len(Collected) = Len(copy) + EntryPages(flash[p])
        /\ EntryPages(flash[p]) \in Nat /\ EntryPages(flash[p]) <= RowPages
    BY <1>1, CollectedIs
  <2> HIDE DEF Collected
  <2> QED BY <1>2, <2>1
<1>5. /\ full \in Seq(Cells) /\ Len(full) = RowPages /\ \A i \in 1..RowPages : full[i] = Collected[i]
      /\ more \in Seq(Cells) /\ Len(more) = Len(Collected) - RowPages
      /\ \A i \in 1..(Len(Collected) - RowPages) : more[i] = Collected[RowPages + i]
  <2> HIDE DEF Collected
  <2> QED BY <1>1, <1>2, <1>4, SplitIs
<1> HIDE DEF Collected, full, more
<1>6. full # <<>> /\ Len(more) \in Nat /\ Len(more) <= RowPages
  BY <1>1, <1>2, <1>4, <1>5
<1>7. TypeOK'
  <2>1. /\ medium' \in {"flash", "otp"} /\ flash' \in [0..(NumPages - 1) -> Cells]
        /\ op' \in [key : Keys \cup {0}, val : Values \cup {Missing}]
        /\ todo' \in Seq(Cells) /\ at' \in Nat /\ p' \in Nat /\ row' \in Nat /\ off' \in 0..RowPages
        /\ res' \in {"none", "ok", "nospace", "noent"}
        /\ asked' \in [key : Keys \cup {0}, val : Values \cup {Missing}]
        /\ losses' \in 0..MaxPowerLosses /\ damaged' \in BOOLEAN
    BY <1>1, <1>2 DEF TypeOK
  <2>2. /\ image' \in Seq(Cells) /\ Len(image') <= RowPages /\ copy' \in Seq(Cells)
        /\ Len(copy') <= RowPages
    BY <1>1, <1>2, <1>5, <1>6
  <2> QED BY <1>1, <2>1, <2>2 DEF TypeOK
<1>8. MediumInv' /\ RowInv' /\ IntactInv'
  BY <1>1, <1>2, <1>3, <1>6 DEF MediumInv, RowInv, IntactInv
<1>9. New' \in Logs
  BY <1>7, <1>8, NextNewTyped DEF Typed
<1>10. NewEnd' = StartOf(row) + Len(Collected)
  <2>1. NewEnd' = StartOf(row) + Len(full) + Len(more)
    BY <1>1 DEF NewEnd, StartOf
  <2> QED BY <1>1, <1>2, <1>4, <1>5, <2>1
<1>11. Carries(New')
  <2>1. Programmed' = 0 /\ StartOf(row)' = StartOf(row) /\ StartOf(row) + 0 = StartOf(row)
    BY <1>1, <1>2 DEF Programmed, StartOf
  <2> SUFFICES ASSUME NEW a \in 0..(NumPages - 1)
               PROVE  New'[a] = IF a < StartOf(row) THEN flash[a]
                                ELSE IF a < StartOf(row) + Len(Collected)
                                THEN Collected[a - StartOf(row) + 1] ELSE Erased
    BY DEF Carries
  <2>2. New'[a] = IF a < StartOf(row) THEN flash[a]
                  ELSE IF a < StartOf(row) + Len(Collected) THEN CarriedAt(a - StartOf(row) + 1)'
                  ELSE Erased
    BY <1>1, <1>2, <1>10, <2>1 DEF New, StartOf
  <2>3. ASSUME ~(a < StartOf(row)), a < StartOf(row) + Len(Collected)
        PROVE  CarriedAt(a - StartOf(row) + 1)' = Collected[a - StartOf(row) + 1]
    <3> DEFINE j == a - StartOf(row) + 1
    <3>1. j \in Nat /\ j > 0 /\ j <= Len(Collected) /\ j' = j
      BY <1>1, <1>2, <1>4, <2>1, <2>3
    <3> HIDE DEF j
    <3>2. CarriedAt(j)' = IF j <= RowPages THEN full[j] ELSE more[j - RowPages]
      BY <1>1, <1>5, <3>1 DEF CarriedAt
    <3>3. j <= RowPages => full[j] = Collected[j]
      BY <1>2, <1>5, <3>1
    <3>4. ~(j <= RowPages) => more[j - RowPages] = Collected[j]
      <4>1. ~(j <= RowPages) =>
              j - RowPages \in 1..(Len(Collected) - RowPages) /\ RowPages + (j - RowPages) = j
        BY <1>2, <1>4, <3>1
      <4> QED BY <1>5, <4>1
    <3> QED BY <3>2, <3>3, <3>4 DEF j
  <2> QED BY <2>2, <2>3
<1>12. ASSUME ~damaged
       PROVE  ReorgInv' /\ Place' = Behind(flash, p)
  <2> DEFINE e == LogEnd(New)
             n == EntryPages(flash[p])
  <2>1. /\ n \in Nat \ {0} /\ e \in Nat /\ e + n <= NumPages
        /\ e = StartOf(row) + Len(copy) /\ Len(Collected) = Len(copy) + n
        /\ Closed(New') /\ LogEnd(New') = e + n /\ Max(Visited(New', 1)) = e /\ e \in Visited(New', 1)
        /\ Ahead(flash, Behind(flash, p), New', Len(todo))
        /\ \A d \in 0..(n - 1) : New'[e + d] = flash[p + d]
    BY <1>1, <1>9, <1>11, <1>12, CollectedNew
  <2> HIDE DEF e, n
  <2>2. New'[e] = flash[p]
    <3>1. 0 \in 0..(n - 1) /\ e + 0 = e /\ p + 0 = p
      BY <1>2, <2>1
    <3> QED BY <2>1, <3>1
  <2>3. Place' = Behind(flash, p)
    <3>1. Last' = e
      BY <2>1 DEF Last
    <3> QED BY <1>1, <2>2, <3>1 DEF Place, Behind
  <2>4. NewEnd' = LogEnd(New')
    BY <1>2, <1>10, <2>1
  <2>5. CopiedInv'
    <3>1. Behind(flash, p)' = Behind(flash, p)
      BY <1>1 DEF Behind
    <3> QED BY <1>1, <1>3, <2>1, <2>3, <3>1 DEF CopiedInv
  <2>6. Collecting' /\ Whole(todo) /\ Len(image') = RowPages
    BY <1>1, <1>5, <1>12, ScanFinds DEF Collecting
  <2>7. Ahead(flash, Place, New, Len(todo))'
    BY <1>1, <2>1, <2>3
  <2>8. ReorgInv'
    BY <1>1, <2>1, <2>4, <2>5, <2>6, <2>7 DEF ReorgInv
  <2> QED BY <2>3, <2>8
<1>13. damaged => ReorgInv'
  BY <1>1 DEF ReorgInv
<1> QED
  BY <1>7, <1>8, <1>9, <1>11, <1>12, <1>13 DEF StoreInv, Typed

LEMMA ScanEndsStep ==
  StoreInv /\ UNCHANGED medium /\ ScanEnds => StoreInv' /\ New' = New
<1> SUFFICES ASSUME StoreInv, UNCHANGED medium, ScanEnds PROVE StoreInv' /\ New' = New
  OBVIOUS
<1>1. /\ pc = "scan" /\ AtEnd(flash, p) /\ image' = copy /\ copy' = <<>> /\ ret' = "clear"
      /\ pc' = (IF copy = <<>> THEN "clear" ELSE "erase")
      /\ UNCHANGED <<medium, flash, p, op, todo, at, row, off, res, asked, losses, damaged>>
  BY DEF ScanEnds, writing, history
<1>2. /\ TypeOK /\ flash \in Logs /\ New \in Logs /\ p \in Nat /\ Len(todo) \in Nat /\ medium = "flash"
      /\ StartOf(row) \in Nat /\ RowPages \in Nat \ {0} /\ NumPages \in Nat
      /\ copy \in Seq(Cells) /\ Len(copy) \in Nat /\ Len(copy) <= RowPages /\ Len(image) = 0
      /\ LogEnd(New) \in Nat
  BY <1>1, MoveFacts DEF Reorganising
<1>3. TypeOK'
  <2>1. /\ medium' \in {"flash", "otp"} /\ flash' \in [0..(NumPages - 1) -> Cells]
        /\ op' \in [key : Keys \cup {0}, val : Values \cup {Missing}]
        /\ todo' \in Seq(Cells) /\ at' \in Nat /\ p' \in Nat /\ row' \in Nat /\ off' \in 0..RowPages
        /\ res' \in {"none", "ok", "nospace", "noent"}
        /\ asked' \in [key : Keys \cup {0}, val : Values \cup {Missing}]
        /\ losses' \in 0..MaxPowerLosses /\ damaged' \in BOOLEAN
    BY <1>1, <1>2 DEF TypeOK
  <2>2. /\ image' \in Seq(Cells) /\ Len(image') <= RowPages /\ copy' \in Seq(Cells)
        /\ Len(copy') <= RowPages
    BY <1>1, <1>2
  <2>3. pc' \in {"clear", "erase"} /\ ret' = "clear"
    BY <1>1
  <2> QED BY <2>1, <2>2, <2>3 DEF TypeOK, Reorganising
<1>4. MediumInv' /\ RowInv' /\ IntactInv'
  BY <1>1, <1>2 DEF MediumInv, RowInv, IntactInv
<1>5. NewEnd' = NewEnd /\ NewEnd = StartOf(row) + Len(copy)
  BY <1>1, <1>2 DEF NewEnd, StartOf
<1>6. New' = New
  <2>1. New' \in Logs
    BY <1>3, <1>4, NextNewTyped DEF Typed
  <2>2. ASSUME NEW a \in 0..(NumPages - 1) PROVE New'[a] = New[a]
    <3>1. Programmed' = 0 /\ StartOf(row)' = StartOf(row) /\ StartOf(row) + 0 = StartOf(row)
      BY <1>1, <1>2 DEF Programmed, StartOf
    <3>2. New'[a] = IF a < StartOf(row) THEN flash[a]
                    ELSE IF a < StartOf(row) + Len(copy) THEN CarriedAt(a - StartOf(row) + 1)'
                    ELSE Erased
      BY <1>1, <1>2, <1>5, <3>1 DEF New, StartOf
    <3>3. ASSUME ~(a < StartOf(row)), a < StartOf(row) + Len(copy)
          PROVE  CarriedAt(a - StartOf(row) + 1)' = copy[a - StartOf(row) + 1]
      <4> DEFINE j == a - StartOf(row) + 1
      <4>1. j \in Nat /\ j <= Len(copy) /\ j' = j
        BY <1>1, <1>2, <3>1, <3>3
      <4> HIDE DEF j
      <4>2. CarriedAt(j)' = copy[j]
        BY <1>1, <4>1 DEF CarriedAt
      <4> QED BY <4>2 DEF j
    <3> QED BY <1>1, <3>2, <3>3, ScanNew
  <2> QED BY <1>2, <2>1, <2>2 DEF Logs
<1>7. ReorgInv'
  <2> SUFFICES ASSUME ~damaged PROVE ReorgInv'
    BY <1>1 DEF ReorgInv
  <2>1. /\ Whole(todo) /\ Closed(New) /\ LogEnd(New) = NewEnd /\ Ahead(flash, p, New, Len(todo))
    BY <1>1, <1>5, ScanFinds
  <2>2. LogEnd(New) + Len(todo) < NumPages
    <3>1. LiveFrom(flash, p) \in Nat
      BY <1>2, LiveFromIs
    <3> QED BY <1>2, <2>1, <3>1 DEF Ahead
  <2>3. ~Collecting'
    BY <1>1 DEF Collecting
  <2>4. pc' = "clear" => LogEnd(New) <= StartOf(row)
    BY <1>1, <1>2, <1>5, <2>1
  <2>5. StartOf(row)' = StartOf(row)
    BY <1>1
  <2> QED BY <1>1, <1>5, <1>6, <2>1, <2>2, <2>3, <2>4, <2>5 DEF ReorgInv
<1> QED
  BY <1>3, <1>4, <1>6, <1>7 DEF StoreInv, Typed

(* The entry copied last is read again from where it was. If the row written *)
(* there holds the inside of an entry now, that entry is it.                 *)
LEMMA AdvanceFinds ==
  ASSUME StoreInv, ~damaged, pc = "advance"
  PROVE  /\ Last \in Visited(New, 1) /\ New[Last] \in Cells
         /\ ~IsEnd(flash[p]) => Behind(flash, p) = Place
         /\ IsEnd(flash[p]) => EntryPages(New[Last]) > 1
<1>1. Moving /\ Collecting
  BY DEF Moving, Collecting, Reorganising
<1>2. /\ flash \in Logs /\ New \in Logs /\ p \in Nat /\ NumPages \in Nat \ {0} /\ StartOf(row) \in Nat
      /\ Len(image) = 0 /\ Len(copy) \in Nat
  BY MoveFacts DEF Reorganising
<1>3. p < NumPages
  BY DEF StoreInv, Typed, RowInv
<1>4. /\ Closed(New) /\ LogEnd(New) = NewEnd /\ Ahead(flash, Place, New, Len(todo))
      /\ Visited(New, 1) # {}
      /\ p >= StartOf(row) + Len(image) => ~IsEnd(flash[p]) /\ Behind(flash, p) = Place
  BY <1>1 DEF StoreInv, ReorgInv, CopiedInv
<1> DEFINE l == Last
           n == EntryPages(New[Last])
<1>5. /\ l \in Visited(New, 1) /\ l \in Nat /\ l < NumPages /\ New[l] \in Cells /\ ~IsEnd(New[l])
      /\ Behind(New, l) = LogEnd(New)
  BY <1>2, <1>4, LastEntry DEF Last
<1>6. n \in Nat \ {0} /\ LogEnd(New) = l + n /\ Place = p + n
  BY <1>5, EntryPagesIs DEF Behind, Place
<1>7. LogEnd(New) <= Place
  BY <1>4 DEF Ahead
<1>8. Inside(New, l)
  BY <1>4, <1>5 DEF Closed, Sound
<1> HIDE DEF l, n
<1>9. l <= p
  BY <1>2, <1>5, <1>6, <1>7
<1>10. CASE p >= StartOf(row)
  <2>1. p >= StartOf(row) + Len(image)
    BY <1>2, <1>10
  <2> QED BY <1>4, <1>5, <2>1 DEF l
<1>11. CASE ~(p >= StartOf(row))
  <2>1. flash[p] = New[p]
    <3>1. p \in 0..(NumPages - 1) /\ Programmed = 0 /\ p < StartOf(row) + 0
      BY <1>2, <1>3, <1>11 DEF Programmed
    <3> QED BY <3>1 DEF New
  <2>2. p < l + n
    <3>1. LogEnd(New) = StartOf(row) + Len(image) + Len(copy)
      BY <1>4 DEF NewEnd
    <3> QED BY <1>2, <1>6, <1>11, <3>1
  <2>3. CASE p = l
    <3>1. flash[p] = New[l] /\ EntryPages(flash[p]) = n
      BY <2>1, <2>3 DEF l, n
    <3> QED BY <1>5, <1>6, <3>1 DEF Behind, l
  <2>4. CASE p # l
    <3>1. l < p /\ p < Behind(New, l) /\ n > 1
      BY <1>2, <1>5, <1>6, <1>9, <2>2, <2>4
    <3>2. IsEnd(flash[p])
      BY <1>2, <1>8, <2>1, <3>1 DEF Inside
    <3> QED BY <1>5, <3>1, <3>2 DEF l, n
  <2> QED BY <2>3, <2>4
<1> QED
  BY <1>10, <1>11

LEMMA AdvanceStep ==
  StoreInv /\ UNCHANGED medium /\ Advance =>
    StoreInv' /\ (~damaged' => New' = New /\ Place' = Place)
<1> SUFFICES ASSUME StoreInv, UNCHANGED medium, Advance
             PROVE  StoreInv' /\ (~damaged' => New' = New /\ Place' = Place)
  OBVIOUS
<1>1. /\ pc = "advance" /\ pc' = "scan"
      /\ UNCHANGED <<medium, flash, op, todo, at, copy, image, row, off, ret, res, asked, losses>>
  BY DEF Advance, writing, rowing
<1>2. \/ ~IsEnd(flash[p]) /\ p' = Behind(flash, p) /\ damaged' = damaged
      \/ IsEnd(flash[p]) /\ p' \in (p + 1)..NumPages /\ damaged' = TRUE
  BY DEF Advance, Behind
<1>3. /\ TypeOK /\ flash \in Logs /\ p \in Nat /\ NumPages \in Nat \ {0} /\ image = <<>>
      /\ medium = "flash"
  BY <1>1, MoveFacts DEF Reorganising
<1>4. p' \in Nat /\ damaged' \in BOOLEAN
  <2>1. CASE ~IsEnd(flash[p]) /\ p' = Behind(flash, p) /\ damaged' = damaged
    <3>1. p < NumPages
      BY <1>1 DEF StoreInv, Typed, RowInv
    <3>2. ~AtEnd(flash, p)
      BY <1>3, <2>1, <3>1 DEF AtEnd
    <3> QED BY <1>3, <2>1, <3>2, BehindIs DEF TypeOK
  <2>2. CASE p' \in (p + 1)..NumPages /\ damaged' = TRUE
    BY <1>3, <2>2
  <2> QED BY <1>2, <2>1, <2>2
<1>5. TypeOK'
  BY <1>1, <1>3, <1>4 DEF TypeOK, Reorganising
<1>6. MediumInv' /\ RowInv' /\ IntactInv'
  BY <1>1, <1>3 DEF MediumInv, RowInv, IntactInv
<1>7. New' = New /\ NewEnd' = NewEnd
  BY <1>1 DEF New, NewEnd, Programmed, CarriedAt, StartOf
<1>8. ASSUME ~damaged' PROVE Place' = Place /\ ReorgInv'
  <2>1. ~damaged /\ p' = Behind(flash, p) /\ ~IsEnd(flash[p])
    BY <1>2, <1>8
  <2>2. Place' = Place
    BY <1>1, <2>1, AdvanceFinds DEF Place
  <2>3. /\ Moving /\ Collecting /\ Collecting' /\ CopiedInv'
    BY <1>1 DEF Moving, Collecting, CopiedInv, Reorganising
  <2>4. /\ Whole(todo) /\ Closed(New) /\ LogEnd(New) = NewEnd /\ Ahead(flash, Place, New, Len(todo))
    BY <2>1, <2>3 DEF StoreInv, ReorgInv
  <2> QED BY <1>1, <1>7, <2>2, <2>3, <2>4 DEF ReorgInv
<1>9. damaged' => ReorgInv'
  BY DEF ReorgInv
<1> QED
  BY <1>5, <1>6, <1>7, <1>8, <1>9 DEF StoreInv, Typed

(* When nothing is collected any more, the rows behind are cleared.         *)
LEMMA ClearFinds ==
  ASSUME StoreInv, ~damaged, pc = "clear"
  PROVE  /\ Whole(todo) /\ Closed(New) /\ LogEnd(New) + Len(todo) < NumPages
         /\ LogEnd(New) <= StartOf(row)
         /\ \A a \in 0..(NumPages - 1) : New[a] = IF a < StartOf(row) THEN flash[a] ELSE Erased
<1>1. Moving /\ ~Collecting
  BY DEF Moving, Collecting, Reorganising
<1>2. /\ Whole(todo) /\ Closed(New) /\ LogEnd(New) + Len(todo) < NumPages /\ copy = <<>>
      /\ LogEnd(New) <= StartOf(row)
  BY <1>1 DEF StoreInv, ReorgInv
<1>3. Len(image) = 0 /\ Len(copy) = 0 /\ StartOf(row) \in Nat /\ Programmed = 0 /\ NumPages \in Nat
  BY <1>2, MoveFacts DEF Reorganising, Programmed
<1>4. NewEnd = StartOf(row) /\ StartOf(row) + Programmed = StartOf(row)
  BY <1>3 DEF NewEnd
<1>5. \A a \in 0..(NumPages - 1) : New[a] = IF a < StartOf(row) THEN flash[a] ELSE Erased
  BY <1>3, <1>4 DEF New
<1> QED
  BY <1>2, <1>5

LEMMA ClearRow ==
  ASSUME StoreInv, UNCHANGED medium, Clear, row < Rows
  PROVE  StoreInv' /\ (~damaged => New' = New)
<1>1. /\ pc = "clear" /\ EraseRow(row) /\ row' = row + 1
      /\ UNCHANGED <<medium, pc, op, todo, at, p, copy, image, off, ret, res, asked, losses, damaged>>
  BY DEF Clear, writing, moving
<1>2. /\ TypeOK /\ flash \in Logs /\ New \in Logs /\ NumPages \in Nat \ {0} /\ image = <<>>
      /\ medium = "flash" /\ row \in Nat /\ StartOf(row) \in Nat /\ RowPages \in Nat
      /\ StartOf(row + 1) = StartOf(row) + RowPages /\ Len(todo) \in Nat /\ LogEnd(New) \in Nat
      /\ Len(image) = 0
  BY <1>1, MoveFacts DEF Reorganising
<1>3. /\ flash' \in Logs
      /\ \A j \in 0..(NumPages - 1) :
           flash'[j] = IF StartOf(row) <= j /\ j < StartOf(row) + RowPages THEN Erased ELSE flash[j]
  BY <1>1, <1>2, RowErased
<1>4. TypeOK'
  <2>1. row + 1 \in Nat
    BY <1>2
  <2> QED BY <1>1, <1>2, <1>3, <2>1 DEF TypeOK, Logs
<1>5. MediumInv' /\ RowInv' /\ IntactInv'
  BY <1>1, <1>2 DEF MediumInv, RowInv, IntactInv
<1>6. ASSUME ~damaged PROVE New' = New /\ ReorgInv'
  <2>1. /\ Whole(todo) /\ Closed(New) /\ LogEnd(New) + Len(todo) < NumPages
        /\ LogEnd(New) <= StartOf(row)
        /\ \A a \in 0..(NumPages - 1) : New[a] = IF a < StartOf(row) THEN flash[a] ELSE Erased
    BY <1>1, <1>6, ClearFinds
  <2>2. copy = <<>> /\ copy' = <<>>
    <3>1. Moving /\ ~Collecting
      BY <1>1 DEF Moving, Collecting, Reorganising
    <3> QED BY <1>1, <1>6, <3>1 DEF StoreInv, ReorgInv
  <2>3. NewEnd' = StartOf(row) + RowPages /\ Programmed' = 0 /\ StartOf(row)' = StartOf(row) + RowPages
    <3>1. StartOf(row)' = StartOf(row) + RowPages
      BY <1>1, <1>2 DEF StartOf
    <3>2. Len(image') = 0 /\ Len(copy') = 0 /\ Programmed' = 0
      BY <1>1, <1>2, <2>2 DEF Programmed
    <3>3. NewEnd' = StartOf(row)' + 0 + 0
      BY <3>2 DEF NewEnd
    <3> QED BY <1>2, <3>1, <3>2, <3>3
  <2>4. New' \in Logs
    BY <1>4, <1>5, NextNewTyped DEF Typed
  <2>5. New' = New
    <3>1. ASSUME NEW a \in 0..(NumPages - 1) PROVE New'[a] = New[a]
      <4>1. StartOf(row)' + Programmed' = StartOf(row) + RowPages
        BY <1>2, <2>3
      <4>2. New'[a] = IF a < StartOf(row) + RowPages THEN flash'[a] ELSE Erased
        BY <2>3, <4>1 DEF New
      <4>3. a < StartOf(row) => a < StartOf(row) + RowPages
        BY <1>2
      <4> QED BY <1>2, <1>3, <2>1, <4>2, <4>3
    <3> QED BY <1>2, <2>4, <3>1 DEF Logs
  <2>6. ReorgInv'
    <3>1. ~Collecting' /\ pc' = "clear" /\ LogEnd(New) <= StartOf(row)'
      BY <1>1, <1>2, <2>1, <2>3 DEF Collecting
    <3> QED BY <1>1, <2>1, <2>2, <2>5, <3>1 DEF ReorgInv
  <2> QED BY <2>5, <2>6
<1>7. damaged => ReorgInv'
  BY <1>1 DEF ReorgInv
<1> QED
  BY <1>4, <1>5, <1>6, <1>7 DEF StoreInv, Typed

LEMMA Cleared ==
  ASSUME StoreInv, UNCHANGED medium, Clear, ~(row < Rows)
  PROVE  /\ StoreInv' /\ Reorganised
         /\ ~damaged => New = flash
<1>1. /\ pc = "clear" /\ Reorganised /\ UNCHANGED <<medium, asked, losses, damaged>>
  BY DEF Clear
<1>2. /\ TypeOK /\ flash \in Logs /\ New \in Logs /\ NumPages \in Nat \ {0} /\ image = <<>>
      /\ medium = "flash" /\ row \in Nat /\ StartOf(row) \in Nat
      /\ Len(todo) \in Nat /\ LogEnd(flash) \in Nat /\ LogEnd(flash) >= 1 /\ asked \in Changes
  BY <1>1, MoveFacts, StoreFacts, LogEndIs DEF Reorganising
<1>3. StartOf(row) >= NumPages
  BY <1>2, RowFacts
<1>4. ASSUME ~damaged
      PROVE  New = flash /\ Whole(todo) /\ Closed(flash) /\ LogEnd(flash) + Len(todo) < NumPages
  <2>1. /\ Whole(todo) /\ Closed(New) /\ LogEnd(New) + Len(todo) < NumPages
        /\ \A a \in 0..(NumPages - 1) : New[a] = IF a < StartOf(row) THEN flash[a] ELSE Erased
    BY <1>1, <1>4, ClearFinds
  <2>2. New = flash
    <3>1. \A a \in 0..(NumPages - 1) : New[a] = flash[a]
      BY <1>2, <1>3, <2>1
    <3> QED BY <1>2, <3>1 DEF Logs
  <2> QED BY <2>1, <2>2
<1>5. CASE todo = <<>>
  <2>1. Returns("ok") /\ flash' = flash
    BY <1>1, <1>5 DEF Reorganised, Done
  <2> QED BY <1>1, <1>2, <1>4, <2>1, Rests
<1>6. CASE todo # <<>>
  <2>1. /\ pc' = "write" /\ at' = LogEnd(flash) /\ p' = 0 /\ row' = 0 /\ ret' = "write"
        /\ UNCHANGED <<medium, flash, op, todo, copy, image, off, res, asked, losses, damaged>>
    BY <1>1, <1>6 DEF Reorganised
  <2>2. TypeOK'
    BY <1>2, <2>1 DEF TypeOK
  <2>3. MediumInv' /\ RowInv' /\ ReorgInv'
    BY <1>2, <2>1 DEF MediumInv, RowInv, ReorgInv, Moving, Reorganising
  <2>4. ~damaged => Appending'
    BY <1>2, <1>4, <2>1 DEF Appending, Closed
  <2>5. IntactInv'
    BY <1>4, <2>1, <2>4 DEF IntactInv, Closed
  <2> QED BY <1>1, <1>4, <2>2, <2>3, <2>5 DEF StoreInv, Typed
<1> QED
  BY <1>5, <1>6

LEMMA ClearStep == StoreInv /\ UNCHANGED medium /\ Clear => StoreInv'
  BY ClearRow, Cleared

(***************************************************************************)
(* The steps: a row erased and programmed                                  *)
(***************************************************************************)
(* What a row about to be written says of an intact store.                  *)
LEMMA RowFinds ==
  ASSUME StoreInv, ~damaged, pc \in {"erase", "program"}
  PROVE  /\ Moving /\ ret \in {"advance", "clear"} /\ Len(image) \in Nat \ {0}
         /\ Whole(todo) /\ Closed(New) /\ LogEnd(New) = NewEnd /\ row < Rows
         /\ ret = "advance" => /\ Len(image) = RowPages /\ Ahead(flash, Place, New, Len(todo))
                               /\ StartOf(row) + RowPages <= LogEnd(New) /\ CopiedInv
         /\ ret = "clear" => copy = <<>> /\ LogEnd(New) + Len(todo) < NumPages
<1>1. /\ ret # "write" /\ TypeOK /\ image # <<>>
  BY DEF StoreInv, Typed, IntactInv, RowInv
<1>2. ret \in {"advance", "clear"} /\ Moving /\ (Collecting <=> ret = "advance")
  BY <1>1 DEF TypeOK, Moving, Collecting, Reorganising
<1>3. /\ StartOf(row) \in Nat /\ Len(copy) \in Nat /\ Len(image) \in Nat /\ image \in Seq(Cells)
      /\ LogEnd(New) \in Nat /\ Len(todo) \in Nat /\ NumPages \in Nat /\ RowPages \in Nat
      /\ row \in Nat
  BY MoveFacts
<1>4. Len(image) \in Nat \ {0}
  BY <1>1, <1>3
<1>5. /\ Whole(todo) /\ Closed(New) /\ LogEnd(New) = NewEnd
      /\ ret = "advance" => /\ Len(image) = RowPages /\ Ahead(flash, Place, New, Len(todo)) /\ CopiedInv
      /\ ret = "clear" => copy = <<>> /\ LogEnd(New) + Len(todo) < NumPages
  <2>1. ret = "clear" => ret # "advance"
    OBVIOUS
  <2> QED BY <1>2, <2>1 DEF StoreInv, ReorgInv
<1>6. ret = "advance" => StartOf(row) + RowPages <= LogEnd(New)
  BY <1>3, <1>5 DEF NewEnd
<1>7. StartOf(row) < LogEnd(New) /\ LogEnd(New) <= NumPages
  <2>1. StartOf(row) < LogEnd(New)
    BY <1>3, <1>4, <1>5 DEF NewEnd
  <2>2. ret = "advance" => LogEnd(New) <= Place /\ Place <= NumPages /\ Place \in Nat
    BY <1>5 DEF Ahead
  <2>3. LogEnd(New) <= NumPages
    BY <1>2, <1>3, <1>5, <2>2
  <2> QED BY <2>1, <2>3
<1>8. row < Rows
  <2>1. StartOf(row) < NumPages
    BY <1>3, <1>7
  <2> QED BY <1>3, <2>1, RowFacts
<1> QED
  BY <1>2, <1>4, <1>5, <1>6, <1>8

LEMMA EraseRowStep ==
  StoreInv /\ UNCHANGED medium /\ Erase => StoreInv' /\ (~damaged => New' = New /\ Place' = Place)
<1> SUFFICES ASSUME StoreInv, UNCHANGED medium, Erase
             PROVE  StoreInv' /\ (~damaged => New' = New /\ Place' = Place)
  OBVIOUS
<1>1. /\ pc = "erase" /\ EraseRow(row) /\ pc' = "program" /\ off' = 0
      /\ UNCHANGED <<medium, op, todo, at, p, copy, image, row, ret, res, asked, losses, damaged>>
  BY DEF Erase, writing, moving, history
<1>2. /\ TypeOK /\ flash \in Logs /\ New \in Logs /\ NumPages \in Nat \ {0} /\ medium = "flash"
      /\ row \in Nat /\ StartOf(row) \in Nat /\ RowPages \in Nat \ {0} /\ p \in Nat
      /\ image # <<>> /\ image \in Seq(Cells) /\ Len(image) \in Nat /\ Len(image) <= RowPages
      /\ LogEnd(New) \in Nat
  BY <1>1, MoveFacts DEF StoreInv, Typed, RowInv
<1>3. /\ flash' \in Logs
      /\ \A j \in 0..(NumPages - 1) :
           flash'[j] = IF StartOf(row) <= j /\ j < StartOf(row) + RowPages THEN Erased ELSE flash[j]
  BY <1>1, <1>2, RowErased
<1>4. TypeOK'
  <2>1. 0 \in 0..RowPages
    BY <1>2
  <2> QED BY <1>1, <1>2, <1>3, <2>1 DEF TypeOK, Logs
<1>5. RowInv'
  <2>1. 0 < Len(image)
    BY <1>2
  <2>2. StartOf(row)' = StartOf(row) /\ StartOf(row) + 0 = StartOf(row)
    BY <1>1, <1>2 DEF StartOf
  <2>3. \A j \in 0..(NumPages - 1) :
          StartOf(row) <= j /\ j < StartOf(row) + RowPages => flash'[j] = Erased
    BY <1>3
  <2>4. ret = "advance" => p < NumPages
    BY <1>1 DEF StoreInv, Typed, RowInv
  <2> QED BY <1>1, <1>2, <2>1, <2>2, <2>3, <2>4 DEF RowInv
<1>6. MediumInv' /\ IntactInv'
  BY <1>1, <1>2 DEF StoreInv, IntactInv, MediumInv
<1>7. New' = New /\ NewEnd' = NewEnd /\ Place' = Place
  <2>1. Programmed = 0 /\ Programmed' = 0 /\ StartOf(row) + 0 = StartOf(row) /\ StartOf(row)' = StartOf(row)
    BY <1>1, <1>2 DEF Programmed, StartOf
  <2>2. NewEnd' = NewEnd
    BY <1>1 DEF NewEnd, StartOf
  <2>3. \A a \in 0..(NumPages - 1) : a < StartOf(row) => flash'[a] = flash[a]
    BY <1>2, <1>3
  <2>4. \A j : CarriedAt(j)' = CarriedAt(j)
    BY <1>1 DEF CarriedAt
  <2>5. New' \in Logs
    BY <1>4, <1>5, <1>6, NextNewTyped DEF Typed
  <2>6. ASSUME NEW a \in 0..(NumPages - 1) PROVE New'[a] = New[a]
    <3>1. New[a] = IF a < StartOf(row) THEN flash[a]
                   ELSE IF a < NewEnd THEN CarriedAt(a - StartOf(row) + 1) ELSE Erased
      BY <2>1 DEF New
    <3>2. New'[a] = IF a < StartOf(row) THEN flash'[a]
                    ELSE IF a < NewEnd THEN CarriedAt(a - StartOf(row) + 1)' ELSE Erased
      BY <1>1, <2>1, <2>2 DEF New, StartOf
    <3>3. CarriedAt(a - StartOf(row) + 1)' = CarriedAt(a - StartOf(row) + 1)
      BY <1>1 DEF CarriedAt, StartOf
    <3> QED BY <2>3, <3>1, <3>2, <3>3
  <2>7. New' = New
    BY <1>2, <2>5, <2>6 DEF Logs
  <2> QED BY <1>1, <2>2, <2>7 DEF Place, Last
<1>8. ReorgInv'
  <2> SUFFICES ASSUME ~damaged PROVE ReorgInv'
    BY <1>1 DEF ReorgInv
  <2>1. /\ Moving /\ ret \in {"advance", "clear"}
        /\ Whole(todo) /\ Closed(New) /\ LogEnd(New) = NewEnd
        /\ ret = "advance" => /\ Len(image) = RowPages /\ Ahead(flash, Place, New, Len(todo))
                              /\ StartOf(row) + RowPages <= LogEnd(New) /\ CopiedInv
        /\ ret = "clear" => copy = <<>> /\ LogEnd(New) + Len(todo) < NumPages
    BY <1>1, RowFinds
  <2>2. Collecting' <=> ret = "advance"
    BY <1>1 DEF Collecting
  <2>3. CASE ret = "advance"
    <3>1. Ahead(flash', Place, New, Len(todo))
      <4>1. /\ Place \in Nat /\ LogEnd(New) <= Place /\ StartOf(row) + RowPages <= LogEnd(New)
            /\ Ahead(flash, Place, New, Len(todo))
        BY <2>1, <2>3 DEF Ahead
      <4>2. \A j \in Nat : Place <= j /\ j < NumPages => flash[j] = flash'[j]
        BY <1>2, <1>3, <4>1
      <4> HIDE DEF Place
      <4> QED BY <1>2, <1>3, <4>1, <4>2, AheadSame
    <3>2. CopiedInv'
      <4>1. /\ Visited(New, 1) # {} /\ Len(image) = RowPages
            /\ p >= StartOf(row) + Len(image) => ~IsEnd(flash[p]) /\ Behind(flash, p) = Place
        BY <1>1, <2>1, <2>3 DEF CopiedInv
      <4>2. p < NumPages
        BY <1>1, <2>3 DEF StoreInv, Typed, RowInv
      <4>3. p >= StartOf(row) + Len(image) => flash'[p] = flash[p]
        BY <1>2, <1>3, <4>1, <4>2
      <4>4. (p >= StartOf(row) + Len(image))' <=> p >= StartOf(row) + Len(image)
        BY <1>1 DEF StartOf
      <4>5. p >= StartOf(row) + Len(image) => Behind(flash, p)' = Behind(flash, p)
        BY <1>1, <4>3 DEF Behind
      <4> QED BY <1>1, <1>7, <4>1, <4>3, <4>4, <4>5 DEF CopiedInv
    <3> QED BY <1>1, <1>7, <2>1, <2>2, <2>3, <3>1, <3>2 DEF ReorgInv
  <2>4. CASE ret = "clear"
    BY <1>1, <1>7, <2>1, <2>2, <2>4 DEF ReorgInv
  <2> QED BY <2>1, <2>3, <2>4
<1> QED
  BY <1>4, <1>5, <1>6, <1>7, <1>8 DEF StoreInv, Typed

LEMMA RowProgrammed ==
  ASSUME StoreInv, Program
  PROVE  /\ image[off + 1] \in Cells /\ flash' \in Logs /\ off + 1 <= Len(image)
         /\ \A j \in 0..(NumPages - 1) :
              flash'[j] = IF j = StartOf(row) + off THEN image[off + 1] ELSE flash[j]
<1>1. pc = "program" /\ flash' = [flash EXCEPT ![StartOf(row) + off] = image[off + 1]]
  BY DEF Program, StartOf
<1>2. /\ flash \in Logs /\ image \in Seq(Cells) /\ Len(image) \in Nat /\ off \in Nat /\ off < Len(image)
      /\ StartOf(row) \in Nat
  BY <1>1, MoveFacts DEF StoreInv, Typed, RowInv
<1>3. off + 1 \in 1..Len(image) /\ off + 1 <= Len(image)
  BY <1>2
<1>4. image[off + 1] \in Cells
  BY <1>2, <1>3
<1> DEFINE e == StartOf(row) + off
           c == image[off + 1]
<1> HIDE DEF e, c
<1>5. flash' = [flash EXCEPT ![e] = c] /\ c \in Cells
  BY <1>1, <1>4 DEF e, c
<1>6. flash' \in Logs /\ \A j \in 0..(NumPages - 1) : flash'[j] = IF j = e THEN c ELSE flash[j]
  BY <1>2, <1>5 DEF Logs
<1> QED
  BY <1>3, <1>4, <1>6 DEF e, c

LEMMA ProgramTyped ==
  ASSUME StoreInv, UNCHANGED medium, Program
  PROVE  Typed' /\ IntactInv'
<1>1. /\ pc = "program"
      /\ UNCHANGED <<medium, op, todo, at, p, copy, ret, res, asked, losses, damaged>>
      /\ \/ off + 1 = Len(image) /\ pc' = ret /\ row' = row + 1 /\ off' = 0 /\ image' = <<>>
         \/ off + 1 # Len(image) /\ off' = off + 1 /\ UNCHANGED <<pc, row, image>>
  BY DEF Program, writing, moving, history
<1>2. /\ TypeOK /\ flash \in Logs /\ New \in Logs /\ NumPages \in Nat \ {0} /\ medium = "flash"
      /\ row \in Nat /\ StartOf(row) \in Nat /\ RowPages \in Nat \ {0} /\ p \in Nat
      /\ image # <<>> /\ image \in Seq(Cells) /\ Len(image) \in Nat /\ Len(image) <= RowPages
      /\ off \in Nat
  BY <1>1, MoveFacts DEF StoreInv, Typed, RowInv
<1>3. /\ flash' \in Logs /\ off + 1 <= Len(image)
      /\ \A j \in 0..(NumPages - 1) :
           flash'[j] = IF j = StartOf(row) + off THEN image[off + 1] ELSE flash[j]
  BY RowProgrammed
<1>4. TypeOK'
  <2>1. off' \in 0..RowPages /\ row' \in Nat /\ image' \in Seq(Cells) /\ Len(image') <= RowPages
    <3>1. CASE row' = row + 1 /\ off' = 0 /\ image' = <<>>
      <4>1. 0 \in 0..RowPages /\ row + 1 \in Nat /\ <<>> \in Seq(Cells) /\ Len(<<>>) <= RowPages
        BY <1>2
      <4> QED BY <3>1, <4>1
    <3>2. CASE off' = off + 1 /\ UNCHANGED <<row, image>>
      <4>1. off + 1 \in 0..RowPages
        BY <1>2, <1>3
      <4> QED BY <1>2, <3>2, <4>1
    <3> QED BY <1>1, <3>1, <3>2
  <2>2. pc' \in {"program", "write", "advance", "clear"}
    BY <1>1, <1>2 DEF TypeOK
  <2> QED BY <1>1, <1>2, <1>3, <2>1, <2>2 DEF TypeOK, Logs, Reorganising
<1>5. RowInv'
  <2>1. ret = "advance" => p < NumPages
    BY <1>1 DEF StoreInv, Typed, RowInv
  <2>2. CASE pc' = ret /\ image' = <<>>
    <3>1. ret \in {"write", "advance", "clear"}
      BY <1>2 DEF TypeOK
    <3> QED BY <1>1, <2>1, <2>2, <3>1 DEF RowInv
  <2>3. CASE off + 1 # Len(image) /\ off' = off + 1 /\ UNCHANGED <<pc, row, image>>
    <3>1. \A j \in 0..(NumPages - 1) :
            StartOf(row) + off <= j /\ j < StartOf(row) + RowPages => flash[j] = Erased
      BY <1>1 DEF StoreInv, Typed, RowInv
    <3>2. \A j \in 0..(NumPages - 1) :
            StartOf(row) + (off + 1) <= j /\ j < StartOf(row) + RowPages => flash'[j] = Erased
      BY <1>2, <1>3, <3>1
    <3>3. off + 1 < Len(image)
      BY <1>2, <1>3, <2>3
    <3>4. StartOf(row)' = StartOf(row)
      BY <2>3
    <3> QED BY <1>1, <1>2, <2>1, <2>3, <3>2, <3>3, <3>4 DEF RowInv
  <2> QED BY <1>1, <2>2, <2>3
<1>6. MediumInv' /\ IntactInv'
  <2>1. ~damaged => ret # "write" /\ pc' \in {"program", "advance", "clear"}
    BY <1>1, <1>2 DEF StoreInv, IntactInv, TypeOK
  <2> QED BY <1>1, <1>2, <2>1 DEF IntactInv, MediumInv
<1> QED
  BY <1>4, <1>5, <1>6 DEF Typed

(* Programming leaves the new log as it is.                                 *)
LEMMA ProgramKeeps ==
  ASSUME StoreInv, UNCHANGED medium, Program, ~damaged
  PROVE  New' = New /\ Place' = Place /\ (off + 1 # Len(image) \/ ret = "advance" => NewEnd' = NewEnd)
<1>1. /\ pc = "program"
      /\ UNCHANGED <<p, copy>>
      /\ \/ off + 1 = Len(image) /\ pc' = ret /\ row' = row + 1 /\ off' = 0 /\ image' = <<>>
         \/ off + 1 # Len(image) /\ off' = off + 1 /\ UNCHANGED <<pc, row, image>>
  BY DEF Program, writing, moving, history
<1>2. /\ flash \in Logs /\ New \in Logs /\ NumPages \in Nat \ {0}
      /\ row \in Nat /\ StartOf(row) \in Nat /\ RowPages \in Nat \ {0}
      /\ Len(image) \in Nat /\ Len(image) <= RowPages /\ Len(copy) \in Nat
      /\ off \in Nat /\ StartOf(row + 1) = StartOf(row) + RowPages
  BY <1>1, MoveFacts
<1>3. /\ off + 1 <= Len(image)
      /\ \A j \in 0..(NumPages - 1) :
           flash'[j] = IF j = StartOf(row) + off THEN image[off + 1] ELSE flash[j]
  BY RowProgrammed
<1>4. /\ ret \in {"advance", "clear"}
      /\ ret = "advance" => Len(image) = RowPages
      /\ ret = "clear" => Len(copy) = 0
  BY <1>1, RowFinds
<1>5. New' \in Logs
  BY ProgramTyped, NextNewTyped
<1>6. Programmed = off
  BY <1>1 DEF Programmed
<1>7. ASSUME NEW a \in 0..(NumPages - 1)
      PROVE  New[a] = IF a < StartOf(row) + off THEN flash[a]
                      ELSE IF a < NewEnd THEN CarriedAt(a - StartOf(row) + 1) ELSE Erased
  BY <1>6 DEF New
<1>8. NewEnd = StartOf(row) + Len(image) + Len(copy)
  BY DEF NewEnd
<1>9. ASSUME NEW a \in 0..(NumPages - 1), a = StartOf(row) + off
      PROVE  New[a] = image[off + 1]
  <2> DEFINE j == a - StartOf(row) + 1
  <2>1. j = off + 1 /\ ~(a < StartOf(row) + off) /\ a < NewEnd
    BY <1>2, <1>3, <1>8, <1>9
  <2>2. New[a] = CarriedAt(j)
    BY <1>7, <2>1
  <2> HIDE DEF j
  <2> QED BY <1>3, <2>1, <2>2 DEF CarriedAt
<1>10. CASE off + 1 # Len(image) /\ off' = off + 1 /\ UNCHANGED <<pc, row, image>>
  <2>1. Programmed' = off + 1 /\ StartOf(row)' = StartOf(row) /\ NewEnd' = NewEnd
    BY <1>1, <1>10 DEF Programmed, NewEnd, StartOf
  <2>2. ASSUME NEW a \in 0..(NumPages - 1) PROVE New'[a] = New[a]
    <3>1. CarriedAt(a - StartOf(row) + 1)' = CarriedAt(a - StartOf(row) + 1)
      BY <1>1, <1>10 DEF CarriedAt, StartOf
    <3>2. New'[a] = IF a < StartOf(row) + (off + 1) THEN flash'[a]
                    ELSE IF a < NewEnd THEN CarriedAt(a - StartOf(row) + 1) ELSE Erased
      BY <1>1, <1>10, <2>1, <3>1 DEF New
    <3>3. CASE a = StartOf(row) + off
      <4>1. a < StartOf(row) + (off + 1)
        BY <1>2, <3>3
      <4> QED BY <1>3, <1>9, <3>2, <3>3, <4>1
    <3>4. CASE a # StartOf(row) + off
      <4>1. a < StartOf(row) + (off + 1) <=> a < StartOf(row) + off
        BY <1>2, <3>4
      <4> QED BY <1>3, <1>7, <3>2, <3>4, <4>1
    <3> QED BY <3>3, <3>4
  <2>3. New' = New
    BY <1>2, <1>5, <2>2 DEF Logs
  <2>4. pc' # "scan" /\ pc # "scan"
    BY <1>1, <1>10
  <2> QED BY <1>1, <2>1, <2>3, <2>4 DEF Place, Last
<1>11. CASE off + 1 = Len(image) /\ pc' = ret /\ row' = row + 1 /\ off' = 0 /\ image' = <<>>
  <2>1. /\ Programmed' = 0 /\ StartOf(row)' = StartOf(row) + RowPages
        /\ NewEnd' = StartOf(row) + RowPages + Len(copy)
    <3>1. Programmed' = 0 /\ StartOf(row)' = StartOf(row) + RowPages /\ Len(image') = 0
      BY <1>2, <1>4, <1>11 DEF Programmed, StartOf
    <3>2. NewEnd' = (StartOf(row) + RowPages) + 0 + Len(copy)
      BY <1>1, <3>1 DEF NewEnd
    <3> QED BY <1>2, <3>1, <3>2
  <2>2. ret = "advance" => NewEnd' = NewEnd
    BY <1>2, <1>4, <1>8, <2>1
  <2>3. ASSUME NEW a \in 0..(NumPages - 1) PROVE New'[a] = New[a]
    <3>0. PICK m \in Nat : m = StartOf(row)
      BY <1>2
    <3>1. m + RowPages + 0 = m + RowPages /\ m \in Nat
      BY <1>2
    <3>2. New'[a] = IF a < m + RowPages THEN flash'[a]
                    ELSE IF a < m + RowPages + Len(copy) THEN CarriedAt(a - (m + RowPages) + 1)'
                    ELSE Erased
      <4>1. StartOf(row)' + Programmed' = m + RowPages
        BY <2>1, <3>0, <3>1
      <4>2. New'[a] = IF a < StartOf(row)' + Programmed' THEN flash'[a]
                    ELSE IF a < NewEnd' THEN CarriedAt(a - StartOf(row) + 1)'
                    ELSE Erased
        BY DEF New
      <4>3. CarriedAt(a - StartOf(row) + 1)' = CarriedAt(a - (m + RowPages) + 1)'
        BY <1>11, <2>1, <3>0 DEF CarriedAt
      <4>4. NewEnd' = m + RowPages + Len(copy)
        BY <2>1, <3>0
      <4> QED BY <4>1, <4>2, <4>3, <4>4
    <3>3. CASE a < m + off
      <4>1. a < m + RowPages /\ a # m + off
        BY <1>2, <1>3, <3>0, <3>1, <3>3
      <4> QED BY <1>3, <1>7, <3>0, <3>2, <3>3, <4>1
    <3>4. CASE a = m + off
      <4>1. a < m + RowPages
        BY <1>2, <1>3, <3>0, <3>1, <3>4
      <4> QED BY <1>3, <1>9, <3>0, <3>2, <3>4, <4>1
    <3>5. CASE a > m + off /\ a < m + RowPages
      <4>1. Len(image) # RowPages
        BY <1>2, <1>11, <3>0, <3>1, <3>5
      <4>2. ~(a < NewEnd) /\ ~(a < m + off) /\ a # m + off
        BY <1>2, <1>4, <1>8, <1>11, <3>0, <3>1, <3>5, <4>1
      <4>3. flash[a] = Erased
        <5>1. m + off <= a
          BY <1>2, <3>0, <3>1, <3>5
        <5> QED BY <1>1, <3>0, <3>5, <5>1 DEF StoreInv, Typed, RowInv
      <4> QED BY <1>3, <1>7, <3>0, <3>2, <3>5, <4>2, <4>3
    <3>6. CASE a >= m + RowPages
      <4>1. ~(a < m + off) /\ ~(a < m + RowPages)
        BY <1>2, <1>3, <3>0, <3>1, <3>6
      <4>2. CASE a < m + RowPages + Len(copy)
        <5>1. Len(image) = RowPages
          BY <1>2, <1>4, <3>0, <3>1, <3>6, <4>2
        <5>0. PICK j \in Nat : j = a - (m + RowPages) + 1
          BY <1>2, <3>1, <3>6
        <5>2. a - m + 1 = j + RowPages /\ j > 0
          BY <1>2, <3>1, <3>6, <5>0
        <5>a. a < NewEnd
          <6>1. NewEnd = m + RowPages + Len(copy)
            BY <1>8, <3>0, <5>1
          <6> QED BY <4>2, <6>1
        <5>3. CarriedAt(j)' = copy[j]
          BY <1>1, <1>11, <5>2 DEF CarriedAt
        <5>4. CarriedAt(j + RowPages) = copy[j]
          <6>1. ~(j + RowPages <= RowPages) /\ (j + RowPages) - RowPages = j
            BY <1>2, <5>2
          <6> QED BY <5>1, <6>1 DEF CarriedAt
        <5>5. New[a] = CarriedAt(j + RowPages)
          BY <1>7, <3>0, <4>1, <5>2, <5>a
        <5>6. New'[a] = CarriedAt(j)'
          BY <3>2, <4>1, <4>2, <5>0
        <5> QED BY <5>3, <5>4, <5>5, <5>6
      <4>3. CASE ~(a < m + RowPages + Len(copy))
        <5>1. ~(a < NewEnd)
          BY <1>2, <1>8, <3>0, <3>1, <4>3
        <5> QED BY <1>7, <3>0, <3>2, <4>1, <4>3, <5>1
      <4> QED BY <4>2, <4>3
    <3>7. a < m + off \/ a = m + off \/ (a > m + off /\ a < m + RowPages) \/ a >= m + RowPages
      BY <1>2, <3>1
    <3> QED BY <3>3, <3>4, <3>5, <3>6, <3>7
  <2>4. New' = New
    BY <1>2, <1>5, <2>3 DEF Logs
  <2>5. pc' # "scan" /\ pc # "scan"
    BY <1>1, <1>4, <1>11
  <2> QED BY <1>1, <1>11, <2>2, <2>4, <2>5 DEF Place, Last
<1> QED
  BY <1>1, <1>10, <1>11

LEMMA ProgramStep ==
  StoreInv /\ UNCHANGED medium /\ Program => StoreInv' /\ (~damaged => New' = New /\ Place' = Place)
<1> SUFFICES ASSUME StoreInv, UNCHANGED medium, Program
             PROVE  StoreInv' /\ (~damaged => New' = New /\ Place' = Place)
  OBVIOUS
<1>1. /\ pc = "program"
      /\ UNCHANGED <<medium, op, todo, at, p, copy, ret, res, asked, losses, damaged>>
      /\ \/ off + 1 = Len(image) /\ pc' = ret /\ row' = row + 1 /\ off' = 0 /\ image' = <<>>
         \/ off + 1 # Len(image) /\ off' = off + 1 /\ UNCHANGED <<pc, row, image>>
  BY DEF Program, writing, moving, history
<1>2. Typed' /\ IntactInv' /\ (~damaged => New' = New /\ Place' = Place)
  BY ProgramTyped, ProgramKeeps
<1>3. ReorgInv'
  <2> SUFFICES ASSUME ~damaged PROVE ReorgInv'
    BY <1>1 DEF ReorgInv
  <2>1. /\ ret \in {"advance", "clear"}
        /\ Whole(todo) /\ Closed(New) /\ LogEnd(New) = NewEnd
        /\ ret = "advance" => /\ Len(image) = RowPages /\ Ahead(flash, Place, New, Len(todo))
                              /\ StartOf(row) + RowPages <= LogEnd(New) /\ CopiedInv
        /\ ret = "clear" => copy = <<>> /\ LogEnd(New) + Len(todo) < NumPages
    BY <1>1, RowFinds
  <2>2. /\ flash \in Logs /\ New \in Logs /\ NumPages \in Nat \ {0} /\ p \in Nat
        /\ row \in Nat /\ StartOf(row) \in Nat /\ RowPages \in Nat \ {0}
        /\ Len(image) \in Nat /\ Len(image) <= RowPages
        /\ off \in Nat /\ StartOf(row + 1) = StartOf(row) + RowPages /\ LogEnd(New) \in Nat
    BY <1>1, MoveFacts
  <2>3. /\ flash' \in Logs /\ off + 1 <= Len(image)
        /\ \A j \in 0..(NumPages - 1) : j # StartOf(row) + off => flash'[j] = flash[j]
    BY RowProgrammed
  <2>4. /\ New' = New /\ Place' = Place
        /\ off + 1 # Len(image) \/ ret = "advance" => NewEnd' = NewEnd
    BY ProgramKeeps
  <2>5. Collecting' <=> ret = "advance"
    BY <1>1, <2>1 DEF Collecting
  <2>6. CASE ret = "advance"
    <3>1. \A j \in 0..(NumPages - 1) : j >= StartOf(row) + RowPages => flash'[j] = flash[j]
      BY <2>2, <2>3
    <3>2. Ahead(flash', Place, New, Len(todo))
      <4>1. /\ Place \in Nat /\ LogEnd(New) <= Place /\ StartOf(row) + RowPages <= LogEnd(New)
            /\ Ahead(flash, Place, New, Len(todo))
        BY <2>1, <2>6 DEF Ahead
      <4>2. \A j \in Nat : Place <= j /\ j < NumPages => flash[j] = flash'[j]
        BY <2>2, <3>1, <4>1
      <4> HIDE DEF Place
      <4> QED BY <2>2, <2>3, <4>1, <4>2, AheadSame
    <3>3. CopiedInv'
      <4>1. /\ Visited(New, 1) # {} /\ Len(image) = RowPages
            /\ p >= StartOf(row) + Len(image) => ~IsEnd(flash[p]) /\ Behind(flash, p) = Place
        BY <1>1, <2>1, <2>6 DEF CopiedInv
      <4>2. p < NumPages
        BY <1>1, <2>6 DEF StoreInv, Typed, RowInv
      <4>3. (StartOf(row) + Len(image))' = StartOf(row) + RowPages
        <5>1. CASE UNCHANGED <<row, image>>
          BY <4>1, <5>1 DEF StartOf
        <5>2. CASE row' = row + 1 /\ image' = <<>>
          <6>1. StartOf(row)' = StartOf(row) + RowPages /\ Len(image') = 0
            BY <2>2, <5>2 DEF StartOf
          <6>2. (StartOf(row) + Len(image))' = (StartOf(row) + RowPages) + 0
            BY <6>1
          <6> QED BY <2>2, <6>2
        <5> QED BY <1>1, <5>1, <5>2
      <4>4. p >= StartOf(row) + RowPages =>
              /\ ~IsEnd(flash[p]) /\ Behind(flash, p) = Place
              /\ flash'[p] = flash[p]
        BY <2>2, <3>1, <4>1, <4>2
      <4>5. p >= StartOf(row) + RowPages => Behind(flash, p)' = Behind(flash, p)
        BY <1>1, <4>4 DEF Behind
      <4> QED BY <1>1, <2>4, <4>1, <4>3, <4>4, <4>5 DEF CopiedInv
    <3>4. pc' \in {"erase", "program"} => Len(image') = RowPages
      BY <1>1, <2>1, <2>6
    <3> QED BY <1>1, <2>1, <2>4, <2>5, <2>6, <3>2, <3>3, <3>4 DEF ReorgInv
  <2>7. CASE ret = "clear"
    <3>1. pc' = "clear" => LogEnd(New) <= StartOf(row)'
      <4> SUFFICES ASSUME pc' = "clear" PROVE LogEnd(New) <= StartOf(row)'
        OBVIOUS
      <4>1. row' = row + 1
        BY <1>1
      <4>2. Len(copy) = 0 /\ LogEnd(New) = StartOf(row) + Len(image) + 0
        BY <2>1, <2>2, <2>7 DEF NewEnd
      <4>3. StartOf(row)' = StartOf(row) + RowPages
        BY <2>2, <4>1 DEF StartOf
      <4> QED BY <2>2, <4>2, <4>3
    <3>2. pc' # "clear" => NewEnd' = NewEnd
      BY <1>1, <2>4, <2>7
    <3> QED BY <1>1, <2>1, <2>4, <2>5, <2>7, <3>1, <3>2 DEF ReorgInv
  <2> QED BY <2>1, <2>6, <2>7
<1> QED
  BY <1>2, <1>3 DEF StoreInv

(***************************************************************************)
(* The steps: writing an entry                                             *)
(***************************************************************************)
LEMMA AppendPage ==
  ASSUME flash \in Logs, at \in Nat, todo \in Seq(Cells), todo # <<>>,
         Appending, Sound(flash, 1),
         flash' = [flash EXCEPT ![at] = Head(todo)], todo' = Tail(todo), at' = at + 1
  PROVE  at < NumPages /\ Appending' /\ Sound(flash', 1)
<1>1. /\ Len(todo) \in Nat \ {0} /\ Len(Tail(todo)) = Len(todo) - 1 /\ Head(todo) = todo[1]
      /\ Head(todo) \in Cells /\ NumPages \in Nat
      /\ \A i \in 1..Len(Tail(todo)) : Tail(todo)[i] = todo[i + 1]
  <2>1. /\ Len(todo) \in Nat \ {0} /\ Len(Tail(todo)) = Len(todo) - 1 /\ Head(todo) = todo[1]
        /\ Head(todo) \in Cells /\ \A i \in 1..Len(Tail(todo)) : Tail(todo)[i] = todo[i + 1]
    OBVIOUS
  <2> QED BY <2>1, LogAssumption
<1>2. at >= 1 /\ ErasedFrom(flash, at) /\ at + Len(todo) <= NumPages
  BY DEF Appending
<1>3. at < NumPages
  BY <1>1, <1>2
<1>4. /\ flash' \in Logs /\ flash'[at] = Head(todo)
      /\ \A j \in 0..(NumPages - 1) : j # at => flash'[j] = flash[j]
  BY <1>1, <1>3 DEF Logs
<1>5. ErasedFrom(flash', at + 1)
  BY <1>1, <1>2, <1>4 DEF ErasedFrom
<1>6. at + 1 >= 1 /\ (at + 1) + Len(Tail(todo)) = at + Len(todo)
  BY <1>1
<1>7. CASE at = LogEnd(flash) /\ Whole(todo)
  <2> DEFINE n == Len(todo)
             e == at
  <2>1. ~IsEnd(Head(todo)) /\ EntryPages(Head(todo)) = n /\ \A i \in 2..n : IsEnd(todo[i])
    BY <1>1, <1>7 DEF Whole
  <2>2. Extends(flash', flash, e, n)
    <3>1. ASSUME NEW a \in 0..(NumPages - 1) PROVE /\ a < e => flash'[a] = flash[a]
                                                   /\ e < a /\ a < e + n => IsEnd(flash'[a])
                                                   /\ a >= e + n => flash'[a] = Erased
      <4>1. a < e => flash'[a] = flash[a]
        BY <1>3, <1>4
      <4>2. a > e => flash'[a] = Erased
        BY <1>2, <1>3, <1>4 DEF ErasedFrom
      <4>3. a >= e + n => a > e
        BY <1>1
      <4> QED BY <4>1, <4>2, <4>3, CellFacts
    <3> QED BY <1>4, <2>1, <3>1 DEF Extends
  <2>3. ErasedFrom(flash, e) /\ e = LogEnd(flash) /\ n \in Nat \ {0} /\ e + n <= NumPages /\ e \in Nat
    <3>1. e = LogEnd(flash) /\ ErasedFrom(flash, e)
      BY <1>2, <1>7, Zenon
    <3>2. n \in Nat \ {0} /\ e + n <= NumPages /\ e \in Nat
      BY <1>1, <1>2
    <3> QED BY <3>1, <3>2
  <2>4. LogEnd(flash') = e + n /\ Sound(flash', 1) /\ Visited(flash', 1) = Visited(flash, 1) \cup {e}
    BY <1>4, <2>2, <2>3, EntryAppended
  <2>5. \A j \in Walk(flash', 1) : j >= at + 1 => j = LogEnd(flash')
    <3> SUFFICES ASSUME NEW j \in Walk(flash', 1), j >= at + 1 PROVE j = LogEnd(flash')
      OBVIOUS
    <3>1. CASE AtEnd(flash', j)
      BY <1>4, <3>1, EndUnique, LogEndIs
    <3>2. CASE ~AtEnd(flash', j)
      <4>1. j \in Visited(flash, 1) \cup {e}
        BY <2>4, <3>2 DEF Visited
      <4>2. j \in Nat /\ j # e
        BY <1>4, LogEndIs
      <4>3. j \in Walk(flash, 1)
        BY <4>1, <4>2 DEF Visited
      <4>4. j <= LogEnd(flash)
        BY <4>3, LogEndIs
      <4> QED BY <1>7, <4>2, <4>4
    <3> QED BY <3>1, <3>2
  <2>6. \A i \in 1..Len(Tail(todo)) : IsEnd(Tail(todo)[i])
    <3> SUFFICES ASSUME NEW i \in 1..Len(Tail(todo)) PROVE IsEnd(Tail(todo)[i])
      OBVIOUS
    <3>1. i + 1 \in 2..n
      BY <1>1
    <3> QED BY <1>1, <2>1, <3>1
  <2>7. (at + 1) + Len(Tail(todo)) = LogEnd(flash')
    BY <1>6, <2>4
  <2>8. (at + 1) + Len(Tail(todo)) <= NumPages
    BY <1>2, <1>6
  <2> HIDE DEF n, e
  <2> QED BY <1>3, <1>5, <1>6, <2>4, <2>5, <2>6, <2>7, <2>8 DEF Appending
<1>8. CASE /\ at + Len(todo) = LogEnd(flash)
           /\ \A j \in Walk(flash, 1) : j >= at => j = LogEnd(flash)
           /\ \A i \in 1..Len(todo) : IsEnd(todo[i])
  <2> DEFINE c == Head(todo)
  <2>1. at # LogEnd(flash) /\ at \notin Walk(flash, 1)
    <3>1. at # LogEnd(flash)
      BY <1>1, <1>8
    <3> QED BY <1>8, <3>1
  <2>2. c \in Cells /\ IsEnd(c) /\ Programs(flash', flash, at, c)
    BY <1>1, <1>8 DEF Programs
  <2> HIDE DEF c
  <2>3. Walk(flash', 1) = Walk(flash, 1) /\ LogEnd(flash') = LogEnd(flash) /\ Sound(flash', 1)
    BY <1>3, <2>1, <2>2, PageInside
  <2>4. \A j \in Walk(flash, 1) : j >= at + 1 => j = LogEnd(flash)
    <3>1. \A j \in Walk(flash, 1) : j \in Nat
      BY LogEndIs
    <3>2. \A j \in Walk(flash, 1) : j >= at + 1 => j >= at
      BY <3>1
    <3> QED BY <1>8, <3>2
  <2>5. \A i \in 1..Len(Tail(todo)) : IsEnd(Tail(todo)[i])
    <3> SUFFICES ASSUME NEW i \in 1..Len(Tail(todo)) PROVE IsEnd(Tail(todo)[i])
      OBVIOUS
    <3>1. i + 1 \in 1..Len(todo)
      BY <1>1
    <3> QED BY <1>1, <1>8, <3>1
  <2>6. (at + 1) + Len(Tail(todo)) = LogEnd(flash) /\ (at + 1) + Len(Tail(todo)) <= NumPages
    BY <1>2, <1>6, <1>8
  <2> QED BY <1>3, <1>5, <1>6, <2>3, <2>4, <2>5, <2>6 DEF Appending
<1> QED
  BY <1>7, <1>8 DEF Appending

(* A page that is not erased: its row is to be rewritten.                   *)
LEMMA RewriteStarts ==
  ASSUME StoreInv, UNCHANGED medium, Write, CellAt(at) # Erased, medium # "otp"
  PROVE  StoreInv' /\ damaged
<1> DEFINE n == Min({Len(todo), RowPages - (at % RowPages)})
           r == RowOf(at)
           cells == [i \in 1..RowPages |-> LET a == r * RowPages + i - 1
                                           IN  IF a \in at..(at + n - 1) THEN todo[a - at + 1] ELSE flash[a]]
<1>1. /\ pc = "write" /\ todo # <<>>
      /\ image' = cells /\ todo' = SubSeq(todo, n + 1, Len(todo)) /\ at' = at + n
      /\ row' = r /\ ret' = "write" /\ pc' = "erase"
      /\ UNCHANGED <<medium, flash, off, op, p, copy, res, asked, losses, damaged>>
  BY DEF Write, moving, history
<1>2. /\ TypeOK /\ flash \in Logs /\ NumPages \in Nat \ {0} /\ RowPages \in Nat \ {0} /\ Rows \in Nat
      /\ at \in Nat /\ todo \in Seq(Cells) /\ Len(todo) \in Nat /\ medium = "flash"
  BY StoreFacts DEF StoreInv, Typed
<1>3. at < NumPages /\ flash[at] # Erased
  BY DEF CellAt
<1>4. damaged
  <2>1. flash[at] = Erased \/ ~ErasedFrom(flash, at)
    BY <1>2, <1>3 DEF ErasedFrom
  <2>2. ~damaged => ErasedFrom(flash, at)
    BY <1>1 DEF StoreInv, IntactInv, Appending
  <2>3. damaged \in BOOLEAN
    BY <1>2 DEF TypeOK
  <2> QED BY <1>3, <2>1, <2>2, <2>3
<1>5. n \in Nat /\ n <= Len(todo)
  <2>1. at % RowPages \in Nat /\ RowPages - (at % RowPages) \in Nat
    BY <1>2
  <2>2. \A i, j \in Nat : Min({i, j}) \in Nat /\ Min({i, j}) <= i
    BY MinIs
  <2> QED BY <1>2, <2>1, <2>2
<1>6. r \in Nat /\ r < Rows
  <2>1. at \div RowPages \in Nat /\ (at \div RowPages) * RowPages <= at
    <3>1. \A a \in Nat, b \in Nat \ {0} : a \div b \in Nat /\ b * (a \div b) <= a
      OBVIOUS
    <3>2. at \div RowPages \in Nat /\ RowPages * (at \div RowPages) <= at
      BY <1>2, <3>1
    <3> QED BY <1>2, <3>2
  <2>2. r \in Nat /\ StartOf(r) <= at
    BY <2>1 DEF RowOf, StartOf
  <2> HIDE DEF r
  <2>3. StartOf(r) \in Nat
    BY <2>2, RowFacts
  <2>4. StartOf(r) < NumPages
    BY <1>2, <1>3, <2>2, <2>3
  <2> QED BY <2>2, <2>4, RowFacts
<1>7. StartOf(r) \in Nat /\ StartOf(r) + RowPages <= NumPages
  BY <1>6, RowFacts
<1> HIDE DEF n, r
<1>8. cells \in Seq(Cells) /\ Len(cells) = RowPages
  <2>1. ASSUME NEW i \in 1..RowPages
        PROVE  (IF StartOf(r) + i - 1 \in at..(at + n - 1) THEN todo[(StartOf(r) + i - 1) - at + 1]
                ELSE flash[StartOf(r) + i - 1]) \in Cells
    <3> DEFINE a == StartOf(r) + i - 1
    <3>1. a \in 0..(NumPages - 1)
      BY <1>2, <1>7
    <3> HIDE DEF a
    <3>2. flash[a] \in Cells
      BY <1>2, <3>1 DEF Logs
    <3>3. a \in at..(at + n - 1) => a - at + 1 \in 1..Len(todo)
      BY <1>2, <1>5, <3>1
    <3>4. a \in at..(at + n - 1) => todo[a - at + 1] \in Cells
      BY <1>2, <3>3
    <3> QED BY <3>2, <3>4 DEF a
  <2>2. cells = [i \in 1..RowPages |->
                   IF StartOf(r) + i - 1 \in at..(at + n - 1) THEN todo[(StartOf(r) + i - 1) - at + 1]
                   ELSE flash[StartOf(r) + i - 1]]
    BY DEF StartOf
  <2>3. cells \in [1..RowPages -> Cells]
    BY <2>1, <2>2
  <2> HIDE DEF cells
  <2> QED BY <1>2, <2>3
<1> HIDE DEF cells
<1>9. TypeOK'
  <2>1. todo' \in Seq(Cells) /\ at' \in Nat
    BY <1>1, <1>2, <1>5, SplitIs
  <2>2. row' \in Nat /\ image' \in Seq(Cells) /\ Len(image') <= RowPages
    BY <1>1, <1>2, <1>6, <1>8
  <2> QED BY <1>1, <1>2, <2>1, <2>2 DEF TypeOK
<1>10. image' # <<>>
  BY <1>1, <1>2, <1>8
<1>11. MediumInv' /\ RowInv' /\ IntactInv' /\ ReorgInv'
  BY <1>1, <1>2, <1>4, <1>10 DEF MediumInv, RowInv, IntactInv, ReorgInv
<1> QED
  BY <1>4, <1>9, <1>11 DEF StoreInv, Typed

LEMMA WritePage ==
  ASSUME StoreInv, UNCHANGED medium, Write, CellAt(at) = Erased \/ medium = "otp"
  PROVE  /\ StoreInv' /\ flash \in Logs
         /\ pc = "write" /\ todo # <<>> /\ todo' = Tail(todo) /\ at' = at + 1
         /\ flash' = [flash EXCEPT ![at] = Head(todo)]
         /\ UNCHANGED <<medium, pc, op, p, copy, image, row, off, ret, res, asked, losses, damaged>>
<1>1. /\ pc = "write" /\ todo # <<>>
      /\ flash' = [flash EXCEPT ![at] = Head(todo)] /\ todo' = Tail(todo) /\ at' = at + 1
      /\ UNCHANGED <<medium, pc, op, p, copy, image, row, off, ret, res, asked, losses, damaged>>
  BY DEF Write, moving, rowing, history
<1>2. /\ TypeOK /\ flash \in Logs /\ at \in Nat /\ todo \in Seq(Cells)
  BY StoreFacts DEF StoreInv, Typed
<1>3. Head(todo) \in Cells /\ Tail(todo) \in Seq(Cells)
  BY <1>1, <1>2
<1>4. flash' \in Logs
  BY <1>1, <1>2, <1>3 DEF Logs
<1>5. TypeOK'
  <2>1. at + 1 \in Nat
    BY <1>2
  <2> QED BY <1>1, <1>2, <1>3, <1>4, <2>1 DEF TypeOK, Logs
<1>6. MediumInv' /\ RowInv' /\ ReorgInv'
  BY <1>1 DEF StoreInv, Typed, MediumInv, RowInv, ReorgInv, Moving, Reorganising
<1>7. ASSUME ~damaged PROVE flash'[0] = Header /\ Sound(flash', 1) /\ Appending'
  <2>1. flash[0] = Header /\ Sound(flash, 1) /\ Appending
    BY <1>1, <1>7 DEF StoreInv, IntactInv
  <2>2. at # 0 /\ 0 \in 0..(NumPages - 1)
    BY <1>2, <2>1, LogAssumption DEF Appending
  <2>3. flash'[0] = Header
    BY <1>1, <1>2, <2>1, <2>2 DEF Logs
  <2> QED BY <1>1, <1>2, <2>1, <2>3, AppendPage
<1>8. IntactInv'
  BY <1>1, <1>7 DEF IntactInv
<1> QED
  BY <1>1, <1>2, <1>5, <1>6, <1>8 DEF StoreInv, Typed

LEMMA WriteStep == StoreInv /\ UNCHANGED medium /\ Write => StoreInv'
  BY WritePage, RewriteStarts

LEMMA WriteDoneStep == StoreInv /\ UNCHANGED medium /\ WriteDone => StoreInv'
<1> SUFFICES ASSUME StoreInv, UNCHANGED medium, WriteDone PROVE StoreInv'
  OBVIOUS
<1>1. /\ TypeOK /\ flash \in Logs /\ flash' = flash /\ pc = "write" /\ todo = <<>> /\ Returns("ok")
      /\ asked' \in Changes /\ UNCHANGED <<medium, losses, damaged>>
  BY StoreFacts DEF StoreInv, Typed, WriteDone, Done
<1>2. medium = "otp" => ~damaged
  BY DEF StoreInv, Typed, MediumInv
<1>3. ~damaged => Closed(flash)
  <2> SUFFICES ASSUME ~damaged PROVE Closed(flash)
    OBVIOUS
  <2>1. flash[0] = Header /\ Sound(flash, 1) /\ Appending
    BY <1>1 DEF StoreInv, IntactInv
  <2>2. at \in Nat /\ Len(todo) = 0
    BY <1>1, StoreFacts
  <2>3. at = LogEnd(flash)
    BY <2>1, <2>2 DEF Appending
  <2> QED BY <2>1, <2>3 DEF Appending, Closed
<1> QED
  BY <1>1, <1>2, <1>3, Rests

(***************************************************************************)
(* The theorems about the log                                              *)
(***************************************************************************)
LEMMA Initially == Init => StoreInv
<1> SUFFICES ASSUME Init PROVE StoreInv
  OBVIOUS
<1>1. /\ medium \in {"flash", "otp"} /\ flash = [i \in 0..(NumPages - 1) |-> Erased]
      /\ pc = "off" /\ op = NoChange /\ res = "none" /\ todo = <<>> /\ at = 0 /\ p = 0
      /\ copy = <<>> /\ image = <<>> /\ row = 0 /\ off = 0 /\ ret = "write"
      /\ asked = NoChange /\ losses = 0 /\ damaged = FALSE
  BY DEF Init
<1>2. flash \in Logs /\ ErasedFrom(flash, 0)
  <2>1. flash \in Logs /\ \A j \in 0..(NumPages - 1) : flash[j] = Erased
    BY <1>1, CellFacts DEF Logs
  <2> QED BY <2>1 DEF ErasedFrom
<1>3. TypeOK
  <2>1. RowPages \in Nat /\ MaxPowerLosses \in Nat
    BY RowAssumption
  <2>2. <<>> \in Seq(Cells) /\ Len(<<>>) = 0
    OBVIOUS
  <2>3. NoChange \in [key : Keys \cup {0}, val : Values \cup {Missing}]
    BY DEF NoChange
  <2>4. /\ medium \in {"flash", "otp"} /\ pc = "off" /\ res = "none" /\ ret = "write"
        /\ damaged \in BOOLEAN /\ flash \in [0..(NumPages - 1) -> Cells]
    BY <1>1, <1>2 DEF Logs
  <2>5. /\ op = NoChange /\ asked = NoChange /\ todo = <<>> /\ at = 0 /\ p = 0 /\ copy = <<>>
        /\ image = <<>> /\ row = 0 /\ off = 0 /\ losses = 0
    BY <1>1
  <2> QED BY <2>1, <2>2, <2>3, <2>4, <2>5 DEF TypeOK
<1>4. MediumInv /\ RowInv /\ ReorgInv
  BY <1>1 DEF MediumInv, RowInv, ReorgInv, Moving, Reorganising
<1>5. IntactInv
  BY <1>1, <1>2 DEF IntactInv
<1> QED
  BY <1>3, <1>4, <1>5 DEF StoreInv, Typed

LEMMA Stutters == StoreInv /\ UNCHANGED vars => StoreInv'
<1> SUFFICES ASSUME StoreInv, UNCHANGED vars PROVE StoreInv'
  OBVIOUS
<1>1. UNCHANGED <<medium, flash, pc, op, todo, at, p, copy, image, row, off, ret, res, asked, losses, damaged>>
  BY DEF vars, writing, moving, rowing, history
<1>2. TypeOK' /\ MediumInv' /\ RowInv'
  BY <1>1 DEF StoreInv, Typed, TypeOK, MediumInv, RowInv
<1>3. IntactInv'
  BY <1>1 DEF StoreInv, IntactInv, Appending
<1>4. Programmed' = Programmed /\ NewEnd' = NewEnd
  BY <1>1 DEF Programmed, NewEnd
<1>5. New' = New
  BY <1>1, <1>4 DEF New, CarriedAt
<1>6. Place' = Place
  BY <1>1, <1>5 DEF Place, Last
<1>7. Moving' = Moving /\ Collecting' = Collecting
  BY <1>1 DEF Moving, Collecting
<1>8. CopiedInv' = CopiedInv
  BY <1>1, <1>5, <1>6 DEF CopiedInv, Behind
<1>9. ReorgInv'
  BY <1>1, <1>4, <1>5, <1>6, <1>7, <1>8 DEF StoreInv, ReorgInv
<1> QED
  BY <1>2, <1>3, <1>9 DEF StoreInv, Typed

LEMMA Steps == StoreInv /\ [Next]_vars => StoreInv'
<1> SUFFICES ASSUME StoreInv, [Next]_vars PROVE StoreInv'
  OBVIOUS
<1>1. CASE Next
  <2>1. UNCHANGED medium
    BY <1>1 DEF Next, Step
  <2>2. CASE Open \/ OpenOtp \/ Format
    BY <2>1, <2>2, OpenStep, OpenOtpStep, FormatStep
  <2>3. CASE Skip \/ Collect \/ CollectRow \/ ScanEnds \/ Advance \/ Clear
    BY <2>1, <2>3, SkipStep, CollectStep, CollectRowStep, ScanEndsStep, AdvanceStep, ClearStep
  <2>4. CASE Erase \/ Program \/ Write \/ WriteDone
    BY <2>1, <2>4, EraseRowStep, ProgramStep, WriteStep, WriteDoneStep
  <2>5. CASE PowerLoss
    BY <2>1, <2>5, PowerLossStep
  <2>6. CASE Operation
    <3>1. CASE Read \/ ReorgProperties
      BY <2>1, <3>1, ReadStep, ReorgStep
    <3>2. ASSUME NEW k \in Keys, EraseProperty(k) PROVE StoreInv'
      BY <2>1, <3>2, EraseStep
    <3>3. ASSUME NEW k \in Keys, NEW v \in Values, SetProperty(k, v) PROVE StoreInv'
      BY <2>1, <3>3, SetStep
    <3> QED BY <2>6, <3>1, <3>2, <3>3 DEF Operation
  <2> QED BY <1>1, <2>2, <2>3, <2>4, <2>5, <2>6 DEF Next, Step
<1>2. CASE UNCHANGED vars
  BY <1>2, Stutters
<1> QED
  BY <1>1, <1>2

(* The inductive invariant.                                                 *)
THEOREM StoreInvariant == Spec => []StoreInv
  BY Initially, Steps, PTL DEF Spec

(* Nothing of an intact store lies outside of it.                           *)
LEMMA StaysWithin == StoreInv => WithinStore
<1> SUFFICES ASSUME StoreInv, ~damaged PROVE WithinStore
  BY DEF WithinStore
<1>1. TypeOK
  BY DEF StoreInv, Typed
<1>2. pc = "write" => at + Len(todo) <= NumPages
  BY DEF StoreInv, IntactInv, Appending
<1>3. pc = "scan" => p <= NumPages
  BY ScanFinds DEF Ahead
<1>4. pc = "advance" => p <= NumPages
  <2>1. p \in Nat /\ NumPages \in Nat
    BY <1>1, StoreFacts
  <2>2. pc = "advance" => p < NumPages
    BY DEF StoreInv, Typed, RowInv
  <2> QED BY <2>1, <2>2
<1>5. pc \in {"erase", "program"} => row < Rows
  BY RowFinds
<1> QED
  BY <1>2, <1>3, <1>4, <1>5 DEF WithinStore

(* The log of the store ends at an erased page and never inside a value,    *)
(* and no location leaves the store, whatever is written, cut short by a    *)
(* power loss or reorganised: for every size of store, row and page, every  *)
(* set of keys and values (NVProperty_MBEDFlash.cpp and                     *)
(* NVProperty_L4OTP.cpp).  A reorganisation cut short, and one that loses   *)
(* its place (line 712), are left out: damaged.                             *)
THEOREM LogStaysAligned == Spec => []LogInv
<1>1. StoreInv => LogInv
  <2> SUFFICES ASSUME StoreInv PROVE LogInv
    OBVIOUS
  <2>1. ASSUME ~damaged, pc = "idle", LogEnd(flash) < NumPages
        PROVE  flash[LogEnd(flash)].kind = "erased"
    <3>1. flash \in Logs
      BY StoreFacts DEF StoreInv, Typed
    <3>2. LogEnd(flash) \in 0..(NumPages - 1)
      BY <2>1, <3>1, LogEndIs, LogAssumption
    <3>3. flash[LogEnd(flash)] = Erased
      BY <2>1, <3>2 DEF StoreInv, IntactInv, Closed, ErasedFrom
    <3> QED BY <3>3 DEF Erased
  <2> QED BY <2>1, StaysWithin DEF StoreInv, Typed, LogInv, Aligned
<1> QED
  BY <1>1, StoreInvariant, PTL

(* No page is programmed that is not erased, and what is programmed in      *)
(* one-time programmable memory stays (_FlashWrite, _FlashErase, _OTPWrite).*)
THEOREM PagesProgrammedOnce == Spec => ProgrammedOnce
<1> DEFINE Once == \A a \in DOMAIN flash : flash[a] # Erased /\ flash'[a] # flash[a]
                     => medium = "flash" /\ flash'[a] = Erased
<1>1. StoreInv /\ [Next]_vars => [Once]_vars
  <2> SUFFICES ASSUME StoreInv, Next, flash' # flash PROVE Once
    BY DEF vars
  <2>0. /\ flash \in Logs /\ NumPages \in Nat \ {0} /\ medium \in {"flash", "otp"}
        /\ DOMAIN flash = 0..(NumPages - 1)
    BY StoreFacts DEF StoreInv, Typed, Logs
  <2>1. ASSUME NEW r, EraseRow(r), medium = "flash" PROVE Once
    BY <2>1 DEF EraseRow
  <2>2. ASSUME NEW e, NEW c, flash' = [flash EXCEPT ![e] = c], e \in DOMAIN flash => flash[e] = Erased
        PROVE  Once
    BY <2>0, <2>2 DEF Logs
  <2> HIDE DEF Once
  <2>3. CASE OpenOtp
    BY <2>2, <2>3 DEF OpenOtp, Initialise
  <2>4. CASE Format
    <3>1. /\ medium = "flash" /\ row \in Nat
          /\ \A j \in 0..(NumPages - 1) : j < StartOf(row) => flash[j] = Erased
      BY <2>0, <2>4, StoreFacts DEF Format, StoreInv, Typed, MediumInv, RowInv
    <3>2. CASE row < Rows
      BY <2>1, <2>4, <3>1, <3>2 DEF Format
    <3>3. CASE ~(row < Rows)
      <4>1. StartOf(row) >= NumPages /\ StartOf(row) \in Nat
        BY <3>1, <3>3, RowFacts
      <4>2. flash[0] = Erased
        BY <2>0, <3>1, <4>1
      <4> QED BY <2>2, <2>4, <3>3, <4>2 DEF Format, Initialise
    <3> QED BY <3>2, <3>3
  <2>5. CASE Clear
    <3>1. medium = "flash"
      BY <2>5, MoveFacts DEF Clear, Reorganising
    <3>2. row < Rows
      BY <2>5 DEF Clear, Reorganised, Done
    <3> QED BY <2>1, <2>5, <3>1, <3>2 DEF Clear
  <2>6. CASE Erase
    <3>1. medium = "flash"
      BY <2>6, MoveFacts DEF Erase
    <3> QED BY <2>1, <2>6, <3>1 DEF Erase
  <2>7. CASE Program
    <3>1. /\ pc = "program" /\ StartOf(row) \in Nat /\ off \in Nat /\ off < Len(image)
          /\ Len(image) \in Nat /\ Len(image) <= RowPages /\ RowPages \in Nat
          /\ \A j \in 0..(NumPages - 1) :
               StartOf(row) + off <= j /\ j < StartOf(row) + RowPages => flash[j] = Erased
      BY <2>7, MoveFacts DEF Program, StoreInv, Typed, RowInv
    <3>2. StartOf(row) + off \in DOMAIN flash => flash[StartOf(row) + off] = Erased
      BY <2>0, <3>1
    <3> QED BY <2>2, <2>7, <3>2 DEF Program, StartOf
  <2>8. CASE Write
    <3>1. medium = "otp" /\ at \in DOMAIN flash => flash[at] = Erased
      <4> SUFFICES ASSUME medium = "otp", at \in DOMAIN flash PROVE flash[at] = Erased
        OBVIOUS
      <4>1. ErasedFrom(flash, at)
        BY <2>8 DEF Write, StoreInv, Typed, MediumInv, IntactInv, Appending
      <4> QED BY <2>0, <4>1 DEF ErasedFrom
    <3>2. /\ at \in DOMAIN flash => flash[at] = Erased
          /\ flash' = [flash EXCEPT ![at] = Head(todo)]
      <4>1. CASE CellAt(at) = Erased \/ medium = "otp"
        <5>1. CellAt(at) = Erased /\ at \in DOMAIN flash => flash[at] = Erased
          BY <2>0 DEF CellAt
        <5> QED BY <2>8, <3>1, <4>1, <5>1 DEF Write
      <4>2. CASE ~(CellAt(at) = Erased \/ medium = "otp")
        BY <2>8, <4>2 DEF Write
      <4> QED BY <4>1, <4>2
    <3> QED BY <2>2, <3>2
  <2> QED
    BY <2>3, <2>4, <2>5, <2>6, <2>7, <2>8
       DEF Next, Step, Operation, Open, Skip, Collect, CollectRow, ScanEnds, Advance, WriteDone,
           PowerLoss, Read, ReorgProperties, EraseProperty, SetProperty, AppendEntry, StartWrite,
           StartReorg, Answers, Done, history
<1>2. Spec => [][Once]_vars
  BY <1>1, StoreInvariant, PTL DEF Spec
<1> QED
  BY <1>2 DEF ProgrammedOnce

(***************************************************************************)
(* What the log means                                                      *)
(***************************************************************************)

(* The values the store can give back: with the one-byte length of an entry *)
(* a text has less than 255 bytes and a blob less than 256.                 *)
Storable ==
  \A v \in Values : /\ NeededPages(v) = ValuePages(v)
                    /\ v.type = "str" => v.n < CopyLen(v)
                    /\ v.type = "blob" => v.n = DLen(v)

(* The entries of a key from a page on, and what the last of them leaves.   *)
Mine(log, k, i)  == {j \in Visited(log, i) : KeyAt(log, j, k)}
Means(log, j)    == IF log[j].kind = "entry" THEN ReadEntry(log, j) ELSE Missing
After(log, k, i) == IF Mine(log, k, i) = {} THEN Missing ELSE Means(log, Max(Mine(log, k, i)))

(* The cells of a change, and what it may leave when it is cut short.       *)
Parts(c) == IF c = NoChange THEN <<>>
            ELSE IF c.val = Missing THEN <<Deletion(c.key)>> ELSE Encode(c.key, c.val)

Outcomes(c) == {c.val} \cup (IF Cost(c.val) > 1 THEN {Garbled} ELSE {})

LeftBy(m, c) == {m} \cup (IF c = NoChange THEN {} ELSE {[m EXCEPT ![c.key] = v] : v \in Outcomes(c)})

(* The first n cells of the change are written, where the log ended.        *)
Begun(n) ==
  /\ at - n \in Visited(flash, 1) /\ at - n + Len(Parts(op)) = LogEnd(flash)
  /\ \A i \in 1..n : flash[at - n + i - 1] = Parts(op)[i]
  /\ \A k \in Keys : k # op.key => Get(flash, k) = shown[k]

WriteMeans ==
  /\ op # NoChange
  /\ \E n \in 0..Len(Parts(op)) :
       /\ todo = SubSeq(Parts(op), n + 1, Len(Parts(op)))
       /\ IF n = 0 THEN at = LogEnd(flash) /\ View(flash) = shown ELSE Begun(n)

(* Every value is in the log about to be left or, alone, in what is still   *)
(* to be read of the old one.                                               *)
Saves(new, log, i, m) ==
  \A k \in Keys : IF Mine(log, k, i) = {} THEN Get(new, k) = m[k]
                  ELSE Mine(new, k, 1) = {} /\ After(log, k, i) = m[k]

(* What the store is said to hold is what it holds while it is idle.        *)
ShownInv ==
  /\ shown \in [Keys -> Values \cup {Missing, Garbled}]
  /\ op.key = 0 => op = NoChange
  /\ asked.key = 0 => asked = NoChange
  /\ pc = "idle" => shown = View(flash)
  /\ pc \in {"off", "format"} => res = "none" /\ asked = NoChange

(* What an intact store holds while something is under way.                 *)
IntactMeans ==
  /\ pc = "idle" => op = NoChange
  /\ pc \in {"off", "format"} /\ flash[0] # Header => op = NoChange /\ shown = Nothing
  /\ pc = "off" /\ flash[0] = Header => View(flash) \in LeftBy(shown, op)
  /\ pc = "write" => WriteMeans
  /\ Moving => /\ todo = Parts(op)
                /\ IF Collecting THEN Saves(New, flash, Place, shown) ELSE View(New) = shown

MeaningInv == ShownInv /\ (~damaged => IntactMeans)

LEMMA EntryIs ==
  ASSUME NEW c \in Cells
  PROVE  /\ c.kind = "entry" => c.key \in Keys /\ c.val \in Values /\ c = Entry(c.key, c.val)
         /\ c.kind = "deletion" => c.key \in Keys /\ c = Deletion(c.key)
  BY DEF Cells, Erased, Header, Entry, Deletion, Data

LEMMA ValueIs ==
  ASSUME NEW v \in Values
  PROVE  v # Missing /\ v # Garbled /\ v.type \in {"int", "str", "blob"} /\ Missing # Garbled
  BY ValueAssumption DEF Missing, Garbled

LEMMA MaxOf ==
  ASSUME NEW S \in SUBSET Nat, NEW i \in S, \A j \in S : j <= i
  PROVE  Max(S) = i
<1>1. i \in Nat
  OBVIOUS
<1>2. Max(S) \in S /\ \A j \in S : j <= Max(S)
  BY <1>1, MaxIs
<1>3. Max(S) \in Nat /\ i <= Max(S) /\ Max(S) <= i
  BY <1>2
<1> QED
  BY <1>1, <1>3

(* The entries of a key, one entry of the log after the other.              *)
LEMMA MineIs ==
  ASSUME NEW log \in Logs, NEW i \in Nat, NEW k \in Keys
  PROVE  /\ Mine(log, k, i) \in SUBSET Nat
         /\ \A j \in Mine(log, k, i) : i <= j /\ j < NumPages /\ KeyAt(log, j, k) /\ log[j] \in Cells
         /\ Mine(log, k, i) # {} => /\ Max(Mine(log, k, i)) \in Mine(log, k, i)
                                    /\ \A j \in Mine(log, k, i) : j <= Max(Mine(log, k, i))
         /\ AtEnd(log, i) => Mine(log, k, i) = {}
         /\ ~AtEnd(log, i) => Mine(log, k, i) = (IF KeyAt(log, i, k) THEN {i} ELSE {})
                                                \cup Mine(log, k, Behind(log, i))
<1>1. /\ Mine(log, k, i) \in SUBSET Nat
      /\ \A j \in Mine(log, k, i) : i <= j /\ j < NumPages /\ KeyAt(log, j, k) /\ log[j] \in Cells
  BY VisitedIs DEF Mine
<1>2. Mine(log, k, i) # {} => /\ Max(Mine(log, k, i)) \in Mine(log, k, i)
                              /\ \A j \in Mine(log, k, i) : j <= Max(Mine(log, k, i))
  <2>1. NumPages \in Nat /\ \A j \in Mine(log, k, i) : j <= NumPages
    BY <1>1, LogAssumption
  <2> QED BY <1>1, <2>1, MaxIs
<1>3. AtEnd(log, i) => Mine(log, k, i) = {}
  BY VisitedIs DEF Mine
<1>4. ~AtEnd(log, i) => Mine(log, k, i) = (IF KeyAt(log, i, k) THEN {i} ELSE {})
                                          \cup Mine(log, k, Behind(log, i))
  BY VisitedIs DEF Mine
<1> QED
  BY <1>1, <1>2, <1>3, <1>4

(* Behind an entry, the last one is the same if there is one.               *)
LEMMA LatestBehind ==
  ASSUME NEW log \in Logs, NEW i \in Nat, NEW k \in Keys, ~AtEnd(log, i), Mine(log, k, Behind(log, i)) # {}
  PROVE  Mine(log, k, i) # {} /\ Max(Mine(log, k, i)) = Max(Mine(log, k, Behind(log, i)))
<1> DEFINE M == Mine(log, k, i)
           B == Mine(log, k, Behind(log, i))
<1>1. Behind(log, i) \in Nat /\ Behind(log, i) > i
  BY BehindIs
<1>2. M \in SUBSET Nat /\ M = (IF KeyAt(log, i, k) THEN {i} ELSE {}) \cup B
  BY MineIs
<1>3. \A j \in B : j \in Nat /\ j > i
  BY <1>1, MineIs
<1>4. Max(B) \in B /\ \A j \in B : j <= Max(B)
  BY <1>1, MineIs
<1>5. Max(B) \in M /\ \A j \in M : j <= Max(B)
  BY <1>2, <1>3, <1>4
<1>6. Max(M) = Max(B)
  <2> HIDE DEF M, B
  <2> QED BY <1>2, <1>5, MaxOf
<1> QED
  BY <1>5, <1>6

LEMMA AfterIs ==
  ASSUME NEW log \in Logs, NEW i \in Nat, NEW k \in Keys
  PROVE  /\ AtEnd(log, i) => After(log, k, i) = Missing
         /\ ~AtEnd(log, i) =>
              After(log, k, i) = IF Mine(log, k, Behind(log, i)) # {} THEN After(log, k, Behind(log, i))
                                 ELSE IF KeyAt(log, i, k) THEN Means(log, i) ELSE Missing
<1>1. AtEnd(log, i) => After(log, k, i) = Missing
  BY MineIs DEF After
<1>2. ASSUME ~AtEnd(log, i)
      PROVE  After(log, k, i) = IF Mine(log, k, Behind(log, i)) # {} THEN After(log, k, Behind(log, i))
                                 ELSE IF KeyAt(log, i, k) THEN Means(log, i) ELSE Missing
  <2> DEFINE M == Mine(log, k, i)
             B == Mine(log, k, Behind(log, i))
  <2>1. B = {} => M = IF KeyAt(log, i, k) THEN {i} ELSE {}
    BY <1>2, MineIs
  <2>2. B # {} => M # {} /\ Max(M) = Max(B)
    BY <1>2, LatestBehind
  <2>3. Max({i}) = i
    BY MaxOf
  <2> QED BY <2>1, <2>2, <2>3 DEF After
<1> QED
  BY <1>1, <1>2

LEMMA GetIs ==
  ASSUME NEW log \in Logs, NEW k \in Keys
  PROVE  Get(log, k) = After(log, k, 1)
<1> DEFINE M == Mine(log, k, 1)
<1>1. GetFlashEntry(log, k, 1) = {j \in M : j = Max(M) /\ log[j].kind = "entry"}
  BY DEF GetFlashEntry, Mine
<1>2. M \in SUBSET Nat /\ (M # {} => Max(M) \in M)
  BY MineIs
<1>3. CASE M # {} /\ log[Max(M)].kind = "entry"
  <2>1. GetFlashEntry(log, k, 1) = {Max(M)}
    BY <1>1, <1>2, <1>3
  <2>2. Max({Max(M)}) = Max(M)
    <3>1. Max(M) \in Nat
      BY <1>2, <1>3
    <3> QED BY <3>1, MaxOf
  <2> QED BY <1>3, <2>1, <2>2 DEF Get, After, Means
<1>4. CASE ~(M # {} /\ log[Max(M)].kind = "entry")
  <2>1. GetFlashEntry(log, k, 1) = {}
    BY <1>1, <1>2, <1>4
  <2> QED BY <1>4, <2>1 DEF Get, After, Means
<1> QED
  BY <1>3, <1>4

LEMMA MeansTyped ==
  ASSUME NEW log \in Logs, NEW j \in Nat, j < NumPages
  PROVE  /\ Means(log, j) \in Values \cup {Missing, Garbled}
         /\ Means(log, j) \in {Missing, Garbled} \/ Means(log, j) = log[j].val
  <1>1. log[j] \in Cells
    BY LogAssumption DEF Logs
  <1> QED BY <1>1, EntryIs DEF Means, ReadEntry

LEMMA AfterTyped ==
  ASSUME NEW log \in Logs, NEW i \in Nat, NEW k \in Keys
  PROVE  After(log, k, i) \in Values \cup {Missing, Garbled}
<1> DEFINE M == Mine(log, k, i)
<1>1. CASE M = {}
  BY <1>1 DEF After
<1>2. CASE M # {}
  <2>1. Max(M) \in Nat /\ Max(M) < NumPages
    BY <1>2, MineIs
  <2> QED BY <1>2, <2>1, MeansTyped DEF After
<1> QED
  BY <1>1, <1>2

LEMMA ViewTyped ==
  ASSUME NEW log \in Logs
  PROVE  View(log) \in [Keys -> Values \cup {Missing, Garbled}] /\ \A k \in Keys : View(log)[k] = After(log, k, 1)
  BY GetIs, AfterTyped DEF View

LEMMA LatestIs ==
  ASSUME NEW log \in Logs, NEW i \in Nat, ~AtEnd(log, i)
  PROVE  IsLatest(log, i) <=> /\ log[i].kind = "entry"
                              /\ Mine(log, log[i].key, Behind(log, i)) = {}
<1>1. log[i] \in Cells /\ i < NumPages /\ Behind(log, i) \in Nat /\ Behind(log, i) > i
  BY BehindIs
<1>2. ASSUME NEW k \in Keys, KeyAt(log, i, k)
      PROVE  i \in GetFlashEntry(log, k, i) <=> log[i].kind = "entry" /\ Mine(log, k, Behind(log, i)) = {}
  <2> DEFINE M == Mine(log, k, i)
             B == Mine(log, k, Behind(log, i))
  <2>1. GetFlashEntry(log, k, i) = {j \in M : j = Max(M) /\ log[j].kind = "entry"}
    BY DEF GetFlashEntry, Mine
  <2>2. M \in SUBSET Nat /\ M = {i} \cup B
    BY <1>2, MineIs
  <2>3. \A j \in B : j \in Nat /\ j > i
    BY <1>1, MineIs
  <2>4. i = Max(M) <=> B = {}
    <3>1. CASE B = {}
      <4>1. Max({i}) = i
        BY MaxOf
      <4> QED BY <2>2, <3>1, <4>1
    <3>2. CASE B # {}
      <4>1. Max(M) \in M /\ \A j \in M : j <= Max(M)
        BY <2>2, MineIs
      <4> QED BY <2>2, <2>3, <3>2, <4>1
    <3> QED BY <3>1, <3>2
  <2> QED BY <2>1, <2>2, <2>4
<1>3. log[i].kind = "entry" => log[i].key \in Keys /\ KeyAt(log, i, log[i].key)
  BY <1>1, EntryIs DEF KeyAt
<1>4. \A k \in Keys : KeyAt(log, i, k) => k = log[i].key
  BY DEF KeyAt
<1> QED
  BY <1>2, <1>3, <1>4 DEF IsLatest

(***************************************************************************)
(* The room values take                                                    *)
(***************************************************************************)

(* The pages of the entry of a key that counts, and those of all keys.      *)
PagesOf(log, k, i) ==
  IF Mine(log, k, i) = {} THEN 0
  ELSE LET j == Max(Mine(log, k, i)) IN IF log[j].kind = "entry" THEN EntryPages(log[j]) ELSE 0

Taken(log, i) == UNION {{k} \X (1..PagesOf(log, k, i)) : k \in Keys}

LEMMA PagesOfIs ==
  ASSUME NEW log \in Logs, NEW i \in Nat, NEW k \in Keys
  PROVE  /\ PagesOf(log, k, i) \in Nat
         /\ AtEnd(log, i) => PagesOf(log, k, i) = 0
         /\ ~AtEnd(log, i) =>
              PagesOf(log, k, i) = IF Mine(log, k, Behind(log, i)) # {} THEN PagesOf(log, k, Behind(log, i))
                                   ELSE IF KeyAt(log, i, k) /\ log[i].kind = "entry"
                                     THEN EntryPages(log[i]) ELSE 0
<1>1. PagesOf(log, k, i) \in Nat
  <2>1. ASSUME Mine(log, k, i) # {} PROVE EntryPages(log[Max(Mine(log, k, i))]) \in Nat
    <3>1. log[Max(Mine(log, k, i))] \in Cells
      BY <2>1, MineIs
    <3> QED BY <3>1, EntryPagesIs
  <2> QED BY <2>1 DEF PagesOf
<1>2. AtEnd(log, i) => PagesOf(log, k, i) = 0
  BY MineIs DEF PagesOf
<1>3. ASSUME ~AtEnd(log, i)
      PROVE  PagesOf(log, k, i) = IF Mine(log, k, Behind(log, i)) # {} THEN PagesOf(log, k, Behind(log, i))
                                  ELSE IF KeyAt(log, i, k) /\ log[i].kind = "entry"
                                    THEN EntryPages(log[i]) ELSE 0
  <2> DEFINE M == Mine(log, k, i)
             B == Mine(log, k, Behind(log, i))
  <2>1. B = {} => M = IF KeyAt(log, i, k) THEN {i} ELSE {}
    BY <1>3, MineIs
  <2>2. B # {} => M # {} /\ Max(M) = Max(B)
    BY <1>3, LatestBehind
  <2>3. Max({i}) = i
    BY MaxOf
  <2> QED BY <2>1, <2>2, <2>3 DEF PagesOf
<1> QED
  BY <1>1, <1>2, <1>3

LEMMA InTaken ==
  ASSUME NEW log, NEW i, NEW x
  PROVE  x \in Taken(log, i) <=> \E k \in Keys : \E n \in 1..PagesOf(log, k, i) : x = <<k, n>>
  BY DEF Taken

(* They are as many as the live entries have.                               *)
LEMMA TakenIs ==
  ASSUME NEW log \in Logs, NEW i \in Nat
  PROVE  IsFiniteSet(Taken(log, i)) /\ Cardinality(Taken(log, i)) = LiveFrom(log, i)
<1> DEFINE P(j) == IsFiniteSet(Taken(log, j)) /\ Cardinality(Taken(log, j)) = LiveFrom(log, j)
           S == {j \in Nat : P(j)}
<1>1. ASSUME NEW j \in Nat, AtEnd(log, j) PROVE P(j)
  <2>1. Taken(log, j) = {}
    <3>1. \A x : x \notin Taken(log, j)
      BY <1>1, PagesOfIs, InTaken
    <3> QED BY <3>1
  <2>2. LiveFrom(log, j) = 0
    BY <1>1, LiveFromIs
  <2> QED BY <2>1, <2>2, FS_EmptySet
<1>2. ASSUME NEW j \in Nat, ~AtEnd(log, j), Behind(log, j) \in S PROVE P(j)
  <2> DEFINE b == Behind(log, j)
             l == log[j].key
             n == EntryPages(log[j])
  <2>1. b \in Nat /\ IsFiniteSet(Taken(log, b)) /\ Cardinality(Taken(log, b)) = LiveFrom(log, b)
    BY <1>2
  <2>2. log[j] \in Cells /\ n \in Nat
    BY <1>2, BehindIs, EntryPagesIs
  <2>3. LiveFrom(log, b) \in Nat /\ LiveFrom(log, j) = LiveFrom(log, b) + IF IsLatest(log, j) THEN n ELSE 0
    BY <1>2, <2>1, LiveFromIs
  <2>4. CASE ~IsLatest(log, j)
    <3>1. ASSUME NEW k \in Keys PROVE PagesOf(log, k, j) = PagesOf(log, k, b)
      <4>1. Mine(log, k, b) = {} => ~(KeyAt(log, j, k) /\ log[j].kind = "entry")
        BY <1>2, <2>4, LatestIs DEF KeyAt
      <4> QED BY <1>2, <4>1, PagesOfIs DEF PagesOf
    <3>2. Taken(log, j) = Taken(log, b)
      <4>1. \A x : x \in Taken(log, j) <=> x \in Taken(log, b)
        BY <3>1, InTaken
      <4> QED BY <4>1
    <3> QED BY <2>1, <2>3, <2>4, <3>2
  <2>5. CASE IsLatest(log, j)
    <3>1. log[j].kind = "entry" /\ l \in Keys /\ Mine(log, l, b) = {} /\ KeyAt(log, j, l)
      BY <1>2, <2>2, <2>5, LatestIs, EntryIs DEF KeyAt
    <3>2. PagesOf(log, l, j) = n /\ PagesOf(log, l, b) = 0
      BY <1>2, <2>1, <3>1, PagesOfIs DEF PagesOf
    <3>3. ASSUME NEW k \in Keys, k # l PROVE PagesOf(log, k, j) = PagesOf(log, k, b)
      <4>1. ~KeyAt(log, j, k)
        BY <3>3 DEF KeyAt
      <4> QED BY <1>2, <4>1, PagesOfIs DEF PagesOf
    <3>4. Taken(log, j) = Taken(log, b) \cup ({l} \X (1..n))
      <4>1. \A x : x \in Taken(log, j) <=> x \in Taken(log, b) \/ \E m \in 1..n : x = <<l, m>>
        BY <3>1, <3>2, <3>3, InTaken
      <4> QED BY <4>1
    <3>5. Taken(log, b) \cap ({l} \X (1..n)) = {}
      BY <3>2, InTaken
    <3>6. IsFiniteSet({l} \X (1..n)) /\ Cardinality({l} \X (1..n)) = n
      <4>0. IsFiniteSet({l}) /\ Cardinality({l}) = 1
        BY FS_Singleton, Zenon
      <4>1. IsFiniteSet({l}) /\ Cardinality({l}) = 1 /\ IsFiniteSet(1..n) /\ Cardinality(1..n) = n
        BY <2>2, <4>0, FS_Interval
      <4>2. IsFiniteSet({l} \X (1..n)) /\ Cardinality({l} \X (1..n)) = Cardinality({l}) * Cardinality(1..n)
        BY <4>1, FS_Product
      <4> QED BY <2>2, <4>1, <4>2
    <3>7. /\ IsFiniteSet(Taken(log, j))
          /\ Cardinality(Taken(log, j)) = Cardinality(Taken(log, b)) + Cardinality({l} \X (1..n)) - Cardinality({})
      BY <2>1, <3>4, <3>5, <3>6, FS_Union
    <3>8. Cardinality({}) = 0
      BY FS_EmptySet
    <3> HIDE DEF b, l, n
    <3> QED BY <2>1, <2>2, <2>3, <2>5, <3>6, <3>7, <3>8
  <2> QED BY <2>4, <2>5
<1>3. S = Nat
  <2> HIDE DEF P
  <2>1. \A j \in Nat : AtEnd(log, j) => j \in S
    BY <1>1
  <2>2. \A j \in Nat : ~AtEnd(log, j) /\ Behind(log, j) \in S => j \in S
    BY <1>2
  <2> QED BY <2>1, <2>2, AlongLog
<1> QED
  BY <1>3

(* What the values take is what NoSpaceFor counts.                          *)
LEMMA UsedIs ==
  ASSUME NEW log \in Logs
  PROVE  /\ PM!Used(View(log)) \in Nat /\ PM!Used(View(log)) <= LivePages(log)
         /\ (\A k \in Keys : View(log)[k] # Garbled) => PM!Used(View(log)) = LivePages(log)
<1> DEFINE U == UNION {{k} \X (1..Cost(View(log)[k])) : k \in Keys}
<1>1. ASSUME NEW k \in Keys
      PROVE  /\ Cost(View(log)[k]) \in Nat /\ Cost(View(log)[k]) <= PagesOf(log, k, 1)
             /\ View(log)[k] # Garbled => Cost(View(log)[k]) = PagesOf(log, k, 1)
  <2> DEFINE M == Mine(log, k, 1)
             j == Max(M)
  <2>0. View(log)[k] = After(log, k, 1) /\ PagesOf(log, k, 1) \in Nat
    BY ViewTyped, PagesOfIs
  <2>2. CASE M = {}
    BY <2>0, <2>2 DEF After, PagesOf, Cost
  <2>3. CASE M # {}
    <3>1. j \in Nat /\ j < NumPages /\ log[j] \in Cells
      BY <2>3, MineIs
    <3>2. View(log)[k] = Means(log, j)
      BY <2>0, <2>3 DEF After
    <3>3. CASE log[j].kind = "entry" /\ View(log)[k] # Garbled
      <4>1. View(log)[k] = log[j].val /\ log[j].val \in Values
        BY <3>1, <3>2, <3>3, EntryIs DEF Means, ReadEntry
      <4>2. Cost(View(log)[k]) = EntryPages(log[j])
        BY <3>3, <4>1, ValueIs DEF Cost, EntryPages
      <4>3. Cost(View(log)[k]) = PagesOf(log, k, 1)
        BY <2>3, <3>3, <4>2 DEF PagesOf
      <4> QED BY <2>0, <4>3
    <3>4. CASE View(log)[k] = Garbled
      BY <2>0, <3>4 DEF Cost
    <3>5. CASE log[j].kind # "entry"
      BY <2>3, <3>2, <3>5 DEF PagesOf, Means, Cost
    <3> QED BY <3>3, <3>4, <3>5
  <2> QED BY <2>2, <2>3
<1>2. U \subseteq Taken(log, 1) /\ ((\A k \in Keys : View(log)[k] # Garbled) => U = Taken(log, 1))
  <2>1. \A k \in Keys : 1..Cost(View(log)[k]) \subseteq 1..PagesOf(log, k, 1)
    BY <1>1, PagesOfIs
  <2>2. U \subseteq Taken(log, 1)
    BY <2>1 DEF Taken
  <2>3. (\A k \in Keys : View(log)[k] # Garbled) => U = Taken(log, 1)
    BY <1>1 DEF Taken
  <2> QED BY <2>2, <2>3
<1>3. PM!Used(View(log)) = Cardinality(U)
  <2>1. \A S : PM!Cardinality(S) = Cardinality(S)
    BY Zenon DEF PM!Cardinality, Cardinality
  <2> QED BY <2>1 DEF PM!Used
<1> HIDE DEF U
<1>4. IsFiniteSet(Taken(log, 1)) /\ Cardinality(Taken(log, 1)) = LivePages(log)
  BY TakenIs, LivePagesIs
<1>5. IsFiniteSet(U) /\ Cardinality(U) \in Nat /\ Cardinality(U) <= Cardinality(Taken(log, 1))
  <2>1. IsFiniteSet(U) /\ Cardinality(U) <= Cardinality(Taken(log, 1))
    BY <1>2, <1>4, FS_Subset
  <2> QED BY <2>1, FS_CardinalityType
<1> QED
  BY <1>2, <1>3, <1>4, <1>5

(***************************************************************************)
(* What is written and what is left as it was                              *)
(***************************************************************************)
LEMMA SameBehind ==
  ASSUME NEW l1 \in Logs, NEW l2 \in Logs, NEW i \in Nat,
         \A j \in Nat : i <= j /\ j < NumPages => l1[j] = l2[j], NEW k \in Keys
  PROVE  Mine(l1, k, i) = Mine(l2, k, i) /\ After(l1, k, i) = After(l2, k, i)
<1>1. Mine(l1, k, i) = Mine(l2, k, i)
  <2>1. Visited(l1, i) = Visited(l2, i)
    BY LatestSame
  <2>2. \A j \in Visited(l1, i) : l1[j] = l2[j]
    BY VisitedIs
  <2> QED BY <2>1, <2>2 DEF Mine, KeyAt
<1>2. ASSUME NEW j \in Nat, i <= j, j < NumPages PROVE Means(l1, j) = Means(l2, j)
  <2>1. l1[j] = l2[j] /\ l1[j] \in Cells
    BY <1>2, LogAssumption DEF Logs
  <2>2. NumPages \in Nat /\ \A n \in Nat \ {0} : j + n < NumPages => l1[j + n] = l2[j + n]
    BY <1>2, LogAssumption
  <2> HIDE DEF Logs
  <2>3. ReadEntry(l1, j) = ReadEntry(l2, j)
    <3> DEFINE v == l1[j].val
               reads(c, n) == ReadsAs(c, v, n)
               whole(log) == \A n \in 1..(NeededPages(v) - 1) : j + n < NumPages /\ reads(log[j + n], n)
    <3>1. whole(l1) <=> whole(l2)
      <4>1. \A n \in 1..(NeededPages(v) - 1) : n \in Nat \ {0}
        OBVIOUS
      <4> HIDE DEF reads
      <4> QED BY <2>2, <4>1
    <3> QED BY <2>1, <3>1 DEF ReadEntry
  <2> QED BY <2>1, <2>3 DEF Means
<1>3. Mine(l1, k, i) # {} => Means(l1, Max(Mine(l1, k, i))) = Means(l2, Max(Mine(l1, k, i)))
  BY <1>2, MineIs
<1> QED
  BY <1>1, <1>3 DEF After

(* A value is read from the pages of its entry.                             *)
LEMMA ReadWithin ==
  ASSUME Storable, NEW l1 \in Logs, NEW l2 \in Logs, NEW j \in Nat, j < NumPages,
         \A n \in Nat : j <= n /\ n < Behind(l1, j) /\ n < NumPages => l1[n] = l2[n]
  PROVE  Means(l1, j) = Means(l2, j)
<1>1. l1[j] \in Cells /\ EntryPages(l1[j]) \in Nat \ {0} /\ l1[j] = l2[j] /\ NumPages \in Nat
  <2>1. l1[j] \in Cells /\ NumPages \in Nat
    BY LogAssumption DEF Logs
  <2> QED BY <2>1, EntryPagesIs DEF Behind
<1>2. CASE l1[j].kind = "entry"
  <2> DEFINE v == l1[j].val
             reads(c, n) == ReadsAs(c, v, n)
             whole(log) == \A n \in 1..(NeededPages(v) - 1) : j + n < NumPages /\ reads(log[j + n], n)
  <2>1. v \in Values /\ NeededPages(v) = EntryPages(l1[j])
    BY <1>1, <1>2, EntryIs DEF Storable, EntryPages
  <2>2. \A n \in 1..(NeededPages(v) - 1) : j + n < NumPages => l1[j + n] = l2[j + n]
    BY <1>1, <2>1 DEF Behind
  <2>3. whole(l1) <=> whole(l2)
    <3> HIDE DEF reads
    <3> QED BY <2>2
  <2> QED BY <1>1, <1>2, <2>3 DEF ReadEntry, Means
<1> QED
  BY <1>1, <1>2 DEF Means

LEMMA GetSame ==
  ASSUME Storable, NEW l1 \in Logs, NEW l2 \in Logs, NEW k \in Keys,
         Mine(l1, k, 1) = Mine(l2, k, 1),
         \A j \in Mine(l1, k, 1), n \in Nat : j <= n /\ n < Behind(l1, j) /\ n < NumPages => l1[n] = l2[n]
  PROVE  Get(l1, k) = Get(l2, k)
<1>1. Mine(l1, k, 1) # {} => Means(l1, Max(Mine(l1, k, 1))) = Means(l2, Max(Mine(l1, k, 1)))
  BY MineIs, ReadWithin
<1> QED
  BY <1>1, GetIs DEF After

(* The first page of a change, programmed where the log ends.               *)
LEMMA FirstPage ==
  ASSUME Storable, NEW log \in Logs, NEW e \in Nat, e = LogEnd(log), e < NumPages,
         NEW k \in Keys, NEW c \in Cells, NEW new, Programs(new, log, e, c), KeyAt(new, e, k),
         AtEnd(new, e + EntryPages(c))
  PROVE  /\ new \in Logs /\ e \in Visited(new, 1) /\ LogEnd(new) = e + EntryPages(c)
         /\ \A l \in Keys : l # k => Get(new, l) = Get(log, l)
<1>1. NumPages \in Nat /\ e \in DOMAIN log /\ new[e] = c /\ EntryPages(c) \in Nat \ {0}
  BY EntryPagesIs, LogAssumption DEF Logs, Programs
<1>2. ~IsEnd(c) /\ c.key = k
  BY <1>1 DEF KeyAt, IsEnd
<1>3. e = EndOf(log, 1) /\ e >= 1 /\ AtEnd(log, e) /\ e \in Walk(log, 1)
  BY LogEndIs
<1>4. new \in Logs /\ Walk(new, 1) = Walk(log, 1) \cup {e + EntryPages(c)}
      /\ EndOf(new, 1) = e + EntryPages(c)
  BY <1>2, <1>3, WalkExtended
<1>5. \A j \in Nat : j # e /\ j < NumPages => new[j] = log[j]
  BY LogAssumption DEF Logs, Programs
<1>6. Visited(new, 1) = Visited(log, 1) \cup {e} /\ e \notin Visited(log, 1)
  <2>1. ~AtEnd(new, e)
    BY <1>1, <1>2 DEF AtEnd
  <2>2. \A j \in Walk(log, 1) : j \in Nat /\ (j # e => ~AtEnd(log, j) /\ j < NumPages)
    BY <1>3, EndIs, BehindIs DEF EndsAt
  <2>3. \A j \in Walk(log, 1) : j # e => ~AtEnd(new, j)
    BY <1>5, <2>2 DEF AtEnd
  <2> QED BY <1>3, <1>4, <2>1, <2>2, <2>3 DEF Visited
<1>7. ASSUME NEW l \in Keys, l # k PROVE Get(new, l) = Get(log, l)
  <2>1. Mine(new, l, 1) = Mine(log, l, 1)
    <3>1. ~KeyAt(new, e, l)
      BY <1>1, <1>2, <1>7 DEF KeyAt
    <3>2. \A j \in Visited(log, 1) : new[j] = log[j]
      BY <1>5, <1>6, VisitedIs
    <3> QED BY <1>6, <3>1, <3>2 DEF Mine, KeyAt
  <2>2. ASSUME NEW j \in Mine(log, l, 1), NEW n \in Nat, j <= n, n < Behind(log, j), n < NumPages
        PROVE  log[n] = new[n]
    <3>1. j \in Visited(log, 1) /\ j \in Nat /\ j < NumPages
      BY MineIs DEF Mine
    <3>2. j < e
      <4>1. j \in Walk(log, 1) /\ j # e
        BY <1>6, <3>1 DEF Visited
      <4> QED BY <1>3, <3>1, <4>1, EndIs DEF EndsAt
    <3>3. Behind(log, j) <= e /\ Behind(log, j) \in Nat
      BY <1>3, <3>1, <3>2, EntriesApart, VisitedIs, BehindIs
    <3>4. n # e
      BY <2>2, <3>3
    <3> QED BY <1>5, <2>2, <3>4
  <2> QED BY <1>4, <2>1, <2>2, GetSame
<1>8. LogEnd(new) = e + EntryPages(c)
  BY <1>4, LogEndIs
<1> QED
  BY <1>4, <1>6, <1>7, <1>8

(* Another page of it, where the walk does not look.                        *)
LEMMA NextPage ==
  ASSUME Storable, NEW log \in Logs, NEW s \in Visited(log, 1), Behind(log, s) = LogEnd(log),
         NEW k \in Keys, KeyAt(log, s, k),
         NEW e \in Nat, s < e, e < LogEnd(log), e < NumPages,
         NEW c \in Cells, NEW new, Programs(new, log, e, c)
  PROVE  /\ new \in Logs /\ s \in Visited(new, 1) /\ LogEnd(new) = LogEnd(log)
         /\ \A l \in Keys : l # k => Get(new, l) = Get(log, l)
<1>1. new \in Logs
  BY DEF Logs, Programs
<1>2. \A j \in Nat : j # e /\ j < NumPages => new[j] = log[j]
  BY LogAssumption DEF Logs, Programs
<1>3. s \in Nat /\ ~AtEnd(log, s) /\ s \in Walk(log, 1)
  BY VisitedIs DEF Visited
<1>4. LogEnd(log) \in Nat /\ LogEnd(log) \in Walk(log, 1)
      /\ \A j \in Walk(log, 1) : j \in Nat /\ j <= LogEnd(log)
  BY LogEndIs
<1>5. \A j \in Walk(log, 1) : j <= s \/ j >= LogEnd(log)
  BY <1>3, <1>4, EntriesApart
<1>6. e \notin Walk(log, 1)
  BY <1>3, <1>4, <1>5
<1>7. Walk(new, 1) = Walk(log, 1)
  <2>1. \A j \in Walk(log, 1) : j < NumPages => log[j] = new[j]
    BY <1>2, <1>4, <1>6
  <2> QED BY <1>1, <2>1, WalkSame
<1>8. Visited(new, 1) = Visited(log, 1)
  <2>1. \A j \in Walk(log, 1) : j \in Nat /\ (j < NumPages => new[j] = log[j])
    BY <1>2, <1>4, <1>6
  <2>2. \A j \in Walk(log, 1) : AtEnd(new, j) <=> AtEnd(log, j)
    BY <2>1, LogAssumption DEF AtEnd
  <2> QED BY <1>7, <2>2 DEF Visited
<1>9. ASSUME NEW l \in Keys, l # k PROVE Get(new, l) = Get(log, l)
  <2>1. Mine(new, l, 1) = Mine(log, l, 1)
    <3>1. \A j \in Visited(log, 1) : new[j] = log[j]
      BY <1>2, <1>6, VisitedIs DEF Visited
    <3> QED BY <1>8, <3>1 DEF Mine, KeyAt
  <2>2. ASSUME NEW j \in Mine(log, l, 1), NEW n \in Nat, j <= n, n < Behind(log, j), n < NumPages
        PROVE  log[n] = new[n]
    <3>1. j \in Visited(log, 1) /\ j \in Nat /\ KeyAt(log, j, l) /\ ~AtEnd(log, j)
      BY MineIs, VisitedIs DEF Mine
    <3>2. j # s
      BY <1>9, <3>1 DEF KeyAt
    <3>3. j < s
      <4>1. j \in Walk(log, 1) /\ ~AtEnd(log, j)
        BY <3>1 DEF Visited
      <4>2. j # LogEnd(log)
        BY <3>1, LogEndIs
      <4> QED BY <1>3, <1>4, <1>5, <3>1, <3>2, <4>1, <4>2
    <3>4. Behind(log, j) <= s /\ Behind(log, j) \in Nat
      BY <1>3, <3>1, <3>3, EntriesApart, BehindIs
    <3>5. n # e
      BY <1>3, <2>2, <3>4
    <3> QED BY <1>2, <2>2, <3>5
  <2> QED BY <1>1, <2>1, <2>2, GetSame
<1>10. LogEnd(new) = LogEnd(log)
  BY <1>7 DEF LogEnd
<1> QED
  BY <1>1, <1>3, <1>8, <1>9, <1>10

(* The last entry of the log is the one of its key that counts.             *)
LEMMA LastCounts ==
  ASSUME NEW log \in Logs, NEW s \in Visited(log, 1), Behind(log, s) = LogEnd(log),
         NEW k \in Keys, KeyAt(log, s, k)
  PROVE  Get(log, k) = Means(log, s)
<1>1. s \in Nat /\ s \in Mine(log, k, 1) /\ Mine(log, k, 1) \in SUBSET Nat
  BY VisitedIs, MineIs DEF Mine
<1>2. ASSUME NEW j \in Mine(log, k, 1), ~(j <= s) PROVE FALSE
  <2>1. j \in Nat /\ j \in Walk(log, 1) /\ ~AtEnd(log, j)
    BY VisitedIs DEF Mine, Visited
  <2>2. LogEnd(log) <= j
    BY <1>1, <1>2, <2>1, EntriesApart
  <2> QED BY <2>1, <2>2, LogEndIs
<1>3. Max(Mine(log, k, 1)) = s
  BY <1>1, <1>2, MaxOf
<1> QED
  BY <1>1, <1>3, GetIs DEF After

(***************************************************************************)
(* Writing a change                                                        *)
(***************************************************************************)
AllCells == Cells \cup {Data(v, i) : v \in Values, i \in Nat}

LEMMA SplitIsAny ==
  ASSUME NEW A, NEW s \in Seq(A), NEW n \in Nat, n <= Len(s)
  PROVE  /\ SubSeq(s, n + 1, Len(s)) \in Seq(A) /\ Len(SubSeq(s, n + 1, Len(s))) = Len(s) - n
         /\ \A i \in 1..(Len(s) - n) : SubSeq(s, n + 1, Len(s))[i] = s[n + i]
  OBVIOUS

LEMMA TailIs ==
  ASSUME NEW A, NEW r \in Seq(A), r # <<>>
  PROVE  /\ Tail(r) \in Seq(A) /\ Len(Tail(r)) = Len(r) - 1
         /\ \A i \in 1..(Len(r) - 1) : Tail(r)[i] = r[i + 1]
  OBVIOUS

LEMMA RestOf ==
  ASSUME NEW A, NEW s \in Seq(A), NEW n \in 0..Len(s)
  PROVE  LET r == SubSeq(s, n + 1, Len(s))
         IN  /\ Len(r) = Len(s) - n
             /\ n = 0 => r = s
             /\ n = Len(s) => r = <<>>
             /\ n < Len(s) => r # <<>> /\ Head(r) = s[n + 1] /\ Tail(r) = SubSeq(s, n + 2, Len(s))
<1> DEFINE r == SubSeq(s, n + 1, Len(s))
<1>1. /\ Len(r) = Len(s) - n /\ r \in Seq(A)
      /\ \A i \in 1..(Len(s) - n) : r[i] = s[n + i]
  <2>1. n \in Nat /\ n <= Len(s)
    OBVIOUS
  <2> QED BY <2>1, SplitIsAny
<1>2. n = 0 => r = s
  BY <1>1
<1>3. n = Len(s) => r = <<>>
  BY <1>1
<1>4. ASSUME n < Len(s)
      PROVE  r # <<>> /\ Head(r) = s[n + 1] /\ Tail(r) = SubSeq(s, n + 2, Len(s))
  <2>1. r # <<>> /\ Head(r) = s[n + 1]
    <3>1. Len(s) - n \in Nat \ {0}
      BY <1>4
    <3> HIDE DEF r
    <3> QED BY <1>1, <3>1
  <2>2. /\ Tail(r) \in Seq(A) /\ Len(Tail(r)) = Len(s) - n - 1
        /\ \A i \in 1..(Len(s) - n - 1) : Tail(r)[i] = s[n + 1 + i]
    <3> HIDE DEF r
    <3>1. /\ Tail(r) \in Seq(A) /\ Len(Tail(r)) = Len(r) - 1
          /\ \A i \in 1..(Len(r) - 1) : Tail(r)[i] = r[i + 1]
      BY <1>1, <2>1, TailIs
    <3>2. \A i \in 1..(Len(s) - n - 1) : i + 1 \in 1..(Len(s) - n) /\ n + (i + 1) = n + 1 + i
      OBVIOUS
    <3>3. \A i \in 1..(Len(s) - n - 1) : Tail(r)[i] = s[n + 1 + i]
      <4>1. Len(r) = Len(s) - n /\ \A i \in 1..(Len(s) - n) : r[i] = s[n + i]
        BY <1>1
      <4> QED BY <3>1, <3>2, <4>1
    <3> QED BY <1>1, <3>1, <3>3
  <2> DEFINE t == SubSeq(s, n + 2, Len(s))
  <2>3. n + 1 \in 0..Len(s) /\ n + 1 + 1 = n + 2
    BY <1>4
  <2>4. /\ t \in Seq(A) /\ Len(t) = Len(s) - n - 1
        /\ \A i \in 1..(Len(s) - n - 1) : t[i] = s[n + 1 + i]
    BY <2>3, SplitIsAny
  <2> HIDE DEF r, t
  <2>5. Tail(r) = t
    BY <2>2, <2>4
  <2> QED BY <2>1, <2>5 DEF t
<1> QED
  BY <1>1, <1>2, <1>3, <1>4

LEMMA PartsAre ==
  ASSUME NEW c \in Changes, c.key \in Keys, c # NoChange
  PROVE  /\ Parts(c) \in Seq(AllCells) /\ Len(Parts(c)) \in Nat \ {0}
         /\ Parts(c)[1] \in Cells /\ Parts(c)[1].kind \in {"entry", "deletion"}
         /\ Parts(c)[1].key = c.key /\ EntryPages(Parts(c)[1]) = Len(Parts(c))
         /\ c.val = Missing => Parts(c) = <<Deletion(c.key)>> /\ Len(Parts(c)) = 1
         /\ c.val # Missing =>
              /\ c.val \in Values /\ Parts(c)[1] = Entry(c.key, c.val)
              /\ Len(Parts(c)) = ValuePages(c.val)
              /\ \A i \in 1..(Len(Parts(c)) - 1) : Parts(c)[i + 1] = Data(c.val, i)
<1>1. CASE c.val = Missing
  <2>1. Parts(c) = <<Deletion(c.key)>>
    BY <1>1 DEF Parts
  <2>2. Deletion(c.key) \in Cells /\ EntryPages(Deletion(c.key)) = 1
    BY DEF Cells, Deletion, EntryPages
  <2>3. Deletion(c.key).kind = "deletion" /\ Deletion(c.key).key = c.key
    BY DEF Deletion
  <2> QED BY <1>1, <2>1, <2>2, <2>3 DEF AllCells
<1>2. CASE c.val # Missing
  <2> DEFINE v == c.val
             n == ValuePages(v)
             rest == [i \in 1..(n - 1) |-> Data(v, i)]
  <2>1. v \in Values
    BY <1>2 DEF Changes
  <2>2. n \in Nat \ {0}
    BY <2>1, ValuePagesIs
  <2>3. Parts(c) = <<Entry(c.key, v)>> \o rest
    BY <1>2 DEF Parts, Encode
  <2>4. Entry(c.key, v) \in AllCells /\ Entry(c.key, v) \in Cells
    BY <2>1 DEF AllCells, Cells
  <2>5. rest \in Seq(AllCells) /\ Len(rest) = n - 1 /\ <<Entry(c.key, v)>> \in Seq(AllCells)
    <3>1. \A i \in 1..(n - 1) : Data(v, i) \in AllCells
      BY <2>1 DEF AllCells
    <3> HIDE DEF n
    <3> QED BY <2>2, <2>4, <3>1
  <2>6. /\ Len(Parts(c)) = n /\ Parts(c)[1] = Entry(c.key, v) /\ Parts(c) \in Seq(AllCells)
        /\ \A i \in 1..(n - 1) : Parts(c)[i + 1] = rest[i]
    <3> HIDE DEF rest, n, v
    <3> QED BY <2>2, <2>3, <2>5
  <2>7. \A i \in 1..(n - 1) : rest[i] = Data(v, i)
    OBVIOUS
  <2>8. EntryPages(Entry(c.key, v)) = n /\ Entry(c.key, v).kind = "entry" /\ Entry(c.key, v).key = c.key
    BY DEF Entry, EntryPages
  <2> QED BY <1>2, <2>1, <2>2, <2>4, <2>6, <2>7, <2>8
<1> QED
  BY <1>1, <1>2

(* What the log means when the change is cut short, and when it is whole.   *)
LEMMA OutcomeIs ==
  ASSUME Storable, flash \in Logs, op \in Changes, op.key \in Keys, op # NoChange,
         shown \in [Keys -> Values \cup {Missing, Garbled}],
         at \in Nat, NEW n \in 1..Len(Parts(op)), Begun(n), ErasedFrom(flash, at),
         at - n + Len(Parts(op)) <= NumPages
  PROVE  \E v \in Outcomes(op) : /\ View(flash) = [shown EXCEPT ![op.key] = v]
                                 /\ n = Len(Parts(op)) => v = op.val
<1> DEFINE s == at - n
           L == Len(Parts(op))
           v == Means(flash, s)
<1>1. /\ L \in Nat \ {0} /\ Parts(op)[1].kind \in {"entry", "deletion"} /\ Parts(op)[1].key = op.key
      /\ EntryPages(Parts(op)[1]) = L /\ NumPages \in Nat /\ n \in Nat \ {0} /\ n <= L
  BY PartsAre, LogAssumption
<1>2. s \in Visited(flash, 1) /\ s \in Nat /\ s + L = LogEnd(flash) /\ s + L <= NumPages
  BY VisitedIs DEF Begun
<1>3. flash[s] = Parts(op)[1]
  BY <1>1, <1>2 DEF Begun
<1>4. Behind(flash, s) = LogEnd(flash) /\ KeyAt(flash, s, op.key)
  BY <1>1, <1>2, <1>3 DEF Behind, KeyAt
<1>5. Get(flash, op.key) = v
  BY <1>2, <1>4, LastCounts
<1>6. v \in Outcomes(op) /\ (n = L => v = op.val)
  <2>1. CASE op.val = Missing
    <3>1. flash[s].kind = "deletion"
      BY <1>3, <2>1, PartsAre DEF Deletion
    <3> QED BY <2>1, <3>1 DEF Means, Outcomes
  <2>2. CASE op.val # Missing
    <3>1. /\ op.val \in Values /\ flash[s] = Entry(op.key, op.val) /\ L = ValuePages(op.val)
          /\ \A i \in 1..(L - 1) : Parts(op)[i + 1] = Data(op.val, i)
      BY <1>3, <2>2, PartsAre
    <3>2. flash[s].kind = "entry" /\ flash[s].val = op.val
      BY <3>1 DEF Entry
    <3>3. v = ReadEntry(flash, s) /\ v \in {op.val, Garbled}
      BY <3>2 DEF Means, ReadEntry
    <3>4. CASE n = L
      <4>1. \A i \in 1..(L - 1) : s + i < NumPages /\ flash[s + i] = Data(op.val, i)
        <5> SUFFICES ASSUME NEW i \in 1..(L - 1)
                     PROVE  s + i < NumPages /\ flash[s + i] = Data(op.val, i)
          OBVIOUS
        <5>1. i + 1 \in 1..n /\ s + (i + 1) - 1 = s + i /\ s + i < NumPages
          BY <1>1, <1>2, <3>4
        <5>2. flash[s + (i + 1) - 1] = Parts(op)[i + 1]
          BY <5>1 DEF Begun
        <5> QED BY <3>1, <5>1, <5>2
      <4>2. /\ NeededPages(op.val) = L /\ (op.val.type = "str" => op.val.n < CopyLen(op.val))
            /\ (op.val.type = "blob" => op.val.n = DLen(op.val))
        BY <3>1 DEF Storable
      <4>3. ReadEntry(flash, s) = op.val
        <5>1. \A i \in 1..(L - 1) : s + i < NumPages /\ ReadsAs(flash[s + i], op.val, i)
          BY <4>1 DEF ReadsAs
        <5> HIDE DEF s, L
        <5> QED BY <3>2, <4>2, <5>1 DEF ReadEntry
      <4> QED BY <3>3, <4>3 DEF Outcomes
    <3>5. CASE n # L
      <4>1. Cost(op.val) > 1
        BY <1>1, <2>2, <3>1, <3>5, ValueIs DEF Cost
      <4> QED BY <3>3, <3>5, <4>1 DEF Outcomes
    <3> QED BY <3>4, <3>5
  <2> QED BY <2>1, <2>2
<1>7. View(flash) = [shown EXCEPT ![op.key] = v]
  <2>1. \A k \in Keys : Get(flash, k) = IF k = op.key THEN v ELSE shown[k]
    BY <1>5 DEF Begun
  <2> HIDE DEF v
  <2> QED BY <2>1 DEF View
<1> QED
  BY <1>6, <1>7

(* A page of the change programmed in an intact store.                      *)
LEMMA WriteGoesOn ==
  ASSUME Storable, flash \in Logs, op \in Changes, op.key \in Keys,
         at \in Nat, at < NumPages, todo \in Seq(Cells), todo # <<>>,
         ErasedFrom(flash, at), WriteMeans, UNCHANGED <<op, shown>>,
         Programs(flash', flash, at, Head(todo)), todo' = Tail(todo), at' = at + 1
  PROVE  WriteMeans'
<1> DEFINE L == Len(Parts(op))
<1>0. Parts(op)' = Parts(op) /\ op' = op /\ shown' = shown
  BY DEF Parts, NoChange
<1>1. op # NoChange
  BY DEF WriteMeans
<1>2. PICK n \in 0..L : /\ todo = SubSeq(Parts(op), n + 1, L)
                        /\ IF n = 0 THEN at = LogEnd(flash) /\ View(flash) = shown ELSE Begun(n)
  BY DEF WriteMeans
<1>3. /\ L \in Nat \ {0} /\ Parts(op) \in Seq(AllCells) /\ Parts(op)[1].kind \in {"entry", "deletion"}
      /\ Parts(op)[1].key = op.key /\ EntryPages(Parts(op)[1]) = L /\ Parts(op)[1] \in Cells
  BY <1>1, PartsAre
<1>4. n < L /\ Head(todo) = Parts(op)[n + 1] /\ todo' = SubSeq(Parts(op), (n + 1) + 1, L)
  <2>1. n < L
    BY <1>2, <1>3, RestOf
  <2>2. Head(todo) = Parts(op)[n + 1] /\ Tail(todo) = SubSeq(Parts(op), n + 2, L)
    BY <1>2, <1>3, <2>1, RestOf
  <2>3. (n + 1) + 1 = n + 2
    BY <1>2
  <2> QED BY <2>1, <2>2, <2>3
<1>5. flash' \in Logs /\ flash'[at] = Head(todo)
      /\ \A j \in Nat : j # at /\ j < NumPages => flash'[j] = flash[j]
  BY LogAssumption DEF Logs, Programs
<1>6. Head(todo) \in Cells
  OBVIOUS
<1>7. CASE n = 0
  <2>1. at = LogEnd(flash) /\ View(flash) = shown /\ Head(todo) = Parts(op)[1]
    BY <1>2, <1>4, <1>7
  <2>2. KeyAt(flash', at, op.key)
    BY <1>3, <1>5, <2>1 DEF KeyAt
  <2>3. AtEnd(flash', at + L)
    <3>1. at + L < NumPages => flash'[at + L] = Erased
      <4>1. L \in Nat \ {0}
        BY <1>3
      <4> HIDE DEF L
      <4>2. at + L < NumPages => at + L \in 0..(NumPages - 1) /\ at + L \in Nat /\ at + L # at
        BY <4>1, LogAssumption
      <4> QED BY <1>5, <4>1, <4>2 DEF ErasedFrom
    <3>2. NumPages \in Nat
      BY LogAssumption
    <3> QED BY <1>3, <3>1, <3>2, CellFacts DEF AtEnd
  <2>4. /\ at \in Visited(flash', 1) /\ LogEnd(flash') = at + L
        /\ \A l \in Keys : l # op.key => Get(flash', l) = Get(flash, l)
    <3>1. Head(todo) \in Cells /\ EntryPages(Head(todo)) = L
      BY <1>3, <1>6, <2>1
    <3>2. AtEnd(flash', at + EntryPages(Head(todo)))
      BY <2>3, <3>1
    <3>3. /\ at \in Visited(flash', 1) /\ LogEnd(flash') = at + EntryPages(Head(todo))
          /\ \A l \in Keys : l # op.key => Get(flash', l) = Get(flash, l)
      BY <1>6, <2>1, <2>2, <3>1, <3>2, FirstPage
    <3> QED BY <3>1, <3>3
  <2>5. \A k \in Keys : k # op.key => Get(flash', k) = shown[k]
    BY <2>1, <2>4 DEF View
  <2>6. Begun(1)'
    <3>1. at' - 1 = at /\ Parts(op)' = Parts(op) /\ shown' = shown /\ op' = op
      BY <1>0
    <3>2. \A i \in 1..1 : flash'[at' - 1 + i - 1] = Parts(op)[i]
      BY <1>5, <2>1, <3>1
    <3>3. at' - 1 \in Visited(flash', 1) /\ at' - 1 + Len(Parts(op)') = LogEnd(flash')
      BY <2>4, <3>1
    <3>4. \A k \in Keys : k # op'.key => Get(flash', k) = shown'[k]
      BY <2>5, <3>1
    <3> QED BY <3>1, <3>2, <3>3, <3>4 DEF Begun
  <2>7. op' # NoChange' /\ n + 1 \in 0..Len(Parts(op)') /\ n + 1 # 0 /\ Begun(n + 1)'
    <3>1. n + 1 = 1
      BY <1>7
    <3>2. op' # NoChange'
      BY <1>0, <1>1 DEF NoChange
    <3> QED BY <1>0, <1>3, <2>6, <3>1, <3>2
  <2>8. todo' = SubSeq(Parts(op)', (n + 1) + 1, Len(Parts(op)'))
    BY <1>0, <1>4
  <2> QED BY <2>7, <2>8 DEF WriteMeans
<1>8. CASE n # 0
  <2> DEFINE s == at - n
  <2>1. s \in Visited(flash, 1) /\ s \in Nat /\ s + L = LogEnd(flash) /\ n \in Nat \ {0}
    BY <1>2, <1>8, VisitedIs DEF Begun
  <2>2. flash[s] = Parts(op)[1]
    <3>1. 1 \in 1..n /\ at - n + 1 - 1 = s
      BY <2>1
    <3>2. flash[at - n + 1 - 1] = Parts(op)[1]
      BY <1>2, <1>8, <3>1 DEF Begun
    <3> QED BY <3>1, <3>2
  <2>3. Behind(flash, s) = LogEnd(flash) /\ KeyAt(flash, s, op.key) /\ s < at /\ at < LogEnd(flash)
    <3>1. Behind(flash, s) = LogEnd(flash) /\ KeyAt(flash, s, op.key)
      <4> HIDE DEF s
      <4> QED BY <1>3, <2>1, <2>2 DEF Behind, KeyAt
    <3>2. s < at /\ at < LogEnd(flash)
      <4>1. L \in Nat /\ n < L /\ at = s + n
        BY <1>3, <1>4, <2>1
      <4> HIDE DEF s, L
      <4> QED BY <2>1, <4>1
    <3> QED BY <3>1, <3>2
  <2>4. /\ s \in Visited(flash', 1) /\ LogEnd(flash') = LogEnd(flash)
        /\ \A l \in Keys : l # op.key => Get(flash', l) = Get(flash, l)
    <3> HIDE DEF s
    <3> QED BY <1>6, <2>1, <2>3, NextPage
  <2>5. \A k \in Keys : k # op.key => Get(flash', k) = shown[k]
    BY <1>2, <1>8, <2>4 DEF Begun
  <2>6. \A i \in 1..(n + 1) : flash'[s + i - 1] = Parts(op)[i]
    <3> SUFFICES ASSUME NEW i \in 1..(n + 1) PROVE flash'[s + i - 1] = Parts(op)[i]
      OBVIOUS
    <3>1. CASE i = n + 1
      BY <1>4, <1>5, <2>1, <3>1
    <3>2. CASE i # n + 1
      <4>1. i \in 1..n /\ s + i - 1 \in Nat /\ s + i - 1 < at
        BY <2>1, <3>2
      <4>2. flash[s + i - 1] = Parts(op)[i]
        BY <1>2, <1>8, <4>1 DEF Begun
      <4>3. s + i - 1 < NumPages /\ s + i - 1 # at
        BY <4>1, LogAssumption
      <4>4. flash'[s + i - 1] = flash[s + i - 1]
        <5> HIDE DEF s
        <5> QED BY <1>5, <4>1, <4>3
      <4> QED BY <4>2, <4>4
    <3> QED BY <3>1, <3>2
  <2>7. Begun(n + 1)'
    <3>1. at' - (n + 1) = s /\ Parts(op)' = Parts(op) /\ shown' = shown /\ op' = op
      BY <1>0, <2>1
    <3>2. \A i \in 1..(n + 1) : flash'[at' - (n + 1) + i - 1] = Parts(op)[i]
      BY <2>6, <3>1
    <3>3. at' - (n + 1) \in Visited(flash', 1) /\ at' - (n + 1) + Len(Parts(op)') = LogEnd(flash')
      BY <2>1, <2>4, <3>1
    <3>4. \A k \in Keys : k # op'.key => Get(flash', k) = shown'[k]
      BY <2>5, <3>1
    <3> QED BY <3>1, <3>2, <3>3, <3>4 DEF Begun
  <2>8. op' # NoChange' /\ n + 1 \in 0..Len(Parts(op)') /\ n + 1 # 0
    <3>1. op' # NoChange'
      BY <1>0, <1>1 DEF NoChange
    <3> QED BY <1>0, <1>3, <1>4, <2>1, <3>1
  <2>9. todo' = SubSeq(Parts(op)', (n + 1) + 1, Len(Parts(op)'))
    BY <1>0, <1>4
  <2> QED BY <2>7, <2>8, <2>9 DEF WriteMeans
<1> QED
  BY <1>7, <1>8

(***************************************************************************)
(* Nothing is lost in a reorganisation                                     *)
(***************************************************************************)
LEMMA NothingThere ==
  ASSUME NEW log \in Logs, NEW k \in Keys, Mine(log, k, 1) = {}
  PROVE  Get(log, k) = Missing
  BY GetIs DEF After

LEMMA SavesBehind ==
  ASSUME NEW l1 \in Logs, NEW l2 \in Logs, NEW i \in Nat,
         \A j \in Nat : i <= j /\ j < NumPages => l1[j] = l2[j],
         NEW new, NEW m, Saves(new, l1, i, m)
  PROVE  Saves(new, l2, i, m)
<1>1. \A k \in Keys : Mine(l1, k, i) = Mine(l2, k, i) /\ After(l1, k, i) = After(l2, k, i)
  BY SameBehind
<1> QED
  BY <1>1 DEF Saves

LEMMA SavesStart ==
  ASSUME NEW log \in Logs, NEW new \in Logs, Visited(new, 1) = {}
  PROVE  Saves(new, log, 1, View(log))
<1>1. \A k \in Keys : Mine(new, k, 1) = {}
  BY DEF Mine
<1>2. \A k \in Keys : View(log)[k] = After(log, k, 1)
  BY ViewTyped
<1> QED
  BY <1>1, <1>2, NothingThere DEF Saves, After

(* An entry that does not count is left out ...                             *)
LEMMA SavesSkip ==
  ASSUME NEW log \in Logs, NEW i \in Nat, ~AtEnd(log, i), ~IsLatest(log, i),
         NEW new \in Logs, NEW m, Saves(new, log, i, m)
  PROVE  Saves(new, log, Behind(log, i), m)
<1> DEFINE b == Behind(log, i)
<1> SUFFICES ASSUME NEW k \in Keys
             PROVE  IF Mine(log, k, b) = {} THEN Get(new, k) = m[k]
                    ELSE Mine(new, k, 1) = {} /\ After(log, k, b) = m[k]
  BY DEF Saves
<1>1. CASE Mine(log, k, b) # {}
  <2>1. Mine(log, k, i) # {} /\ After(log, k, i) = After(log, k, b)
    BY <1>1, LatestBehind, AfterIs
  <2> QED BY <1>1, <2>1 DEF Saves
<1>2. CASE Mine(log, k, b) = {} /\ ~KeyAt(log, i, k)
  <2>1. Mine(log, k, i) = {}
    BY <1>2, MineIs
  <2> QED BY <1>2, <2>1 DEF Saves
<1>3. CASE Mine(log, k, b) = {} /\ KeyAt(log, i, k)
  <2>1. log[i].kind # "entry"
    <3>1. log[i].key = k
      BY <1>3 DEF KeyAt
    <3> QED BY <1>3, <3>1, LatestIs
  <2>2. Mine(log, k, i) # {} /\ After(log, k, i) = Missing
    BY <1>3, <2>1, MineIs, AfterIs DEF Means
  <2>3. Get(new, k) = Missing /\ m[k] = Missing
    BY <2>2, NothingThere DEF Saves
  <2> QED BY <1>3, <2>3
<1> QED
  BY <1>1, <1>2, <1>3

(* ... and one that does is put behind the others with its pages: its       *)
(* value means there what it meant.                                         *)
LEMMA MeansThere ==
  ASSUME Storable, NEW log \in Logs, NEW i \in Nat, NEW new \in Logs, NEW e \in Nat,
         log[i] \in Cells, log[i].kind = "entry", NEW n, n = EntryPages(log[i]),
         i + n <= NumPages, e + n <= NumPages,
         \A d \in 0..(n - 1) : new[e + d] = log[i + d]
  PROVE  Means(new, e) = Means(log, i)
<1> DEFINE v == log[i].val
           reads(c, q) == ReadsAs(c, v, q)
<1>1. v \in Values /\ NeededPages(v) = n /\ n \in Nat \ {0} /\ NumPages \in Nat
  BY EntryIs, EntryPagesIs, LogAssumption DEF Storable, EntryPages
<1>2. new[e] = log[i]
  <2>1. 0 \in 0..(n - 1) /\ e + 0 = e /\ i + 0 = i
    BY <1>1
  <2> QED BY <2>1
<1> HIDE DEF reads, v
<1>3. /\ \A q \in 1..(NeededPages(v) - 1) : e + q < NumPages /\ new[e + q] = log[i + q]
      /\ \A q \in 1..(NeededPages(v) - 1) : i + q < NumPages
  BY <1>1
<1>4. (\A q \in 1..(NeededPages(v) - 1) : e + q < NumPages /\ reads(new[e + q], q))
      <=> (\A q \in 1..(NeededPages(v) - 1) : i + q < NumPages /\ reads(log[i + q], q))
  BY <1>3
<1>5. ReadEntry(new, e) = ReadEntry(log, i)
  BY <1>2, <1>4 DEF ReadEntry, v, reads
<1> QED
  BY <1>2, <1>5 DEF Means

LEMMA SavesCollect ==
  ASSUME Storable, NEW log \in Logs, NEW i \in Nat, ~AtEnd(log, i), IsLatest(log, i),
         NEW old \in Logs, NEW new \in Logs, NEW e \in Nat, NEW n, n = EntryPages(log[i]),
         e >= 1, e + n <= NumPages, Behind(log, i) <= NumPages, Extends(new, old, e, n),
         \A d \in 0..(n - 1) : new[e + d] = log[i + d],
         Visited(new, 1) = Visited(old, 1) \cup {e},
         \A j \in Visited(old, 1) : j < e /\ Behind(old, j) <= e,
         NEW m, Saves(old, log, i, m)
  PROVE  Saves(new, log, Behind(log, i), m)
<1> DEFINE b == Behind(log, i)
           l == log[i].key
<1>1. /\ log[i] \in Cells /\ i < NumPages /\ b \in Nat /\ n \in Nat \ {0} /\ b = i + n
      /\ NumPages \in Nat
  BY BehindIs, EntryPagesIs, LogAssumption DEF Behind
<1>2. log[i].kind = "entry" /\ Mine(log, l, b) = {} /\ l \in Keys /\ KeyAt(log, i, l)
  BY <1>1, LatestIs, EntryIs DEF KeyAt
<1>3. new[e] = log[i]
  <2>1. 0 \in 0..(n - 1) /\ e + 0 = e /\ i + 0 = i
    BY <1>1
  <2> QED BY <2>1
<1>4. \A j \in Visited(old, 1) : new[j] = old[j]
  <2>1. \A j \in Visited(old, 1) : j \in 0..(NumPages - 1)
    BY <1>1, VisitedIs
  <2> QED BY <2>1 DEF Extends
<1>5. Get(new, l) = m[l]
  <2>1. Mine(log, l, i) # {} /\ After(log, l, i) = Means(log, i)
    <3>1. Mine(log, l, i) = {i} \cup Mine(log, l, Behind(log, i))
      BY <1>2, MineIs
    <3>2. Mine(log, l, i) # {}
      BY <3>1
    <3> QED BY <1>2, <3>2, AfterIs
  <2>2. Mine(old, l, 1) = {} /\ m[l] = Means(log, i)
    BY <1>2, <2>1 DEF Saves
  <2>3. Mine(new, l, 1) = {e}
    <3>1. e \in Visited(new, 1) /\ KeyAt(new, e, l)
      BY <1>2, <1>3 DEF KeyAt
    <3>2. ASSUME NEW j \in Visited(new, 1), j # e PROVE ~KeyAt(new, j, l)
      <4>1. j \in Visited(old, 1) /\ new[j] = old[j]
        BY <1>4, <3>2
      <4>2. ~KeyAt(old, j, l)
        BY <2>2, <4>1 DEF Mine
      <4> QED BY <4>1, <4>2 DEF KeyAt
    <3> QED BY <3>1, <3>2 DEF Mine
  <2>4. Max({e}) = e
    BY MaxOf
  <2>5. Means(new, e) = Means(log, i)
    BY <1>1, <1>2, MeansThere
  <2> QED BY <1>2, <2>2, <2>3, <2>4, <2>5, GetIs DEF After
<1>6. ASSUME NEW k \in Keys, k # l
      PROVE  Mine(new, k, 1) = Mine(old, k, 1) /\ Get(new, k) = Get(old, k)
  <2>1. Mine(new, k, 1) = Mine(old, k, 1)
    <3>1. ~KeyAt(new, e, k)
      BY <1>3, <1>6 DEF KeyAt
    <3> QED BY <1>4, <3>1 DEF Mine, KeyAt
  <2>2. ASSUME NEW j \in Mine(old, k, 1), NEW q \in Nat, j <= q, q < Behind(old, j), q < NumPages
        PROVE  old[q] = new[q]
    <3>1. j \in Visited(old, 1) /\ Behind(old, j) <= e /\ Behind(old, j) \in Nat
      BY VisitedIs, BehindIs DEF Mine
    <3>2. q \in 0..(NumPages - 1) /\ q < e
      BY <1>1, <2>2, <3>1
    <3> QED BY <3>2 DEF Extends
  <2> QED BY <2>1, <2>2, GetSame
<1>7. ASSUME NEW k \in Keys, k # l
      PROVE  IF Mine(log, k, b) = {} THEN Get(new, k) = m[k]
             ELSE Mine(new, k, 1) = {} /\ After(log, k, b) = m[k]
  <2>1. ~KeyAt(log, i, k)
    BY <1>7 DEF KeyAt
  <2>2. Mine(log, k, b) = {} => Mine(log, k, i) = {}
    BY <2>1, MineIs
  <2>3. Mine(log, k, b) # {} => Mine(log, k, i) # {} /\ After(log, k, i) = After(log, k, b)
    BY LatestBehind, AfterIs
  <2> QED BY <1>6, <1>7, <2>2, <2>3 DEF Saves
<1> QED
  BY <1>2, <1>5, <1>7 DEF Saves

(* Where the log ends there is nothing left to read.                        *)
LEMMA SavesEnd ==
  ASSUME NEW log \in Logs, NEW i \in Nat, AtEnd(log, i), NEW new \in Logs,
         NEW m \in [Keys -> Values \cup {Missing, Garbled}], Saves(new, log, i, m)
  PROVE  View(new) = m
<1>1. \A k \in Keys : Mine(log, k, i) = {}
  BY MineIs
<1>2. \A k \in Keys : Get(new, k) = m[k]
  BY <1>1 DEF Saves
<1> QED
  BY <1>2 DEF View

(* An entry still to be read, or carried along alone, counts.               *)
LEMMA SavedIs ==
  ASSUME NEW log \in Logs, NEW i \in Nat, NEW new \in Logs, NEW k \in Keys,
         Mine(new, k, 1) # {}, NEW m, Saves(new, log, i, m)
  PROVE  Get(new, k) = m[k]
  BY DEF Saves

(***************************************************************************)
(* What the store holds when it is idle                                    *)
(***************************************************************************)
LEMMA NothingMeans ==
  ASSUME NEW log \in Logs, \A j \in 0..(NumPages - 1) : j # 0 => log[j] = Erased
  PROVE  View(log) = Nothing
<1>1. AtEnd(log, 1)
  <2>1. 1 < NumPages => log[1] = Erased
    BY LogAssumption
  <2> QED BY <2>1, LogAssumption, CellFacts DEF AtEnd
<1>2. \A k \in Keys : Get(log, k) = Missing
  BY <1>1, GetIs, AfterIs
<1> QED
  BY <1>2 DEF View, Nothing

(* A store that is initialised holds nothing.                               *)
LEMMA InitialisedMeans ==
  ASSUME StoreInv, Initialise, OpenOtp \/ Format
  PROVE  flash' \in Logs /\ View(flash') = Nothing
<1>0. flash \in Logs /\ NumPages \in Nat \ {0} /\ Header \in Cells /\ row \in Nat /\ Rows \in Nat
  BY StoreFacts, CellFacts DEF StoreInv, Typed
<1>1. \A j \in 0..(NumPages - 1) : flash[j] = Erased
  <2>1. CASE OpenOtp
    <3>1. pc = "off" /\ flash[0] = Erased /\ ~damaged
      BY <2>1 DEF OpenOtp, StoreInv, Typed, MediumInv
    <3>2. ErasedFrom(flash, 0)
      BY <3>1, CellFacts DEF StoreInv, IntactInv, Closed
    <3> QED BY <1>0, <3>2 DEF ErasedFrom
  <2>2. CASE Format
    <3>1. pc = "format" /\ \A j \in 0..(NumPages - 1) : j < StartOf(row) => flash[j] = Erased
      BY <2>2 DEF Format, StoreInv, Typed, RowInv
    <3>2. ~(row < Rows)
      BY <2>2 DEF Format, Initialise, Returns
    <3>3. StartOf(row) >= NumPages /\ StartOf(row) \in Nat
      BY <1>0, <3>2, RowFacts
    <3> QED BY <1>0, <3>1, <3>3
  <2> QED BY <2>1, <2>2
<1>2. flash' = [flash EXCEPT ![0] = Header]
  BY DEF Initialise
<1>3. flash' \in Logs /\ \A j \in 0..(NumPages - 1) : j # 0 => flash'[j] = Erased
  BY <1>0, <1>1, <1>2 DEF Logs
<1> QED
  BY <1>3, NothingMeans

LEMMA ShownInit == Init => ShownInv
  BY DEF Init, ShownInv, NoChange, Nothing

LEMMA ShownSteps == StoreInv /\ ShownInv /\ [Next]_vars => ShownInv'
<1> SUFFICES ASSUME StoreInv, ShownInv, [Next]_vars PROVE ShownInv'
  OBVIOUS
<1> DEFINE Asks == UNCHANGED asked \/ asked' = NoChange \/ asked'.key \in Keys
<1>0. flash \in Logs /\ 0 \notin Keys
  BY StoreFacts, KeyAssumption DEF StoreInv, Typed
<1>a. ASSUME Asks PROVE asked'.key = 0 => asked' = NoChange
  BY <1>0, <1>a DEF ShownInv, NoChange
<1>1. ASSUME NEW result, Done(result), Asks PROVE ShownInv'
  <2>1. flash' = flash /\ shown' = View(flash) /\ op' = NoChange /\ pc' = "idle"
    BY <1>1 DEF Done, Returns
  <2>2. View(flash') = shown'
    BY <2>1
  <2>3. shown' \in [Keys -> Values \cup {Missing, Garbled}]
    BY <1>0, <2>1, ViewTyped
  <2> QED BY <1>a, <1>1, <2>1, <2>2, <2>3 DEF ShownInv, NoChange
<1>2. ASSUME UNCHANGED shown, UNCHANGED op \/ op' = NoChange \/ op'.key \in Keys, pc' # "idle", Asks,
             pc' \in {"off", "format"} => res' = "none" /\ asked' = NoChange
      PROVE  ShownInv'
  <2>1. op'.key = 0 => op' = NoChange
    BY <1>0, <1>2 DEF ShownInv, NoChange
  <2> QED BY <1>a, <1>2, <2>1 DEF ShownInv, NoChange
<1>3. ASSUME Initialise, OpenOtp \/ Format, UNCHANGED asked PROVE ShownInv'
  <2>1. op' = NoChange /\ shown' = Nothing /\ pc' = "idle"
    BY <1>3 DEF Initialise, Returns
  <2>2. View(flash') = shown'
    BY <1>3, <2>1, InitialisedMeans
  <2>3. shown' \in [Keys -> Values \cup {Missing, Garbled}]
    BY <2>1 DEF Nothing
  <2> QED BY <1>a, <1>3, <2>1, <2>2, <2>3 DEF ShownInv, NoChange
<1>4. ASSUME NEW k \in Keys \cup {0}, NEW v, NEW cells, k = 0 => v = Missing,
             StartReorg(k, v, cells) \/ StartWrite(k, v, cells)
      PROVE  ShownInv'
  <2>1. /\ UNCHANGED shown /\ (op' = NoChange \/ op'.key \in Keys) /\ pc' \in {"scan", "write"}
        /\ asked' = NoChange
    BY <1>4 DEF StartReorg, StartWrite, NoChange
  <2> QED BY <1>2, <2>1
<1>5. CASE Open
  <2>1. res = "none" /\ UNCHANGED asked /\ asked = NoChange
    BY <1>5 DEF Open, ShownInv
  <2> QED BY <1>1, <1>2, <1>5, <2>1 DEF Open
<1>6. CASE OpenOtp \/ Format
  <2>1. CASE OpenOtp
    BY <1>3, <1>6, <2>1 DEF OpenOtp
  <2>2. CASE Format
    <3>1. pc = "format" /\ res = "none" /\ UNCHANGED asked /\ asked = NoChange
      BY <2>2 DEF Format, ShownInv
    <3> QED BY <1>2, <1>3, <2>2, <3>1 DEF Format
  <2> QED BY <1>6, <2>1, <2>2
<1>7. CASE Skip \/ Collect \/ CollectRow \/ ScanEnds \/ Advance
  <2>1. /\ UNCHANGED <<shown, op, asked>> /\ pc' \in {"scan", "erase", "clear"}
    BY <1>7 DEF Skip, Collect, CollectRow, ScanEnds, Advance, Scanning, history
  <2> QED BY <1>2, <2>1
<1>8. CASE Clear
  <2>1. UNCHANGED asked /\ pc = "clear"
    BY <1>8 DEF Clear
  <2> QED BY <1>1, <1>2, <1>8, <2>1 DEF Clear, Reorganised
<1>9. CASE Erase \/ Program \/ Write
  <2>1. ret \in {"write", "advance", "clear"}
    BY DEF StoreInv, Typed, TypeOK
  <2>2. UNCHANGED <<shown, op, asked>>
    BY <1>9 DEF Erase, Program, Write, history
  <2>3. pc' \in {"write", "advance", "clear", "program", "erase"}
    BY <1>9, <2>1 DEF Erase, Program, Write
  <2> QED BY <1>2, <2>2, <2>3
<1>10. CASE WriteDone \/ Read
  BY <1>1, <1>10 DEF WriteDone, Read
<1>11. CASE PowerLoss
  BY <1>2, <1>11 DEF PowerLoss
<1>12. CASE ReorgProperties
  BY <1>1, <1>4, <1>12 DEF ReorgProperties
<1>b. ASSUME NEW k \in Keys, NEW v, NEW result, Answers(k, v, result) PROVE ShownInv'
  <2>1. asked'.key \in Keys
    BY <1>b DEF Answers
  <2> QED BY <1>b, <1>1, <2>1 DEF Answers
<1>13. ASSUME NEW k \in Keys, NEW v, NEW cells, NEW full, AppendEntry(k, v, cells, full) PROVE ShownInv'
  <2>1. k # 0
    BY <1>0
  <2> QED BY <1>b, <1>4, <1>13, <2>1 DEF AppendEntry
<1>14. ASSUME NEW k \in Keys, EraseProperty(k) PROVE ShownInv'
  BY <1>b, <1>13, <1>14 DEF EraseProperty
<1>15. ASSUME NEW k \in Keys, NEW v \in Values, SetProperty(k, v) PROVE ShownInv'
  BY <1>b, <1>13, <1>15 DEF SetProperty
<1>16. CASE UNCHANGED vars
  BY <1>16 DEF vars, history, ShownInv, View, NoChange
<1> QED
  BY <1>5, <1>6, <1>7, <1>8, <1>9, <1>10, <1>11, <1>12, <1>14, <1>15, <1>16
     DEF Next, Step, Operation

(* A change is its cells.                                                   *)
LEMMA ChangeIs ==
  ASSUME NEW k \in Keys, NEW v \in Values \cup {Missing}
  PROVE  LET c == [key |-> k, val |-> v]
         IN  /\ c \in Changes /\ c # NoChange /\ c.key = k /\ c.val = v
             /\ Parts(c) = IF v = Missing THEN <<Deletion(k)>> ELSE Encode(k, v)
             /\ Parts(c) # <<>> /\ Len(Parts(c)) = (IF v = Missing THEN 1 ELSE Cost(v))
             /\ Len(Parts(c)) \in Nat
<1> DEFINE c == [key |-> k, val |-> v]
<1>1. c \in Changes /\ c # NoChange /\ c.key = k /\ c.val = v
  BY KeyAssumption DEF Changes, NoChange
<1>2. Parts(c) = IF v = Missing THEN <<Deletion(k)>> ELSE Encode(k, v)
  BY <1>1 DEF Parts
<1>3. /\ Parts(c) \in Seq(AllCells) /\ Len(Parts(c)) \in Nat \ {0}
      /\ Len(Parts(c)) = (IF v = Missing THEN 1 ELSE Cost(v))
  BY <1>1, PartsAre, ValueIs DEF Cost
<1>4. Parts(c) # <<>>
  BY <1>3
<1> QED
  BY <1>1, <1>2, <1>3, <1>4

(* A change is refused for lack of room only when the values stored leave    *)
(* none for it, whatever dead entries fill the log: NoSpaceFor counts the    *)
(* very pages those values take (_FlashReorgEntries, lines 653-668), and     *)
(* what the store was said to hold is what its log holds.                    *)
THEOREM RefusedForLackOfRoom == Spec => RefusedOnlyWhenFull
<1> DEFINE Refused ==
             res' = "nospace" /\ medium = "flash" /\ ~damaged /\ (\A k \in Keys : shown[k] # Garbled) =>
               \A k \in Keys, v \in Values :
                 SetProperty(k, v) => PM!Used(shown) + Cost(v) >= NumPages - 1
<1>1. StoreInv /\ ShownInv => Refused
  <2> SUFFICES ASSUME StoreInv, ShownInv, res' = "nospace", medium = "flash",
                      \A k \in Keys : shown[k] # Garbled,
                      NEW k \in Keys, NEW v \in Values, SetProperty(k, v)
               PROVE  PM!Used(shown) + Cost(v) >= NumPages - 1
    OBVIOUS
  <2>1. flash \in Logs /\ pc = "idle" /\ shown = View(flash) /\ NumPages \in Nat
    BY StoreFacts DEF StoreInv, Typed, SetProperty, ShownInv
  <2>2. PM!Used(shown) = LivePages(flash) /\ LivePages(flash) \in Nat
    <3>1. LivePages(flash) \in Nat /\ \A l \in Keys : View(flash)[l] # Garbled
      BY <2>1, LivePagesIs, LiveFromIs
    <3>2. PM!Used(View(flash)) = LivePages(flash)
      BY <2>1, <3>1, UsedIs
    <3> QED BY <2>1, <3>1, <3>2
  <2>3. NoSpaceFor(Len(Encode(k, v)))
    BY <2>1 DEF SetProperty, AppendEntry, StartWrite, StartReorg, Answers, Done, Returns
  <2>4. Len(Encode(k, v)) = Cost(v) /\ Cost(v) \in Nat
    <3> DEFINE c == [key |-> k, val |-> v]
    <3>1. v # Missing
      BY ValueIs
    <3>2. Parts(c) = Encode(k, v) /\ Len(Parts(c)) = Cost(v) /\ Len(Parts(c)) \in Nat
      BY <3>1, ChangeIs
    <3> QED BY <3>2
  <2> QED BY <2>1, <2>2, <2>3, <2>4 DEF NoSpaceFor
<1>2. Spec => [](StoreInv /\ ShownInv)
  <2>1. Spec => []StoreInv
    BY StoreInvariant
  <2> QED BY <2>1, ShownInit, ShownSteps, PTL DEF Spec
<1>3. Spec => [][Refused]_vars
  BY <1>1, <1>2, PTL
<1> QED
  BY <1>3 DEF RefusedOnlyWhenFull

(***************************************************************************)
(* The map of properties                                                   *)
(***************************************************************************)
Follows == [PM!Next]_(PM!vars)
Known   == Storable /\ StoreInv /\ ShownInv /\ ~damaged /\ IntactMeans

LEMMA PhaseIs ==
  /\ pc \in {"off", "format"} => Phase = "off"
  /\ pc = "idle" => Phase = "idle"
  /\ Moving => Phase = "moving"
  /\ pc = "write" \/ (pc \in {"erase", "program"} /\ ret = "write") => Phase = "busy"
  BY DEF Phase, Moving, Reorganising

LEMMA NextPhaseIs ==
  /\ pc' \in {"off", "format"} => Phase' = "off"
  /\ pc' = "idle" => Phase' = "idle"
  /\ Moving' => Phase' = "moving"
  /\ pc' = "write" \/ (pc' \in {"erase", "program"} /\ ret' = "write") => Phase' = "busy"
  BY DEF Phase, Moving, Reorganising

LEMMA MapStutters == UNCHANGED <<shown, op, damaged, asked, res>> /\ Phase' = Phase => Follows
  BY DEF Follows, PM!vars

(* With nothing promised, everything goes.                                  *)
LEMMA MapDamaged == StoreInv' /\ ShownInv' /\ damaged /\ damaged' => Follows
<1> SUFFICES ASSUME StoreInv', ShownInv', damaged, damaged' PROVE PM!Anything
  BY DEF Follows, PM!Next
<1>1. shown' \in [Keys -> Values \cup {Missing, Garbled}]
  BY DEF ShownInv
<1>2. /\ op' \in {PM!NoChange} \cup [key : Keys, val : Values \cup {Missing}]
      /\ asked' \in {PM!NoChange} \cup [key : Keys, val : Values \cup {Missing}]
  <2>1. /\ op' \in [key : Keys \cup {0}, val : Values \cup {Missing}]
        /\ asked' \in [key : Keys \cup {0}, val : Values \cup {Missing}]
    BY DEF StoreInv, Typed, TypeOK
  <2>2. /\ op'.key = 0 => op' = [key |-> 0, val |-> Missing]
        /\ asked'.key = 0 => asked' = [key |-> 0, val |-> Missing]
    BY DEF ShownInv, NoChange
  <2> QED BY <2>1, <2>2 DEF PM!NoChange
<1>3. Phase' \in {"idle", "busy", "moving", "off"} /\ res' \in {"none", "ok", "nospace", "noent"}
  BY DEF StoreInv, Typed, TypeOK, Phase, Reorganising
<1> QED
  BY <1>1, <1>2, <1>3 DEF PM!Anything

LEMMA KnownIs ==
  ASSUME Known
  PROVE  /\ TypeOK /\ flash \in Logs /\ NumPages \in Nat \ {0} /\ op \in Changes /\ 0 \notin Keys
         /\ shown \in [Keys -> Values \cup {Missing, Garbled}]
         /\ op # NoChange => op.key \in Keys
<1>1. TypeOK
  BY DEF Known, StoreInv, Typed
<1>2. flash \in Logs /\ NumPages \in Nat \ {0} /\ op \in Changes
  BY <1>1, StoreFacts
<1> QED
  BY <1>1, <1>2, KeyAssumption DEF Known, Changes, ShownInv

(* The store has done nothing.                                              *)
LEMMA NothingDone ==
  ASSUME Known, pc = "idle", NEW result, Done(result), UNCHANGED damaged
  PROVE  /\ IntactMeans' /\ Phase = "idle" /\ Phase' = "idle"
         /\ UNCHANGED <<shown, op, damaged>> /\ res' = result
<1>1. flash' = flash /\ pc' = "idle" /\ op' = NoChange /\ op = NoChange /\ shown' = shown /\ res' = result
  BY DEF Done, Returns, Known, IntactMeans, ShownInv
<1>2. IntactMeans'
  BY <1>1 DEF IntactMeans, Moving, Reorganising, NoChange
<1> QED
  BY <1>1, <1>2, PhaseIs, NextPhaseIs

(* A change is answered at once.                                            *)
LEMMA AnswerFollows ==
  ASSUME Known, pc = "idle", UNCHANGED damaged,
         NEW k \in Keys, NEW v \in Values \cup {Missing}, NEW result, Answers(k, v, result),
         \/ result = "ok" /\ v # Missing /\ (shown[k] = v \/ Confused(shown[k], v))
         \/ result = "noent" /\ v = Missing /\ shown[k] = Missing
         \/ result = "nospace"
  PROVE  IntactMeans' /\ Follows
<1>1. /\ IntactMeans' /\ Phase = "idle" /\ Phase' = "idle" /\ UNCHANGED <<shown, op, damaged>>
      /\ res' = result /\ asked' = PM!Change(k, v)
  BY NothingDone DEF Answers, PM!Change
<1>2. PM!Answer(k, v)
  BY <1>1 DEF PM!Answer
<1> QED
  BY <1>1, <1>2 DEF Follows, PM!Next

LEMMA ReadFollows ==
  ASSUME Known, pc = "idle", UNCHANGED damaged, NEW result \in {"ok", "nospace"}, Done(result),
         asked' = NoChange
  PROVE  IntactMeans' /\ Follows
<1>1. /\ IntactMeans' /\ Phase = "idle" /\ Phase' = "idle" /\ UNCHANGED <<shown, op, damaged>>
      /\ res' = result /\ asked' = PM!NoChange
  BY NothingDone DEF NoChange, PM!NoChange
<1>2. PM!Read
  BY <1>1 DEF PM!Read
<1> QED
  BY <1>1, <1>2 DEF Follows, PM!Next

(* A value taken for stored already is stored, or it is a number and what    *)
(* is there is taken for it.                                                 *)
LEMMA ConfusedIs ==
  ASSUME NEW log \in Logs, NEW k \in Keys, NEW v \in Values, AlreadyStored(log, k, v)
  PROVE  View(log)[k] = v \/ Confused(View(log)[k], v)
<1> DEFINE es == GetFlashEntry(log, k, 1)
           w  == log[Max(es)].val
           old == View(log)[k]
<1>1. old = Get(log, k)
  BY DEF View
<1>2. CASE Get(log, k) = v
  BY <1>1, <1>2
<1>3. CASE v.type = "int" /\ TakenFor(log, k, v.n) /\ es = {}
  <2>1. old = Missing
    BY <1>1, <1>3 DEF Get
  <2>2. v.n = NVP_ENOENT
    BY <1>3 DEF TakenFor
  <2> QED BY <1>3, <2>1, <2>2 DEF Confused
<1>4. CASE v.type = "int" /\ TakenFor(log, k, v.n) /\ es # {}
  <2>1. w.type # "int" /\ v.n = DLen(w)
    BY <1>4 DEF TakenFor
  <2>2. old = ReadEntry(log, Max(es))
    BY <1>1, <1>4 DEF Get
  <2>3. old = w \/ old = Garbled
    BY <2>2 DEF ReadEntry
  <2>4. w \in Values
    <3>1. PICK j : j \in es
      BY <1>4
    <3>2. es = {j} /\ j = Max(Mine(log, k, 1)) /\ j \in Mine(log, k, 1) /\ log[j].kind = "entry"
      BY <3>1 DEF GetFlashEntry, Mine
    <3>3. j \in Nat /\ log[j] \in Cells
      BY <3>2, MineIs
    <3>4. Max(es) = j
      BY <3>2, <3>3, MaxOf
    <3>5. log[j].val \in Values
      BY <3>2, <3>3, EntryIs
    <3> QED BY <3>4, <3>5
  <2>5. w.type \in {"str", "blob"}
    BY <2>1, <2>4, ValueAssumption
  <2> QED BY <1>4, <2>1, <2>3, <2>5 DEF Confused
<1> QED
  BY <1>2, <1>3, <1>4 DEF AlreadyStored

(***************************************************************************)
(* The store is opened, formatted, and left without power                  *)
(***************************************************************************)
LEMMA OpenFollows == Known /\ Open => IntactMeans' /\ Follows
<1> SUFFICES ASSUME Known, Open PROVE IntactMeans' /\ Follows
  OBVIOUS
<1>1. pc = "off" /\ UNCHANGED <<asked, damaged>> /\ res = "none"
  BY DEF Open, Known, ShownInv
<1>2. CASE flash[0] = Header
  <2>1. /\ flash' = flash /\ pc' = "idle" /\ op' = NoChange /\ shown' = View(flash)
        /\ shown' \in LeftBy(shown, op) /\ res' = res
    BY <1>1, <1>2 DEF Open, Done, Returns, Known, IntactMeans
  <2>2. IntactMeans'
    BY <2>1 DEF IntactMeans, Moving, Reorganising, NoChange
  <2>3. PM!Restart
    <3>1. Phase = "off" /\ Phase' = "idle" /\ op' = PM!NoChange
      BY <1>1, <2>1, PhaseIs, NextPhaseIs DEF NoChange, PM!NoChange
    <3>2. \/ shown' = shown
          \/ /\ op # PM!NoChange
             /\ \E v \in {op.val} \cup (IF Cost(op.val) > 1 THEN {Garbled} ELSE {}) :
                  shown' = [shown EXCEPT ![op.key] = v]
      BY <2>1 DEF LeftBy, Outcomes, NoChange, PM!NoChange
    <3> QED BY <1>1, <2>1, <3>1, <3>2 DEF PM!Restart
  <2> QED BY <2>2, <2>3 DEF Follows, PM!Next
<1>3. CASE flash[0] # Header
  <2>1. /\ pc' = "format" /\ UNCHANGED <<flash, op, shown, res>> /\ op = NoChange /\ shown = Nothing
    BY <1>1, <1>3 DEF Open, Known, IntactMeans
  <2>2. IntactMeans'
    BY <2>1 DEF IntactMeans, Moving, Reorganising, NoChange, Nothing
  <2>3. Phase' = Phase
    BY <1>1, <2>1, PhaseIs, NextPhaseIs
  <2> QED BY <1>1, <2>1, <2>2, <2>3, MapStutters
<1> QED
  BY <1>2, <1>3

LEMMA InitialiseFollows ==
  ASSUME Known, Initialise, UNCHANGED <<asked, damaged>>, pc \in {"off", "format"}, flash[0] # Header
  PROVE  IntactMeans' /\ Follows
<1>1. /\ pc' = "idle" /\ op' = NoChange /\ shown' = Nothing /\ op = NoChange /\ shown = Nothing
      /\ res' = "none" /\ res = "none"
  BY DEF Initialise, Returns, Known, IntactMeans, ShownInv
<1>2. IntactMeans'
  BY <1>1 DEF IntactMeans, Moving, Reorganising, NoChange
<1>3. PM!Restart
  BY <1>1, PhaseIs, NextPhaseIs DEF PM!Restart, NoChange, PM!NoChange
<1> QED
  BY <1>2, <1>3 DEF Follows, PM!Next

LEMMA FormatFollows == Known /\ (OpenOtp \/ Format) => IntactMeans' /\ Follows
<1> SUFFICES ASSUME Known, OpenOtp \/ Format PROVE IntactMeans' /\ Follows
  OBVIOUS
<1>1. flash[0] # Header /\ UNCHANGED <<asked, damaged>> /\ pc \in {"off", "format"}
  <2>1. CASE OpenOtp
    BY <2>1, CellFacts DEF OpenOtp
  <2>2. CASE Format
    <3>1. ErasedFrom(flash, 0) /\ 0 \in 0..(NumPages - 1)
      BY <2>2, KnownIs DEF Format, Known, StoreInv, IntactInv
    <3> QED BY <2>2, <3>1, CellFacts DEF Format, ErasedFrom
  <2> QED BY <2>1, <2>2
<1>2. CASE Initialise
  BY <1>1, <1>2, InitialiseFollows
<1>3. CASE Format /\ row < Rows
  <2>1. UNCHANGED <<pc, op, shown, res>> /\ op = NoChange /\ shown = Nothing /\ pc = "format"
    BY <1>1, <1>3 DEF Format, Known, IntactMeans
  <2>2. IntactMeans'
    BY <2>1 DEF IntactMeans, Moving, Reorganising, NoChange, Nothing
  <2>3. Phase' = Phase
    BY <2>1 DEF Phase
  <2> QED BY <1>1, <2>1, <2>2, <2>3, MapStutters
<1> QED
  BY <1>2, <1>3 DEF OpenOtp, Format

(* Written in part, or wholly.                                              *)
LEMMA WrittenIs ==
  ASSUME Known, pc = "write"
  PROVE  /\ op # NoChange /\ op.key \in Keys /\ flash[0] = Header
         /\ View(flash) \in LeftBy(shown, op)
         /\ todo = <<>> => View(flash) = [shown EXCEPT ![op.key] = op.val]
<1> DEFINE L == Len(Parts(op))
<1>1. WriteMeans /\ flash[0] = Header /\ Appending
  BY DEF Known, IntactMeans, StoreInv, IntactInv
<1>2. op # NoChange /\ op.key \in Keys
  BY <1>1, KnownIs DEF WriteMeans
<1>3. PICK n \in 0..L : /\ todo = SubSeq(Parts(op), n + 1, L)
                        /\ IF n = 0 THEN at = LogEnd(flash) /\ View(flash) = shown ELSE Begun(n)
  BY <1>1 DEF WriteMeans
<1>4. L \in Nat \ {0} /\ Parts(op) \in Seq(AllCells)
  BY <1>2, KnownIs, PartsAre
<1>5. Len(todo) = L - n /\ (todo = <<>> => n = L)
  BY <1>3, <1>4, RestOf
<1>6. CASE n = 0
  <2>1. View(flash) = shown /\ todo # <<>>
    BY <1>3, <1>4, <1>5, <1>6
  <2> QED BY <1>1, <1>2, <2>1 DEF LeftBy
<1>7. CASE n # 0
  <2>1. at \in Nat /\ at + Len(todo) <= NumPages /\ NumPages \in Nat
    BY <1>1, KnownIs, StoreFacts DEF Appending
  <2>2. n \in 1..L /\ Begun(n) /\ ErasedFrom(flash, at)
    BY <1>1, <1>3, <1>7 DEF Appending
  <2>3. at - n + L <= NumPages
    <3> HIDE DEF L
    <3> QED BY <1>4, <1>5, <2>1
  <2>4. PICK v \in Outcomes(op) : /\ View(flash) = [shown EXCEPT ![op.key] = v]
                                  /\ n = L => v = op.val
    BY <1>2, <2>1, <2>2, <2>3, KnownIs, OutcomeIs DEF Known
  <2> QED BY <1>1, <1>2, <1>5, <2>4 DEF LeftBy
<1> QED
  BY <1>6, <1>7

LEMMA PowerLossFollows == Known /\ PowerLoss => (~damaged' => IntactMeans') /\ Follows
<1> SUFFICES ASSUME Known, PowerLoss PROVE (~damaged' => IntactMeans') /\ Follows
  OBVIOUS
<1>1. pc' = "off" /\ UNCHANGED <<flash, op, shown>> /\ pc # "off" /\ damaged = FALSE
      /\ damaged' = InDanger /\ Phase' = "off" /\ asked' = PM!NoChange /\ res' = "none"
  <2>1. damaged = FALSE
    BY KnownIs DEF Known, TypeOK
  <2>2. damaged' = (damaged \/ InDanger) /\ InDanger \in BOOLEAN
    BY DEF PowerLoss, InDanger
  <2> QED BY <2>1, <2>2, NextPhaseIs DEF PowerLoss, NoChange, PM!NoChange
<1>2. (InDanger <=> Phase = "moving") /\ InDanger \in BOOLEAN
  <2>1. InDanger <=> Moving
    BY DEF Known, StoreInv, IntactInv, InDanger, Moving, Reorganising
  <2>2. ~Moving => pc \in {"off", "format", "idle", "write"} \/ (pc \in {"erase", "program"} /\ ret = "write")
    BY KnownIs DEF Moving, TypeOK, Reorganising
  <2> QED BY <2>1, <2>2, PhaseIs DEF InDanger
<1>3. ASSUME ~damaged' PROVE IntactMeans'
  <2>1. pc \in {"idle", "write", "format"}
    BY <1>1, <1>3, KnownIs DEF InDanger, TypeOK
  <2>2. flash[0] # Header => op = NoChange /\ shown = Nothing
    BY <2>1 DEF Known, StoreInv, IntactInv, IntactMeans, Closed
  <2>3. flash[0] = Header => View(flash) \in LeftBy(shown, op)
    <3>1. CASE pc = "write"
      BY <3>1, WrittenIs
    <3>2. CASE pc = "idle"
      BY <3>2 DEF Known, ShownInv, LeftBy
    <3>3. CASE pc = "format"
      BY <3>3, KnownIs, CellFacts DEF Known, StoreInv, IntactInv, ErasedFrom
    <3> QED BY <2>1, <3>1, <3>2, <3>3
  <2>4. /\ flash'[0] # Header' => op' = NoChange' /\ shown' = Nothing'
        /\ flash'[0] = Header' => View(flash)' \in LeftBy(shown, op)'
    BY <1>1, <2>2, <2>3 DEF View, LeftBy, Outcomes, Header, NoChange, Nothing
  <2> QED BY <1>1, <2>4 DEF IntactMeans, Moving, Reorganising
<1>4. CASE Phase = "off"
  <2>1. InDanger = FALSE
    BY <1>2, <1>4
  <2>2. damaged' = damaged
    BY <1>1, <2>1
  <2>3. UNCHANGED <<shown, op, damaged, asked, res>> /\ Phase' = Phase
    <3>1. pc \in {"off", "format"}
      BY <1>4, KnownIs DEF Phase, TypeOK, Reorganising
    <3>2. res = "none" /\ asked = PM!NoChange
      BY <3>1 DEF Known, ShownInv, NoChange, PM!NoChange
    <3> QED BY <1>1, <1>4, <2>2, <3>2
  <2> QED BY <1>3, <2>3, MapStutters
<1>5. CASE Phase # "off"
  <2>1. InDanger = (Phase = "moving")
    BY <1>2
  <2>2. damaged' = (damaged \/ Phase = "moving")
    BY <1>1, <2>1
  <2>3. PM!PowerLoss
    BY <1>1, <1>5, <2>2, Zenon DEF PM!PowerLoss
  <2> QED BY <1>3, <2>3 DEF Follows, PM!Next
<1> QED
  BY <1>3, <1>4, <1>5

(***************************************************************************)
(* Changes begin                                                           *)
(***************************************************************************)
LEMMA WriteFollows ==
  ASSUME Known, pc = "idle", UNCHANGED damaged, NEW k \in Keys, NEW v \in Values \cup {Missing},
         StartWrite(k, v, Parts([key |-> k, val |-> v]))
  PROVE  IntactMeans' /\ Follows
<1> DEFINE c == [key |-> k, val |-> v]
<1>1. /\ pc' = "write" /\ at' = LogEnd(flash) /\ todo' = Parts(c) /\ op' = c
      /\ UNCHANGED <<flash, shown>> /\ shown = View(flash)
      /\ res' = "none" /\ asked' = PM!NoChange
  BY DEF StartWrite, Known, ShownInv, NoChange, PM!NoChange
<1>2. c \in Changes /\ c.key \in Keys /\ c # NoChange
  BY ChangeIs
<1>3. Parts(c) \in Seq(AllCells) /\ Len(Parts(c)) \in Nat
  BY <1>2, PartsAre
<1>4. WriteMeans'
  <2>1. Parts(op)' = Parts(c) /\ op' # NoChange'
    BY <1>1, <1>2 DEF Parts, NoChange
  <2> HIDE DEF c
  <2>2. Parts(c) = SubSeq(Parts(c), 0 + 1, Len(Parts(c))) /\ 0 \in 0..Len(Parts(c))
    BY <1>3
  <2>3. at' = LogEnd(flash)' /\ View(flash)' = shown'
    BY <1>1 DEF View
  <2> QED BY <1>1, <2>1, <2>2, <2>3 DEF WriteMeans
<1>5. IntactMeans'
  BY <1>1, <1>4 DEF IntactMeans, Moving, Reorganising
<1>6. PM!Begin(k, v)
  BY <1>1, PhaseIs, NextPhaseIs DEF PM!Begin, PM!Change
<1> QED
  BY <1>5, <1>6 DEF Follows, PM!Next

(* A reorganisation begins, with a change to follow or none.                *)
LEMMA MoveFollows ==
  ASSUME Known, pc = "idle", medium = "flash", UNCHANGED <<medium, losses, damaged>>,
         NEW k \in Keys \cup {0}, NEW v \in Values \cup {Missing}, NEW cells \in Seq(Cells),
         cells = Parts([key |-> k, val |-> v]), Whole(cells), ~NoSpaceFor(Len(cells)),
         StartReorg(k, v, cells)
  PROVE  /\ IntactMeans' /\ Phase = "idle" /\ Phase' = "moving" /\ UNCHANGED <<shown, damaged>>
         /\ op' = [key |-> k, val |-> v] /\ asked' = PM!NoChange /\ res' = "none"
<1> DEFINE c == [key |-> k, val |-> v]
<1>1. /\ pc' = "scan" /\ todo' = Parts(c) /\ op' = c
      /\ UNCHANGED <<flash, shown>> /\ shown = View(flash)
      /\ res' = "none" /\ asked' = PM!NoChange
  BY DEF StartReorg, Known, ShownInv, NoChange, PM!NoChange
<1>2. New' \in Logs /\ Visited(New', 1) = {} /\ Place' = 1
  BY ReorgStarts DEF Known
<1>3. Saves(New', flash, 1, View(flash))
  BY <1>2, KnownIs, SavesStart
<1>4. Saves(New, flash, Place, shown)'
  BY <1>1, <1>2, <1>3 DEF Saves
<1>5. Collecting'
  BY <1>1 DEF Collecting
<1>6. todo' = Parts(op)'
  BY <1>1 DEF Parts, NoChange
<1>7. IntactMeans'
  BY <1>1, <1>4, <1>5, <1>6 DEF IntactMeans
<1>8. Phase = "idle" /\ Phase' = "moving"
  BY <1>1, PhaseIs, NextPhaseIs DEF Moving, Reorganising
<1> QED
  BY <1>1, <1>7, <1>8

LEMMA AppendFollows ==
  ASSUME Known, pc = "idle", UNCHANGED <<medium, losses, damaged>>,
         NEW k \in Keys, NEW v \in Values \cup {Missing}, NEW full,
         AppendEntry(k, v, Parts([key |-> k, val |-> v]), full)
  PROVE  IntactMeans' /\ Follows
<1> DEFINE c == [key |-> k, val |-> v]
           cells == Parts(c)
<1>1. CASE StartWrite(k, v, cells)
  BY <1>1, WriteFollows
<1>2. CASE Answers(k, v, "nospace")
  BY <1>2, AnswerFollows
<1>3. CASE medium = "flash" /\ ~NoSpaceFor(Len(cells)) /\ StartReorg(k, v, cells)
  <2>1. cells \in Seq(Cells) /\ Whole(cells)
    <3>1. cells = IF v = Missing THEN <<Deletion(k)>> ELSE Encode(k, v)
      BY ChangeIs
    <3>2. CASE v = Missing
      BY <3>1, <3>2, DeletionIs
    <3>3. CASE v # Missing
      BY <3>1, <3>3, EncodeIs
    <3> QED BY <3>2, <3>3
  <2>2. Len(cells) = (IF v = Missing THEN 1 ELSE Cost(v)) /\ Len(cells) \in Nat
    BY ChangeIs, Zenon
  <2>3. /\ IntactMeans' /\ Phase = "idle" /\ Phase' = "moving" /\ UNCHANGED <<shown, damaged>>
        /\ op' = PM!Change(k, v) /\ asked' = PM!NoChange /\ res' = "none"
    <3>1. PM!Change(k, v) = [key |-> k, val |-> v]
      BY DEF PM!Change
    <3>2. k \in Keys \cup {0}
      OBVIOUS
    <3> QED BY <1>3, <2>1, <3>1, <3>2, MoveFollows
  <2>4. PM!Used(shown) \in Nat /\ PM!Used(shown) <= LivePages(flash) /\ LivePages(flash) \in Nat
    <3>1. flash \in Logs /\ shown = View(flash)
      BY KnownIs DEF Known, ShownInv
    <3>2. LivePages(flash) \in Nat
      BY <3>1, LivePagesIs, LiveFromIs
    <3> QED BY <3>1, <3>2, UsedIs
  <2>5. PM!Used(shown) + (IF v = Missing THEN 1 ELSE Cost(v)) < NumPages - 1
    <3>1. ~(1 + LivePages(flash) + Len(cells) >= NumPages)
      BY <1>3 DEF NoSpaceFor
    <3> HIDE DEF c, cells
    <3> QED BY <2>2, <2>4, <3>1, KnownIs
  <2>6. PM!BeginMove(k, v)
    BY <2>3, <2>5 DEF PM!BeginMove
  <2> QED BY <2>3, <2>6 DEF Follows, PM!Next
<1> QED
  BY <1>1, <1>2, <1>3 DEF AppendEntry

LEMMA OperationFollows == Known /\ UNCHANGED medium /\ Operation => IntactMeans' /\ Follows
<1> SUFFICES ASSUME Known, UNCHANGED medium, Operation PROVE IntactMeans' /\ Follows
  OBVIOUS
<1>0. ASSUME NEW k \in Keys, pc = "idle" PROVE shown[k] = Get(flash, k)
  BY <1>0 DEF Known, ShownInv, View
<1>1. ASSUME NEW k \in Keys, EraseProperty(k) PROVE IntactMeans' /\ Follows
  <2>1. Parts([key |-> k, val |-> Missing]) = <<Deletion(k)>>
    BY ChangeIs
  <2>2. pc = "idle" /\ UNCHANGED <<medium, losses, damaged>>
    BY <1>1 DEF EraseProperty
  <2>3. CASE Get(flash, k) = Missing
    <3>1. shown[k] = Missing /\ Answers(k, Missing, "noent")
      BY <1>0, <1>1, <2>2, <2>3 DEF EraseProperty
    <3> QED BY <2>2, <3>1, AnswerFollows
  <2>4. CASE Get(flash, k) # Missing
    <3>1. AppendEntry(k, Missing, <<Deletion(k)>>, LogEnd(flash) + 1 > NumPages)
      BY <1>1, <2>4 DEF EraseProperty
    <3> QED BY <2>1, <2>2, <3>1, AppendFollows
  <2> QED BY <2>3, <2>4
<1>2. ASSUME NEW k \in Keys, NEW v \in Values, SetProperty(k, v) PROVE IntactMeans' /\ Follows
  <2>1. Parts([key |-> k, val |-> v]) = Encode(k, v) /\ v # Missing
    BY ChangeIs, ValueIs
  <2>2. pc = "idle" /\ UNCHANGED <<medium, losses, damaged>> /\ flash \in Logs
    BY <1>2, KnownIs DEF SetProperty
  <2>3. CASE AlreadyStored(flash, k, v)
    <3>1. shown[k] = v \/ Confused(shown[k], v)
      <4>1. shown = View(flash)
        BY <2>2 DEF Known, ShownInv
      <4> QED BY <2>2, <2>3, <4>1, ConfusedIs
    <3>2. Answers(k, v, "ok")
      BY <1>2, <2>3 DEF SetProperty
    <3> QED BY <2>1, <2>2, <3>1, <3>2, AnswerFollows
  <2>4. CASE ~AlreadyStored(flash, k, v)
    <3>1. AppendEntry(k, v, Encode(k, v), LogEnd(flash) + Len(Encode(k, v)) >= NumPages)
      BY <1>2, <2>4 DEF SetProperty
    <3> QED BY <2>1, <2>2, <3>1, AppendFollows
  <2> QED BY <2>3, <2>4
<1>3. CASE ReorgProperties
  <2>1. pc = "idle" /\ UNCHANGED <<medium, losses, damaged>>
    BY <1>3 DEF ReorgProperties
  <2>2. CASE \E result \in {"ok", "nospace"} : Done(result) /\ asked' = NoChange
    BY <2>1, <2>2, ReadFollows
  <2>3. CASE medium = "flash" /\ ~NoSpaceFor(0) /\ StartReorg(0, Missing, <<>>)
    <3>1. Parts([key |-> 0, val |-> Missing]) = <<>> /\ PM!NoChange = [key |-> 0, val |-> Missing]
      BY DEF Parts, NoChange, PM!NoChange
    <3>2. <<>> \in Seq(Cells) /\ Whole(<<>>) /\ Len(<<>>) = 0
      BY DEF Whole
    <3>3. /\ IntactMeans' /\ Phase = "idle" /\ Phase' = "moving" /\ UNCHANGED <<shown, damaged>>
          /\ op' = PM!NoChange /\ asked' = PM!NoChange /\ res' = "none"
      BY <2>1, <2>3, <3>1, <3>2, MoveFollows
    <3>4. PM!Reorganise
      BY <3>3 DEF PM!Reorganise
    <3> QED BY <3>3, <3>4 DEF Follows, PM!Next
  <2> QED BY <1>3, <2>1, <2>2, <2>3 DEF ReorgProperties
<1>4. CASE Read
  BY <1>4, ReadFollows DEF Read
<1> QED
  BY <1>1, <1>2, <1>3, <1>4 DEF Operation

(***************************************************************************)
(* A reorganisation goes on                                                *)
(***************************************************************************)
LEMMA MovesOn ==
  ASSUME Known, Moving, Moving', UNCHANGED <<op, todo, shown, damaged, asked, res>>,
         IF Collecting' THEN Saves(New', flash', Place', shown) ELSE View(New') = shown
  PROVE  IntactMeans' /\ Follows
<1>1. todo' = Parts(op)'
  BY DEF Known, IntactMeans, Parts, NoChange
<1>2. IF Collecting' THEN Saves(New, flash, Place, shown)' ELSE View(New)' = shown'
  BY DEF Saves, View
<1>3. pc' \notin {"off", "format", "idle", "write"}
  BY DEF Moving, Reorganising
<1>4. IntactMeans'
  BY <1>1, <1>2, <1>3 DEF IntactMeans
<1>5. Phase' = Phase
  BY PhaseIs, NextPhaseIs
<1> QED
  BY <1>4, <1>5, MapStutters

(* What a scan finds is in the entry reached and behind it.                 *)
LEMMA ScanSaves ==
  ASSUME Known, pc = "scan"
  PROVE  /\ flash \in Logs /\ New \in Logs /\ p \in Nat /\ NumPages \in Nat /\ Moving /\ Collecting
         /\ Saves(New, flash, p, shown)
<1>1. /\ flash \in Logs /\ New \in Logs /\ p \in Nat /\ NumPages \in Nat
  BY MoveFacts DEF Known, Reorganising
<1>2. Moving /\ Collecting /\ Place = p
  BY ScanFinds DEF Known
<1>3. Saves(New, flash, p, shown)
  BY <1>2 DEF Known, IntactMeans
<1> QED
  BY <1>1, <1>2, <1>3

LEMMA SkipFollows == Known /\ UNCHANGED medium /\ Skip => IntactMeans' /\ Follows
<1> SUFFICES ASSUME Known, UNCHANGED medium, Skip PROVE IntactMeans' /\ Follows
  OBVIOUS
<1>1. /\ pc = "scan" /\ ~AtEnd(flash, p) /\ ~IsLatest(flash, p)
      /\ UNCHANGED <<flash, pc, op, todo, ret, shown, damaged, asked, res>>
  BY DEF Skip, Scanning, writing, rowing, history
<1>2. New' = New /\ Place' = Behind(flash, p)
  BY SkipStep DEF Known
<1>3. Saves(New', flash', Place', shown)
  BY <1>1, <1>2, ScanSaves, SavesSkip
<1>4. Moving /\ Moving' /\ Collecting'
  BY <1>1 DEF Moving, Collecting, Reorganising
<1> QED
  BY <1>1, <1>3, <1>4, MovesOn

LEMMA CarriedSaves ==
  ASSUME Known, Scanning, IsLatest(flash, p), NEW new \in Logs, Carries(new)
  PROVE  Saves(new, flash, Behind(flash, p), shown)
<1> DEFINE e == LogEnd(New)
           n == EntryPages(flash[p])
<1>1. /\ n \in Nat \ {0} /\ Behind(flash, p) <= NumPages /\ e \in Nat /\ e >= 1 /\ e + n <= NumPages
      /\ \A d \in 0..(n - 1) : new[e + d] = flash[p + d]
      /\ Extends(new, New, e, n)
      /\ Visited(new, 1) = Visited(New, 1) \cup {e}
  BY CollectedNew DEF Known
<1>2. /\ flash \in Logs /\ New \in Logs /\ p \in Nat /\ ~AtEnd(flash, p)
      /\ Saves(New, flash, p, shown) /\ pc = "scan"
  BY ScanSaves DEF Scanning
<1>3. \A j \in Visited(New, 1) : j < e /\ Behind(New, j) <= e
  <2>1. ErasedFrom(New, e) /\ Sound(New, 1)
    BY <1>2, ScanFinds DEF Known, Closed
  <2> QED BY <1>1, <1>2, <2>1, EntryAppended
<1> HIDE DEF e
<1> QED
  BY <1>1, <1>2, <1>3, SavesCollect DEF Known

LEMMA CollectFollows == Known /\ UNCHANGED medium /\ (Collect \/ CollectRow) => IntactMeans' /\ Follows
<1> SUFFICES ASSUME Known, UNCHANGED medium, Collect \/ CollectRow PROVE IntactMeans' /\ Follows
  OBVIOUS
<1>1. /\ pc = "scan" /\ Scanning /\ IsLatest(flash, p)
      /\ UNCHANGED <<flash, op, todo, shown, damaged, asked, res>>
  BY DEF Collect, CollectRow, Scanning, writing, rowing, history
<1>2. New' \in Logs /\ Carries(New') /\ Place' = Behind(flash, p)
  BY CollectStep, CollectRowStep DEF Known
<1>3. Saves(New', flash', Place', shown)
  BY <1>1, <1>2, CarriedSaves
<1>4. Moving /\ Moving' /\ Collecting'
  BY <1>1 DEF Moving, Collecting, Reorganising, Collect, CollectRow
<1> QED
  BY <1>1, <1>3, <1>4, MovesOn

LEMMA ScanEndsFollows == Known /\ UNCHANGED medium /\ ScanEnds => IntactMeans' /\ Follows
<1> SUFFICES ASSUME Known, UNCHANGED medium, ScanEnds PROVE IntactMeans' /\ Follows
  OBVIOUS
<1>1. /\ pc = "scan" /\ AtEnd(flash, p)
      /\ pc' = (IF copy = <<>> THEN "clear" ELSE "erase") /\ ret' = "clear"
      /\ UNCHANGED <<flash, op, todo, shown, damaged, asked, res>>
  BY DEF ScanEnds, writing, history
<1>2. New' = New
  BY ScanEndsStep DEF Known
<1>3. View(New) = shown
  BY <1>1, ScanSaves, KnownIs, SavesEnd
<1>4. Moving /\ Moving' /\ ~Collecting'
  BY <1>1 DEF Moving, Collecting, Reorganising
<1> QED
  BY <1>1, <1>2, <1>3, <1>4, MovesOn

(* A row written keeps the new log and what is still to be read.            *)
LEMMA RowFollows == Known /\ UNCHANGED medium /\ (Erase \/ Program) => IntactMeans' /\ Follows
<1> SUFFICES ASSUME Known, UNCHANGED medium, Erase \/ Program PROVE IntactMeans' /\ Follows
  OBVIOUS
<1>1. /\ pc \in {"erase", "program"} /\ UNCHANGED <<op, todo, ret, shown, damaged, asked, res>>
      /\ pc' \in {"erase", "program", ret}
  BY DEF Erase, Program, writing, moving, history
<1>2. /\ New' = New /\ Place' = Place
  BY EraseRowStep, ProgramStep DEF Known
<1>3. /\ Moving /\ ret \in {"advance", "clear"}
      /\ ret = "advance" => Ahead(flash, Place, New, Len(todo)) /\ StartOf(row) + RowPages <= LogEnd(New)
  BY <1>1, RowFinds DEF Known
<1>4. /\ flash \in Logs /\ NumPages \in Nat /\ RowPages \in Nat /\ StartOf(row) \in Nat
      /\ row \in Nat /\ off \in Nat /\ LogEnd(New) \in Nat /\ Len(image) <= RowPages /\ Len(image) \in Nat
  BY <1>1, MoveFacts DEF Known
<1>5. /\ flash' \in Logs
      /\ \A j \in 0..(NumPages - 1) : j >= StartOf(row) + RowPages => flash'[j] = flash[j]
  <2>1. CASE Erase
    <3>1. EraseRow(row)
      BY <2>1 DEF Erase
    <3> QED BY <1>4, <3>1, RowErased
  <2>2. CASE Program
    <3>1. /\ flash' \in Logs /\ off + 1 <= Len(image)
          /\ \A j \in 0..(NumPages - 1) : j # StartOf(row) + off => flash'[j] = flash[j]
      BY <2>2, RowProgrammed DEF Known
    <3> QED BY <1>4, <3>1
  <2> QED BY <2>1, <2>2
<1>6. Moving' /\ (Collecting <=> ret = "advance") /\ (Collecting' <=> ret = "advance")
  BY <1>1, <1>3 DEF Moving, Collecting, Reorganising
<1>7. ASSUME ret = "advance" PROVE Saves(New, flash', Place, shown)
  <2>1. Saves(New, flash, Place, shown)
    BY <1>3, <1>6, <1>7 DEF Known, IntactMeans
  <2>2. Place \in Nat /\ StartOf(row) + RowPages <= Place
    BY <1>3, <1>4, <1>7 DEF Ahead
  <2> HIDE DEF Place, New
  <2>3. \A j \in Nat : Place <= j /\ j < NumPages => flash[j] = flash'[j]
    BY <1>4, <1>5, <2>2
  <2> QED BY <1>4, <1>5, <2>1, <2>2, <2>3, SavesBehind
<1>8. ASSUME ret # "advance" PROVE View(New) = shown
  BY <1>3, <1>6, <1>8 DEF Known, IntactMeans
<1> QED
  BY <1>1, <1>2, <1>3, <1>6, <1>7, <1>8, MovesOn

(* The entry copied last is found again, or it takes several pages and the  *)
(* map is spoilt.                                                           *)
LEMMA LastIs ==
  ASSUME Known, pc = "advance", IsEnd(flash[p])
  PROVE  \E k \in Keys : shown[k] = Garbled \/ Cost(shown[k]) > 1
<1>1. /\ Last \in Visited(New, 1) /\ New[Last] \in Cells /\ EntryPages(New[Last]) > 1
  BY AdvanceFinds DEF Known
<1>2. New \in Logs /\ flash \in Logs /\ NumPages \in Nat
  BY MoveFacts DEF Known, Reorganising
<1>3. Saves(New, flash, Place, shown) /\ Place \in Nat
  <2>1. Moving /\ Collecting
    BY DEF Moving, Collecting, Reorganising
  <2>2. Ahead(flash, Place, New, Len(todo))
    BY <2>1 DEF Known, StoreInv, ReorgInv
  <2> QED BY <2>1, <2>2 DEF Known, IntactMeans, Ahead
<1>4. New[Last].kind = "entry"
  BY <1>1 DEF EntryPages
<1> DEFINE k == New[Last].key
           v == New[Last].val
<1>5. k \in Keys /\ v \in Values /\ EntryPages(New[Last]) = ValuePages(v)
  BY <1>1, <1>4, EntryIs DEF EntryPages
<1>6. Last \in Mine(New, k, 1)
  BY <1>1, <1>4 DEF Mine, KeyAt
<1>7. Max(Mine(New, k, 1)) = Last
  <2>1. /\ Visited(New, 1) \in SUBSET Nat /\ \A j \in Visited(New, 1) : j <= NumPages
    BY <1>2, VisitedIs
  <2>2. Last \in Nat /\ \A j \in Visited(New, 1) : j <= Last
    BY <1>1, <1>2, <2>1, MaxIs DEF Last
  <2>3. /\ Max(Mine(New, k, 1)) \in Mine(New, k, 1) /\ Last <= Max(Mine(New, k, 1))
        /\ Max(Mine(New, k, 1)) \in Nat
    BY <1>2, <1>5, <1>6, MineIs
  <2>4. Max(Mine(New, k, 1)) <= Last
    BY <2>2, <2>3 DEF Mine
  <2> QED BY <2>2, <2>3, <2>4
<1>8. Means(New, Last) = shown[k]
  <2>1. Get(New, k) = shown[k]
    BY <1>2, <1>3, <1>5, <1>6, SavedIs
  <2>2. Get(New, k) = Means(New, Last)
    BY <1>2, <1>5, <1>6, <1>7, GetIs DEF After
  <2> QED BY <2>1, <2>2
<1>9. Means(New, Last) = v \/ Means(New, Last) = Garbled
  BY <1>4 DEF Means, ReadEntry
<1>10. Cost(v) = ValuePages(v)
  BY <1>5, ValueIs DEF Cost
<1> QED
  BY <1>1, <1>5, <1>8, <1>9, <1>10

LEMMA AdvanceFollows == Known /\ UNCHANGED medium /\ Advance => (~damaged' => IntactMeans') /\ Follows
<1> SUFFICES ASSUME Known, UNCHANGED medium, Advance PROVE (~damaged' => IntactMeans') /\ Follows
  OBVIOUS
<1>1. /\ pc = "advance" /\ pc' = "scan"
      /\ UNCHANGED <<flash, op, todo, ret, shown, asked, res>>
      /\ UNCHANGED damaged \/ (IsEnd(flash[p]) /\ damaged' = TRUE)
  BY DEF Advance, writing, rowing
<1>2. Moving /\ Moving' /\ Collecting /\ Collecting'
  BY <1>1 DEF Moving, Collecting, Reorganising
<1>3. CASE UNCHANGED damaged
  <2>1. New' = New /\ Place' = Place
    BY <1>3, AdvanceStep DEF Known
  <2>2. Saves(New', flash', Place', shown)
    BY <1>1, <1>2, <2>1 DEF Known, IntactMeans
  <2> QED BY <1>1, <1>2, <1>3, <2>2, MovesOn
<1>4. CASE IsEnd(flash[p]) /\ damaged' = TRUE
  <2>1. Phase = "moving" /\ Phase' = "moving"
    BY <1>2, PhaseIs, NextPhaseIs
  <2>2. \E k \in Keys : shown[k] = Garbled \/ Cost(shown[k]) > 1
    BY <1>1, <1>4, LastIs
  <2>3. PM!Spoil
    BY <1>1, <1>4, <2>1, <2>2 DEF PM!Spoil
  <2> QED BY <1>4, <2>3 DEF Follows, PM!Next
<1> QED
  BY <1>1, <1>3, <1>4

LEMMA ClearFollows == Known /\ UNCHANGED medium /\ Clear => IntactMeans' /\ Follows
<1> SUFFICES ASSUME Known, UNCHANGED medium, Clear PROVE IntactMeans' /\ Follows
  OBVIOUS
<1>1. pc = "clear" /\ UNCHANGED <<asked, damaged>> /\ flash \in Logs /\ Moving /\ ~Collecting
  BY KnownIs DEF Clear, Moving, Collecting, Reorganising
<1>2. todo = Parts(op) /\ View(New) = shown
  BY <1>1 DEF Known, IntactMeans
<1>3. CASE row < Rows
  <2>1. UNCHANGED <<pc, op, todo, ret, shown, res>>
    BY <1>1, <1>3 DEF Clear, writing, moving
  <2>2. New' = New
    BY <1>3, ClearRow DEF Known
  <2>3. Moving' /\ ~Collecting'
    BY <1>1, <2>1 DEF Moving, Collecting, Reorganising
  <2> QED BY <1>1, <1>2, <2>1, <2>2, <2>3, MovesOn
<1>4. CASE ~(row < Rows)
  <2>1. Reorganised /\ View(flash) = shown
    BY <1>2, <1>4, Cleared DEF Known
  <2>2. op # NoChange => op.key \in Keys /\ Parts(op) \in Seq(AllCells) /\ Len(Parts(op)) \in Nat \ {0}
    BY KnownIs, PartsAre
  <2>3. op = NoChange => Parts(op) = <<>>
    BY DEF Parts
  <2>4. CASE todo = <<>>
    <3>1. op = NoChange
      BY <1>2, <2>2, <2>4
    <3>2. pc' = "idle" /\ op' = NoChange /\ shown' = shown /\ res' = "ok"
      BY <2>1, <2>4 DEF Reorganised, Done, Returns
    <3>3. IntactMeans'
      BY <3>2 DEF IntactMeans, Moving, Reorganising, NoChange
    <3>4. Phase = "moving" /\ Phase' = "idle" /\ op = PM!NoChange
      BY <1>1, <3>1, <3>2, PhaseIs, NextPhaseIs DEF NoChange, PM!NoChange
    <3>5. PM!Moved
      BY <1>1, <3>1, <3>2, <3>4 DEF PM!Moved
    <3> QED BY <3>3, <3>5 DEF Follows, PM!Next
  <2>5. CASE todo # <<>>
    <3>1. pc' = "write" /\ at' = LogEnd(flash) /\ UNCHANGED <<flash, op, todo, shown, res>>
      BY <2>1, <2>5 DEF Reorganised
    <3>2. op # NoChange /\ Parts(op) \in Seq(AllCells) /\ Len(Parts(op)) \in Nat
      BY <1>2, <2>2, <2>3, <2>5
    <3>3. WriteMeans'
      <4>1. Parts(op)' = Parts(op) /\ op' # NoChange'
        BY <3>1, <3>2 DEF Parts, NoChange
      <4> DEFINE cells == Parts(op)
      <4>2. cells \in Seq(AllCells) /\ Len(cells) \in Nat /\ todo' = cells
        BY <1>2, <3>1, <3>2
      <4> HIDE DEF cells
      <4>3. cells = SubSeq(cells, 0 + 1, Len(cells)) /\ 0 \in 0..Len(cells)
        BY <4>2
      <4>4. at' = LogEnd(flash)' /\ View(flash)' = shown'
        BY <2>1, <3>1 DEF View
      <4> QED BY <4>1, <4>2, <4>3, <4>4 DEF WriteMeans, cells
    <3>4. IntactMeans'
      BY <3>1, <3>3 DEF IntactMeans, Moving, Reorganising
    <3>5. Phase = "moving" /\ Phase' = "busy" /\ op # PM!NoChange
      BY <1>1, <3>1, <3>2, PhaseIs, NextPhaseIs DEF NoChange, PM!NoChange
    <3>6. PM!Moved
      BY <1>1, <3>1, <3>5 DEF PM!Moved
    <3> QED BY <3>4, <3>6 DEF Follows, PM!Next
  <2> QED BY <2>4, <2>5
<1> QED
  BY <1>3, <1>4

(***************************************************************************)
(* A change is written                                                     *)
(***************************************************************************)
LEMMA WriteOnFollows == Known /\ UNCHANGED medium /\ Write => IntactMeans' /\ Follows
<1> SUFFICES ASSUME Known, UNCHANGED medium, Write PROVE IntactMeans' /\ Follows
  OBVIOUS
<1>1. CellAt(at) = Erased \/ medium = "otp"
  BY RewriteStarts DEF Known
<1>2. /\ pc = "write" /\ todo # <<>> /\ todo' = Tail(todo) /\ at' = at + 1 /\ pc' = pc
      /\ flash' = [flash EXCEPT ![at] = Head(todo)]
      /\ UNCHANGED <<op, ret, shown, damaged, asked, res>>
  BY <1>1, WritePage DEF Known, Write, history
<1>3. /\ flash \in Logs /\ op \in Changes /\ op.key \in Keys /\ WriteMeans
      /\ at \in Nat /\ todo \in Seq(Cells)
  BY <1>2, KnownIs, StoreFacts, WrittenIs DEF Known, IntactMeans
<1>4. Appending /\ Sound(flash, 1) /\ ErasedFrom(flash, at)
  BY <1>2 DEF Known, StoreInv, IntactInv, Appending
<1>5. at < NumPages
  BY <1>2, <1>3, <1>4, AppendPage
<1>6. Programs(flash', flash, at, Head(todo))
  BY <1>2 DEF Programs
<1>7. WriteMeans'
  BY <1>2, <1>3, <1>4, <1>5, <1>6, WriteGoesOn DEF Known
<1>8. IntactMeans'
  BY <1>2, <1>7 DEF IntactMeans, Moving, Reorganising
<1>9. Phase' = Phase
  BY <1>2, PhaseIs, NextPhaseIs
<1> QED
  BY <1>2, <1>8, <1>9, MapStutters

LEMMA WriteDoneFollows == Known /\ WriteDone => IntactMeans' /\ Follows
<1> SUFFICES ASSUME Known, WriteDone PROVE IntactMeans' /\ Follows
  OBVIOUS
<1>1. /\ pc = "write" /\ todo = <<>> /\ UNCHANGED <<asked, damaged>> /\ res' = "ok"
      /\ pc' = "idle" /\ op' = NoChange /\ shown' = View(flash)
  BY DEF WriteDone, Done, Returns
<1>2. shown' = [shown EXCEPT ![op.key] = op.val]
  BY <1>1, WrittenIs
<1>3. IntactMeans'
  BY <1>1 DEF IntactMeans, Moving, Reorganising, NoChange
<1>4. Phase = "busy" /\ Phase' = "idle" /\ op' = PM!NoChange
  BY <1>1, PhaseIs, NextPhaseIs DEF NoChange, PM!NoChange
<1>5. PM!Commit
  BY <1>1, <1>2, <1>4 DEF PM!Commit
<1> QED
  BY <1>3, <1>5 DEF Follows, PM!Next

(***************************************************************************)
(* The theorem                                                             *)
(***************************************************************************)
LEMMA MapInit == Init => MeaningInv /\ PM!Init
<1> SUFFICES ASSUME Init PROVE MeaningInv /\ PM!Init
  OBVIOUS
<1>1. /\ pc = "off" /\ op = NoChange /\ shown = Nothing /\ damaged = FALSE
      /\ asked = NoChange /\ res = "none"
  BY DEF Init
<1>2. flash[0] = Erased /\ Erased # Header
  BY LogAssumption, CellFacts DEF Init
<1>3. IntactMeans
  BY <1>1, <1>2 DEF IntactMeans, Moving, Reorganising
<1>4. PM!Init
  BY <1>1, PhaseIs DEF PM!Init, NoChange, PM!NoChange, Nothing
<1> QED
  BY <1>3, <1>4, ShownInit DEF MeaningInv

LEMMA Unmeant == ASSUME UNCHANGED vars, IntactMeans PROVE IntactMeans' /\ Follows
<1>1. UNCHANGED <<flash, pc, op, todo, at, p, copy, image, row, off, ret, shown, damaged, asked, res>>
  BY DEF vars, writing, moving, rowing, history
<1>2. Follows
  BY <1>1, MapStutters DEF Phase
<1>3. WriteMeans' = WriteMeans
  BY <1>1 DEF WriteMeans, Begun, Parts, NoChange, View
<1>4. Moving' = Moving /\ Collecting' = Collecting /\ Parts(op)' = Parts(op)
  BY <1>1 DEF Moving, Collecting, Parts, NoChange
<1>5. New' = New
  BY <1>1 DEF New, NewEnd, Programmed, CarriedAt, StartOf
<1>6. Place' = Place
  BY <1>1, <1>5 DEF Place, Last
<1>7. /\ (Moving => IF Collecting THEN Saves(New, flash, Place, shown) ELSE View(New) = shown)
      <=> (Moving => IF Collecting THEN Saves(New, flash, Place, shown) ELSE View(New) = shown)'
  BY <1>1, <1>4, <1>5, <1>6 DEF Saves, View
<1>8. (LeftBy(shown, op))' = LeftBy(shown, op) /\ (View(flash))' = View(flash)
  BY <1>1 DEF LeftBy, Outcomes, View, NoChange
<1>9. IntactMeans'
  BY <1>1, <1>3, <1>4, <1>7, <1>8 DEF IntactMeans, NoChange, Nothing
<1> QED
  BY <1>2, <1>9

LEMMA MapSteps ==
  ASSUME Storable
  PROVE  StoreInv /\ MeaningInv /\ [Next]_vars => MeaningInv' /\ Follows
<1> SUFFICES ASSUME StoreInv, MeaningInv, [Next]_vars PROVE MeaningInv' /\ Follows
  OBVIOUS
<1>1. StoreInv' /\ ShownInv' /\ ShownInv
  BY Steps, ShownSteps DEF MeaningInv
<1>2. damaged \in BOOLEAN
  BY DEF StoreInv, Typed, TypeOK
<1>3. CASE damaged
  <2>1. damaged'
    BY <1>3
       DEF Next, Step, Operation, Open, OpenOtp, Format, Skip, Collect, CollectRow, ScanEnds, Advance,
           Clear, Erase, Program, Write, WriteDone, PowerLoss, Read, ReorgProperties, EraseProperty,
           SetProperty, history, vars
  <2> QED BY <1>1, <1>3, <2>1, MapDamaged DEF MeaningInv
<1>4. CASE ~damaged
  <2>1. Known
    BY <1>1, <1>4 DEF Known, MeaningInv
  <2>2. (~damaged' => IntactMeans') /\ Follows
    <3>1. CASE UNCHANGED vars
      BY <2>1, <3>1, Unmeant DEF Known
    <3>2. CASE Open \/ OpenOtp \/ Format
      BY <2>1, <3>2, OpenFollows, FormatFollows
    <3>3. CASE UNCHANGED medium /\ (Skip \/ Collect \/ CollectRow \/ ScanEnds \/ Advance \/ Clear)
      BY <2>1, <3>3, SkipFollows, CollectFollows, ScanEndsFollows, AdvanceFollows, ClearFollows
    <3>4. CASE UNCHANGED medium /\ (Erase \/ Program \/ Write \/ WriteDone)
      BY <2>1, <3>4, RowFollows, WriteOnFollows, WriteDoneFollows
    <3>5. CASE UNCHANGED medium /\ Operation
      BY <2>1, <3>5, OperationFollows
    <3>6. CASE PowerLoss
      BY <2>1, <3>6, PowerLossFollows
    <3> QED BY <3>1, <3>2, <3>3, <3>4, <3>5, <3>6 DEF Next, Step
  <2> QED BY <1>1, <2>2 DEF MeaningInv
<1> QED
  BY <1>2, <1>3, <1>4

(* The store is a map: for every size of store, row and page and every set   *)
(* of keys and values it can give back, none longer than a row, a change     *)
(* takes effect as a whole when its operation returns, nothing is lost in a  *)
(* reorganisation, and a power loss leaves of the change under way the old   *)
(* value, the new one or a part of it, and every other key as it was         *)
(* (NVProperty_MBEDFlash.cpp and NVProperty_L4OTP.cpp).  The map says no     *)
(* more of a store once it was reorganised while power failed, or while it   *)
(* held a value of more than one page and line 712 lost its place: where     *)
(* that can happen is part of the map.                                       *)
THEOREM StoreIsAMap == Storable => (Spec => RefinesPropertyMap)
<1>1. ASSUME Storable PROVE Spec => RefinesPropertyMap
  <2>1. Spec => []StoreInv
    BY StoreInvariant
  <2>2. StoreInv /\ MeaningInv /\ [Next]_vars => MeaningInv' /\ [PM!Next]_(PM!vars)
    BY <1>1, MapSteps DEF Follows
  <2>3. Init => MeaningInv /\ PM!Init
    BY MapInit
  <2>4. Spec => PM!Spec
    BY <2>1, <2>2, <2>3, PTL DEF Spec, PM!Spec
  <2> QED BY <2>4 DEF RefinesPropertyMap
<1> QED
  BY <1>1
=============================================================================
