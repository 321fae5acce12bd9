---------------------------- MODULE PropertyMap ----------------------------
(***************************************************************************)
(* What the user of a property store relies on: a map from keys to values  *)
(* in which a change takes effect at once or not at all, takes effect if   *)
(* the answer is yes, is refused only for lack of room, and of which a     *)
(* power loss can touch the key being changed and no other - unless the    *)
(* store was reorganising itself, which nothing protects.  Nor is anything *)
(* promised of a store that reorganises itself with a value of more than   *)
(* one page in it.                                                         *)
(***************************************************************************)
EXTENDS Integers, FiniteSets

CONSTANTS Keys, Values, Missing, Garbled,
          Room,            \* pages for entries
          Cost(_),         \* pages a value takes, none if missing
          Confused(_, _)   \* is the old value taken for the new one?

VARIABLES
  map,        \* the value of each key
  pending,    \* the change under way: [key, val]
  phase,      \* "idle", "busy", "moving" (reorganising), "off"
  asked,      \* the change the last operation answered at once
  answer,     \* what it returned: "ok", "noent", "nospace", or "none"
  damaged     \* power was lost while reorganising, or the store lost its
              \* place in doing so: nothing is promised

vars == <<map, pending, phase, asked, answer, damaged>>

NoChange == [key |-> 0, val |-> Missing]

Init ==
  /\ map = [k \in Keys |-> Missing]
  /\ pending = NoChange /\ phase = "off" /\ damaged = FALSE
  /\ asked = NoChange /\ answer = "none"

(* The pages all values take, each page as the key's and its number.        *)
Used(m) == Cardinality(UNION {{k} \X (1..Cost(m[k])) : k \in Keys})

Change(k, v) == [key |-> k, val |-> v]

(* A change is answered at once: yes if there is nothing to do.             *)
Answer(k, v) ==
  /\ phase = "idle"
  /\ \/ answer' = "ok" /\ v # Missing /\ (map[k] = v \/ Confused(map[k], v))
     \/ answer' = "noent" /\ v = Missing /\ map[k] = Missing
     \/ answer' = "nospace"
  /\ asked' = Change(k, v)
  /\ UNCHANGED <<map, pending, phase, damaged>>

(* Values are read, or a reorganisation is refused.                         *)
Read ==
  /\ phase = "idle"
  /\ asked' = NoChange /\ answer' \in {"ok", "nospace"}
  /\ UNCHANGED <<map, pending, phase, damaged>>

Begin(k, v) ==
  /\ phase = "idle"
  /\ pending' = Change(k, v) /\ asked' = NoChange /\ answer' = "none"
  /\ phase' = "busy"
  /\ UNCHANGED <<map, damaged>>

(* A new value needs room beside all that is there, the old one included.   *)
BeginMove(k, v) ==
  /\ phase = "idle"
  /\ damaged \/ Used(map) + (IF v = Missing THEN 1 ELSE Cost(v)) < Room
  /\ pending' = Change(k, v) /\ asked' = NoChange /\ answer' = "none"
  /\ phase' = "moving"
  /\ UNCHANGED <<map, damaged>>

(* The reorganisation the user asks for.                                    *)
Reorganise ==
  /\ phase = "idle"
  /\ pending' = NoChange /\ asked' = NoChange /\ answer' = "none"
  /\ phase' = "moving"
  /\ UNCHANGED <<map, damaged>>

Moved ==
  /\ phase = "moving"
  /\ IF pending = NoChange THEN phase' = "idle" /\ answer' = "ok"
                           ELSE phase' = "busy" /\ UNCHANGED answer
  /\ UNCHANGED <<map, pending, asked, damaged>>

(* A value of more than one page may spoil the reorganisation.              *)
Spoil ==
  /\ phase = "moving"
  /\ \E k \in Keys : map[k] = Garbled \/ Cost(map[k]) > 1
  /\ damaged' = TRUE
  /\ UNCHANGED <<map, pending, phase, asked, answer>>

Commit ==
  /\ phase = "busy"
  /\ map' = [map EXCEPT ![pending.key] = pending.val]
  /\ pending' = NoChange /\ phase' = "idle" /\ answer' = "ok"
  /\ UNCHANGED <<asked, damaged>>

PowerLoss ==
  /\ phase # "off"
  /\ phase' = "off" /\ asked' = NoChange /\ answer' = "none"
  /\ damaged' = (damaged \/ phase = "moving")
  /\ UNCHANGED <<map, pending>>

(* After the restart the key that was being changed has its old or its new  *)
(* value, or what was written of one that takes several pages.              *)
Restart ==
  /\ phase = "off"
  /\ phase' = "idle" /\ pending' = NoChange
  /\ \/ UNCHANGED map
     \/ /\ pending # NoChange
        /\ \E v \in {pending.val} \cup (IF Cost(pending.val) > 1 THEN {Garbled} ELSE {}) :
             map' = [map EXCEPT ![pending.key] = v]
  /\ UNCHANGED <<asked, answer, damaged>>

Anything ==
  /\ damaged /\ damaged'
  /\ map' \in [Keys -> Values \cup {Missing, Garbled}]
  /\ pending' \in {NoChange} \cup [key : Keys, val : Values \cup {Missing}]
  /\ phase' \in {"idle", "busy", "moving", "off"}
  /\ asked' \in {NoChange} \cup [key : Keys, val : Values \cup {Missing}]
  /\ answer' \in {"none", "ok", "nospace", "noent"}

Next ==
  \/ \E k \in Keys, v \in Values \cup {Missing} : Answer(k, v) \/ Begin(k, v) \/ BeginMove(k, v)
  \/ Read \/ Reorganise \/ Moved \/ Spoil \/ Commit \/ PowerLoss \/ Restart \/ Anything

Spec == Init /\ [][Next]_vars
=============================================================================
