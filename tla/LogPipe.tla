------------------------------ MODULE LogPipe ------------------------------
(***************************************************************************)
(* What the buffered USB log promises: one queue of bytes that the main    *)
(* program and the interrupts append to and that leaves in order.  Only an *)
(* interrupt that finds it full loses bytes, its own or those of an        *)
(* earlier interrupt, and a mark tells.                                    *)
(***************************************************************************)
EXTENDS Naturals, Sequences

CONSTANTS
  Mark  \* length of the mark of a truncated message

VARIABLES pending, out

vars == <<pending, out>>

Init == pending = <<>> /\ out = <<>>

Put(c) ==
  /\ c.by = "main"
  /\ pending' = Append(pending, c)
  /\ UNCHANGED out

Message(m) ==
  /\ pending' = pending \o m
  /\ UNCHANGED out

(* Room for c bytes only: the last of them, Mark at most, are the mark.     *)
Truncated(m, c) ==
  LET all == pending \o m
  IN  /\ c \in Len(pending)..Len(all)
      /\ \A i \in 1..Len(pending) : i + Mark > c => pending[i].by # "main"
      /\ pending' = [i \in 1..c |->
                       IF i + Mark > c THEN [by |-> "mark", n |-> i + Mark - c] ELSE all[i]]
      /\ UNCHANGED out

(* A block leaves, for the terminal or, without one, for nowhere.           *)
Leave(k) ==
  /\ k \in 1..Len(pending)
  /\ pending' = SubSeq(pending, k + 1, Len(pending))
  /\ out' \in {out, out \o SubSeq(pending, 1, k)}
=============================================================================
