------------------------------ MODULE GpsLine ------------------------------
(***************************************************************************)
(* The reader of the GPS receiver's lines (main.cpp): gpsProcess takes the *)
(* characters the serial port has queued, collects a line in buf, and      *)
(* gives it to on_gps_message, which cuts it into fields in place and      *)
(* calls the handler of its kind.  All of it runs in the timer interrupt.  *)
(*                                                                         *)
(* A character stands for any with its role; "*" and "," are themselves.   *)
(* Starts are the beginnings "$GPRMC," and "$GPGGA,".  line is what came   *)
(* since the last newline, kept up to BufLen characters: what the code has *)
(* to deliver, not what it stores.                                         *)
(***************************************************************************)
EXTENDS Integers, Sequences, FiniteSets

CONSTANTS
  Chars,      \* what a line may hold
  BufLen,     \* 128
  argcMax,    \* 20
  Starts      \* the kinds of line that have a handler

NUL == "nul"
CharsAssumption == NUL \notin Chars /\ {",", "*"} \subseteq Chars
LenAssumption == BufLen \in Nat /\ BufLen >= 1
ArgcAssumption == argcMax \in Nat /\ argcMax >= 1
ASSUME LineAssumption ==
  CharsAssumption /\ LenAssumption /\ ArgcAssumption /\ Starts \subseteq Seq(Chars)

VARIABLES
  buf, bi,    \* gpsProcess: the buffer, and where the next character goes
  pc,         \* "read", or in on_gps_message "parse" and "handle"
  p,          \* parse_csv_no_copy: buf
  argv,       \* parse_csv_no_copy: the fields found
  line        \* what the receiver sent since the last newline

vars == <<buf, bi, pc, p, argv, line>>

Locations == 0..BufLen - 1

TypeOK ==
  /\ buf \in [Locations -> Chars \cup {NUL}]
  /\ bi \in 0..BufLen
  /\ pc \in {"read", "parse", "handle"}
  /\ p \in Locations
  /\ argv \in Seq(Locations) /\ Len(argv) <= argcMax
  /\ line \in Seq(Chars) /\ Len(line) <= BufLen

Init ==
  /\ buf = [i \in Locations |-> NUL] /\ bi = 0
  /\ pc = "read" /\ p = 0 /\ argv = <<>>
  /\ line = <<>>

(***************************************************************************)
(* gpsProcess                                                              *)
(***************************************************************************)

(* The variant that ends a long line like any other character.              *)
StoreWrapped(c) ==
  IF bi < BufLen THEN buf' = [buf EXCEPT ![bi] = c] /\ bi' = bi + 1
  ELSE buf' = [buf EXCEPT ![0] = c] /\ bi' = 1

Store(c) ==
  IF bi < BufLen THEN buf' = [buf EXCEPT ![bi] = c] /\ bi' = bi + 1
  ELSE UNCHANGED <<buf, bi>>

Receive(c) ==
  /\ pc = "read"
  /\ Store(c)
  /\ line' = IF Len(line) < BufLen THEN Append(line, c) ELSE line
  /\ UNCHANGED <<pc, p, argv>>

CarriageReturn == pc = "read" /\ UNCHANGED vars

StartsWith(b, start) == \A i \in 1..Len(start) : i - 1 \in Locations /\ b[i - 1] = start[i]

(* The variant that looks for the first "*".                                *)
MarkFirst(b, n) ==
  [i \in Locations |-> IF i < n /\ b[i] = "*" /\ (\A j \in 0..i - 1 : b[j] # "*") THEN ","
                       ELSE b[i]]

(* strrchr: the last "*" of the n characters becomes a separator.           *)
MarkLast(b, n) ==
  [i \in Locations |-> IF i < n /\ b[i] = "*" /\ (\A j \in i + 1..n - 1 : b[j] # "*") THEN ","
                       ELSE b[i]]

(* The end of a line: a long one is dropped, one of a known kind handled.   *)
NewLine ==
  LET ended == [buf EXCEPT ![bi] = NUL]
      known == \E start \in Starts : StartsWith(ended, start)
  IN  /\ pc = "read"
      /\ IF bi < BufLen /\ known
         THEN /\ buf' = MarkLast(ended, bi)
              /\ pc' = "parse" /\ p' = 0 /\ argv' = <<0>>
              /\ UNCHANGED <<bi, line>>
         ELSE /\ buf' = IF bi < BufLen THEN ended ELSE buf
              /\ bi' = 0 /\ line' = <<>>
              /\ UNCHANGED <<pc, p, argv>>

(***************************************************************************)
(* on_gps_message: parse_csv_no_copy, one character a step                 *)
(***************************************************************************)
Return == pc' = "read" /\ bi' = 0 /\ p' = 0 /\ argv' = <<>> /\ line' = <<>>

(* The variant that does not move on.                                       *)
SkipNothing ==
  /\ pc = "parse" /\ buf[p] \notin {NUL, ","}
  /\ UNCHANGED vars

Skip ==
  /\ pc = "parse" /\ buf[p] \notin {NUL, ","}
  /\ p' = p + 1
  /\ UNCHANGED <<buf, bi, pc, argv, line>>

(* The variant that has room for one field less.                            *)
CutEarly ==
  /\ pc = "parse" /\ buf[p] = ","
  /\ buf' = [buf EXCEPT ![p] = NUL]
  /\ IF Len(argv) >= argcMax - 1 THEN Return
     ELSE argv' = Append(argv, p + 1) /\ p' = p + 1 /\ UNCHANGED <<pc, bi, line>>

(* A separator; too many fields are an error, and nothing is handled.       *)
Cut ==
  /\ pc = "parse" /\ buf[p] = ","
  /\ buf' = [buf EXCEPT ![p] = NUL]
  /\ IF Len(argv) >= argcMax THEN Return
     ELSE argv' = Append(argv, p + 1) /\ p' = p + 1 /\ UNCHANGED <<pc, bi, line>>

Parsed ==
  /\ pc = "parse" /\ buf[p] = NUL
  /\ pc' = "handle"
  /\ UNCHANGED <<buf, bi, p, argv, line>>

(* The handler, which reads fields and writes none.                         *)
Handle == pc = "handle" /\ Return /\ UNCHANGED buf

Next ==
  \/ \E c \in Chars : Receive(c)
  \/ CarriageReturn \/ NewLine
  \/ Skip \/ Cut \/ Parsed \/ Handle

Spec == Init /\ [][Next]_vars

(* on_gps_message runs to its end.                                          *)
FairSpec == Spec /\ WF_vars(Skip \/ Cut \/ Parsed \/ Handle)

(***************************************************************************)
(* Properties                                                              *)
(***************************************************************************)

(* Between lines the buffer holds what came since the last newline, and     *)
(* nothing of an earlier line, long or short (main.cpp:197-219).            *)
HoldsLine ==
  pc = "read" => bi = Len(line) /\ \A i \in 1..Len(line) : buf[i - 1] = line[i]

(* Where a line is cut: at every comma, and at its last star.               *)
Cuts ==
  {i \in 1..Len(line) :
     \/ line[i] = ","
     \/ line[i] = "*" /\ \A j \in i + 1..Len(line) : line[j] # "*"}

(* The handler is given the fields of one whole line: each starts at the    *)
(* beginning or after a cut and ends at the next cut or the end of the      *)
(* line, in order, and no character of a field is changed                   *)
(* (main.cpp:57-84, 164-186).                                               *)
FieldsOfLine ==
  pc = "handle" =>
    /\ Len(line) < BufLen
    /\ {argv[k] : k \in 1..Len(argv)} = {0} \cup Cuts
    /\ \A k, l \in 1..Len(argv) : k < l => argv[k] < argv[l]
    /\ \A i \in 1..Len(line) : buf[i - 1] = IF i \in Cuts THEN NUL ELSE line[i]
    /\ buf[Len(line)] = NUL

(* A line is only given up for having more than argcMax fields.             *)
ErrorOnlyWhenMany ==
  [][pc = "parse" /\ pc' = "read" => Cardinality(Cuts) >= argcMax]_vars

(* Every line that is looked at ends, and the next is read: the loop over   *)
(* the characters finds the end it needs (main.cpp:66-80).                  *)
ReadsOn == pc = "parse" ~> pc = "read"
=============================================================================
