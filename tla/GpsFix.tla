------------------------------- MODULE GpsFix -------------------------------
(***************************************************************************)
(* The position a beacon carries (main.cpp, SlightlightProtocol.cpp).  The *)
(* GPS sentences are handled in a timer interrupt, which writes            *)
(* gpsLatitude_d and gpsLongitude_d; craft_packet in the main loop copies  *)
(* both to the packet and then clears both, so that a position is sent     *)
(* once.  Nothing keeps the interrupt out of the copying.                  *)
(*                                                                         *)
(* A coordinate is the number of the sentence it comes from, 0 if none.    *)
(***************************************************************************)
EXTENDS Naturals

CONSTANTS
  MaxSentences  \* bound: $GPRMC sentences in a behaviour

ASSUME BoundAssumption == MaxSentences \in Nat

VARIABLES
  gpsLatitude_d, gpsLongitude_d,
  packet,     \* the packet
  step,       \* the next step of craft_packet
  sentences,  \* $GPRMC sentences received so far
  sent,       \* the newest coordinate in an earlier packet
  cut         \* the crafts, this and the last one, a sentence came in

gps  == <<gpsLatitude_d, gpsLongitude_d>>
fixVars == <<gps, packet, step, sentences, sent, cut>>

Coordinate == 0..MaxSentences

FixTypeOK ==
  /\ gpsLatitude_d \in {0, sentences} /\ gpsLongitude_d \in {0, sentences}
  /\ packet \in [lat : Coordinate, long : Coordinate]
  /\ step \in {"idle", "lat", "long", "clearLat", "clearLong"}
  /\ sentences \in Coordinate
  /\ sent \in [lat : Coordinate, long : Coordinate]
  /\ cut \subseteq {"this", "last"}

FixInit ==
  /\ gpsLatitude_d = 0 /\ gpsLongitude_d = 0
  /\ packet = [lat |-> 0, long |-> 0] /\ step = "idle"
  /\ sentences = 0
  /\ sent = [lat |-> 0, long |-> 0] /\ cut = {}

-----------------------------------------------------------------------------
(* message_handler_gprmc, in the interrupt.  A sentence with the warning    *)
(* flag, logged as ignored but handled like any other (main.cpp:143-144),   *)
(* has the receiver's last position or empty fields, which read as 0.       *)

Position(lat, long) ==
  /\ gpsLatitude_d' = lat /\ gpsLongitude_d' = long
  /\ sentences' = sentences + 1
  /\ cut' = IF step = "idle" THEN cut ELSE cut \cup {"this"}
  /\ UNCHANGED <<packet, step, sent>>

(* Faulty variant: an empty longitude leaves the old one.                   *)
OnGprmcKeepsLongitude(flag, empty) ==
  /\ sentences < MaxSentences
  /\ empty => flag = "V"
  /\ IF empty THEN Position(0, gpsLongitude_d)
              ELSE Position(sentences + 1, sentences + 1)

OnGprmc(flag, empty) ==
  /\ sentences < MaxSentences
  /\ empty => flag = "V"
  /\ IF empty THEN Position(0, 0) ELSE Position(sentences + 1, sentences + 1)

-----------------------------------------------------------------------------
(* craft_packet *)

CraftBegin ==
  /\ step = "idle"
  /\ step' = "lat"
  /\ cut' = IF "this" \in cut THEN {"last"} ELSE {}
  /\ UNCHANGED <<gps, packet, sentences, sent>>

ReadLatitude ==
  /\ step = "lat" /\ step' = "long"
  /\ packet' = [packet EXCEPT !.lat = gpsLatitude_d]
  /\ UNCHANGED <<gps, sentences, sent, cut>>

ReadLongitude ==
  /\ step = "long" /\ step' = "clearLat"
  /\ packet' = [packet EXCEPT !.long = gpsLongitude_d]
  /\ UNCHANGED <<gps, sentences, sent, cut>>

ClearLatitude ==
  /\ step = "clearLat" /\ step' = "clearLong"
  /\ gpsLatitude_d' = 0
  /\ UNCHANGED <<gpsLongitude_d, packet, sentences, sent, cut>>

Newer(a, b) == IF a > b THEN a ELSE b

(* Faulty variant: the longitude is not cleared.                            *)
KeepLongitude ==
  /\ step = "clearLong" /\ step' = "idle"
  /\ sent' = [lat |-> Newer(sent.lat, packet.lat), long |-> Newer(sent.long, packet.long)]
  /\ UNCHANGED <<gps, packet, sentences, cut>>

ClearLongitude ==
  /\ step = "clearLong" /\ step' = "idle"
  /\ gpsLongitude_d' = 0
  /\ sent' = [lat |-> Newer(sent.lat, packet.lat), long |-> Newer(sent.long, packet.long)]
  /\ UNCHANGED <<gpsLatitude_d, packet, sentences, cut>>

Craft == CraftBegin \/ ReadLatitude \/ ReadLongitude \/ ClearLatitude \/ ClearLongitude

FixNext ==
  \/ Craft
  \/ \E flag \in {"A", "V"}, empty \in BOOLEAN : OnGprmc(flag, empty)

FixSpec == FixInit /\ [][FixNext]_fixVars

-----------------------------------------------------------------------------
(* A coordinate goes out in one packet only, and newer ones later: what a   *)
(* packet carries is newer than anything sent before, whatever sentence     *)
(* comes between the copying and the clearing.                              *)
SentOnce ==
  step = "clearLat" => /\ packet.lat = 0 \/ packet.lat > sent.lat
                       /\ packet.long = 0 \/ packet.long > sent.long

(* Latitude and longitude of a packet belong together unless a sentence cut *)
(* into this craft or into the one before, whose clearing took one half.    *)
OnePosition ==
  step = "clearLat" /\ cut = {} => packet.lat = packet.long
=============================================================================
