----------------------------- MODULE MCGpsLine -----------------------------
(* GpsLine with one kind of line, its beginning shortened to two characters.*)
EXTENDS GpsLine
KnownStarts == {<<"R", ",">>}
=============================================================================
