--------------------------- MODULE ReviewAutosaveMC ---------------------------
(* An instance with a title in two spellings, with blanks around it and as the *)
(* server stores it, and a text that is too long.                             *)
EXTENDS ReviewAutosave

CONSTANTS name, spaced, long

MCText == {name, spaced, long}
MCNorm == [t \in MCText |-> IF t = spaced THEN name ELSE t]
=============================================================================
