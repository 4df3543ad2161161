--------------------------- MODULE MCModelLocations ---------------------------
(* Two names for directories put aside: the first may be taken already. *)
EXTENDS ModelLocations

MCBackups == <<"backup", "backup 1">>
===============================================================================
