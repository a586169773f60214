----------------------------- MODULE MCIsoImage -----------------------------
(* Two writing processes, three implants or removals, two edits.             *)
EXTENDS IsoImage
=============================================================================
