--------------------------- MODULE MCChromeAdapter ---------------------------
(* A deadline three units away: room for an inspection, a preparation and a *)
(* run that each take up to their limit, and for answers after the deadline.*)
EXTENDS ChromeAdapter
=============================================================================
