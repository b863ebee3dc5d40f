--------------------------- MODULE MCRequestGate ---------------------------
(* Small instances of RequestGate.                                          *)
EXTENDS RequestGate
=============================================================================
