----------------------------- MODULE MCMediaLib -----------------------------
(***************************************************************************)
(* Values of the constants of MediaLib for TLC: the library of              *)
(* MCScanThread, scanned and shown.                                         *)
(***************************************************************************)
EXTENDS MediaLibProperties, MCScanThread

=============================================================================
