----------------------------- MODULE MCConnection -----------------------------
(* Instances of Connection for TLC.                                         *)
EXTENDS Connection

CONSTANTS t1
=============================================================================
