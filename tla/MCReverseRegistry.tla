-------------------------- MODULE MCReverseRegistry --------------------------
(* Instances of ReverseRegistry for TLC.                                     *)
EXTENDS ReverseRegistry

CONSTANTS p1, p2,   \* goroutines serving requests
          d1,       \* a device
          r1, r2    \* device endpoints
==============================================================================
