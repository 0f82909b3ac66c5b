------------------------ MODULE MCForegroundForward ------------------------
(* The instance of ForegroundForward, and in it of ClientSession, for TLC.  *)
EXTENDS ForegroundForward

CONSTANTS c1,     \* the goroutine using the client
          h1      \* a connection of a host program

\* A key that can be offered but does not sign, between two that sign.
ThreeCredentials == <<[signer |-> TRUE, key |-> FALSE], [signer |-> FALSE, key |-> TRUE],
                      [signer |-> TRUE, key |-> FALSE]>>
============================================================================
