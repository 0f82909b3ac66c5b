-------------------------- MODULE MCServerLifecycle --------------------------
EXTENDS ServerLifecycle, TLC

CONSTANTS s1, s2,  \* processes
          q1, q2   \* control requests
==============================================================================
