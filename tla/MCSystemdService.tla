-------------------------- MODULE MCSystemdService --------------------------
EXTENDS SystemdService, TLC

CONSTANTS c1, c2,  \* shells
          e1, e2,  \* endpoints
          d1, d2,  \* devices
          u1, u2   \* units

Symmetry ==
    Permutations(Clients) \cup Permutations(Devices) \cup Permutations(Endpoints)
=============================================================================
