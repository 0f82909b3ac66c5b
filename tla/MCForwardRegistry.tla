-------------------------- MODULE MCForwardRegistry --------------------------
EXTENDS ForwardRegistry, TLC

CONSTANTS p1, p2,       \* goroutines serving requests
          addr, other,  \* 127.0.0.1:9000 and 127.0.0.1:9001
          port0         \* 127.0.0.1:0, for which the system picks a port

ResolveTo ==
    [r \in Requests |-> IF r = port0 THEN Addresses ELSE {r}]

CallerSymmetry == Permutations({p1, p2})
==============================================================================
