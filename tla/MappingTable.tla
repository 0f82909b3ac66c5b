----------------------------- MODULE MappingTable -----------------------------
(***************************************************************************)
(* What a registry of adb-gos promises to the goroutines that serve        *)
(* requests, whichever goroutines, sockets and devices it needs for it: a   *)
(* table from endpoints to the mapping listed under each.  ForwardRegistry  *)
(* and ReverseRegistry implement it; ServerCommands builds on it.           *)
(***************************************************************************)
CONSTANTS
    Keys,   \* endpoints a mapping is listed under
    Ids,    \* ids nextForwardID and nextReverseID can hand out
    NoId    \* nothing is listed

VARIABLES
    table,  \* the id listed under an endpoint
    spent   \* ids that are or were listed, or whose create has failed

Init ==
    /\ table = [k \in Keys |-> NoId]
    /\ spent = {}

\* A create ends well: its fresh id is listed under an endpoint that is free by
\* then, so no mapping disappears without having been withdrawn.
Publish(k, id) ==
    /\ table[k] = NoId
    /\ table' = [table EXCEPT ![k] = id]
    /\ spent' = spent \cup {id}

\* Removals and rebinds take mappings out of the table.
Withdraw(keys) ==
    /\ table' = [k \in Keys |-> IF k \in keys THEN NoId ELSE table[k]]
    /\ UNCHANGED spent

\* A create fails after it has got its id.
Discard(id) ==
    /\ spent' = spent \cup {id}
    /\ UNCHANGED table

Next ==
    \/ \E id \in Ids \ spent : Discard(id) \/ \E k \in Keys : Publish(k, id)
    \/ \E keys \in SUBSET Keys : Withdraw(keys)

Spec == Init /\ [][Next]_<<table, spent>>
===============================================================================
