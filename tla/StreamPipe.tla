------------------------------ MODULE StreamPipe ------------------------------
(***************************************************************************)
(* What a Stream of package protocol promises to the goroutine that reads  *)
(* it, whatever packets, channels and goroutines it takes: the bytes the   *)
(* far end wrote, in order and each once, then one end.  io.EOF says that  *)
(* the far end is done and everything it wrote was read; an error, that    *)
(* the stream was cut on the way.  Connection implements it.               *)
(***************************************************************************)
EXTENDS Naturals, Sequences

CONSTANTS
    Streams,   \* the streams of a connection
    MaxWrite   \* bound: bytes of one write of the far end

VARIABLES
    sent,      \* bytes the far end has written, numbered from 1 on
    shut,      \* the far end has closed its side
    cut,       \* the streams the program closed, or whose connection is going or gone
    read,      \* the bytes the reader has got
    ended      \* what the reader was told: "no" end yet, "eof" or "error"

Init ==
    /\ sent = [s \in Streams |-> 0]
    /\ shut = [s \in Streams |-> FALSE]
    /\ cut = {}
    /\ read = [s \in Streams |-> <<>>]
    /\ ended = [s \in Streams |-> "no"]

Write(s) ==
    /\ ~shut[s]
    /\ \E n \in 1 .. MaxWrite : sent' = [sent EXCEPT ![s] = @ + n]
    /\ UNCHANGED <<shut, cut, read, ended>>

Shut(s) ==
    /\ shut' = [shut EXCEPT ![s] = TRUE]
    /\ UNCHANGED <<sent, cut, read, ended>>

\* A cut does not heal.
Cut(set) ==
    /\ cut' = cut \cup set
    /\ UNCHANGED <<sent, shut, read, ended>>

\* The reader gets the next bytes, as many as there are or fewer; a cut stream
\* may still hand out what it had received.
Deliver(s) ==
    /\ ended[s] = "no"
    /\ \E n \in 1 .. (sent[s] - Len(read[s])) :
         read' = [read EXCEPT ![s] = @ \o [k \in 1 .. n |-> Len(read[s]) + k]]
    /\ UNCHANGED <<sent, shut, cut, ended>>

Eof(s) ==
    /\ ended[s] = "no" /\ shut[s] /\ Len(read[s]) = sent[s]
    /\ ended' = [ended EXCEPT ![s] = "eof"]
    /\ UNCHANGED <<sent, shut, cut, read>>

Error(s) ==
    /\ ended[s] = "no" /\ s \in cut
    /\ ended' = [ended EXCEPT ![s] = "error"]
    /\ UNCHANGED <<sent, shut, cut, read>>

Next ==
    \/ \E s \in Streams : Write(s) \/ Shut(s) \/ Deliver(s) \/ Eof(s) \/ Error(s)
    \/ \E set \in SUBSET Streams : Cut(set)

Spec == Init /\ [][Next]_<<sent, shut, cut, read, ended>>
===============================================================================
