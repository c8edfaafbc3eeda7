----------------------------- MODULE MCSdCard ------------------------------
(* Requests for TLC: reads of every alignment, and writes of up to three   *)
(* blocks, on a disk of a few blocks.                                      *)
EXTENDS SdCard

CONSTANTS MaxAddr, MaxBytes, MaxBlocks

InitCall == [op |-> "init", addr |-> 0, len |-> 1]
Reads    == {[op |-> "read", addr |-> a, len |-> n] : a \in 0 .. MaxAddr, n \in 0 .. MaxBytes}
Writes   == {[op |-> "write", addr |-> a, len |-> n] : a \in 0 .. 1, n \in 0 .. MaxBlocks}

AllRequests == {InitCall} \union Reads \union Writes
=============================================================================
