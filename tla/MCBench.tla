------------------------------ MODULE MCBench -------------------------------
(***************************************************************************)
(* Preloading with beats of 2 bytes, bursts of up to 4 and pages of 8; and *)
(* over the UART programs of two adjoining sections of zero to two bursts, *)
(* whose bytes look like opcodes and marks, and unlike memory at first are *)
(* not zero.                                                               *)
(***************************************************************************)
EXTENDS Bench

CONSTANT MaxLen

Ram == 0 .. 17

Seg(id, type, addrs, lens, bss) ==
  { [id |-> id, type |-> type, paddr |-> a, filesz |-> n, memsz |-> n + z] :
      a \in addrs, n \in lens, z \in bss }

(* Segments on every alignment, with and without zeros, shorter in memory  *)
(* than in the file, or not to be loaded.                                  *)
Shapes(id) == Seg(id, "load", {0, 1, 2, 4, 7}, {0, 1, 4, 6}, {0, 3}) \union
              Seg(id, "load", {2}, {3}, {-1}) \union Seg(id, "other", {0}, {4}, {0})

File(segs, defect) == [entry |-> 5, segs |-> segs, defect |-> defect]

TwoSegments ==
  { File(<<s, t>>, "none") : s \in Shapes(1), t \in Shapes(2) } \union
  { File(<<s>>, d) : s \in Seg(1, "load", {2}, {0, 9}, {0}), d \in Defects }

Fillers == {<<Write, Eot, Ack, Exec, Eoc>>, <<Eot, Read, 7, Eoc, Ack>>}

Programs(filler) ==
  {<<[addr |-> 9, bytes |-> SubSeq(filler, 1, n)],
     [addr |-> 9 + n, bytes |-> SubSeq(filler, 5 - m + 1, 5)]>> :
     n \in 0 .. MaxLen, m \in 0 .. MaxLen}

MCWeight    == [d \in 0 .. WordBytes |-> Base ^ d]
MCImages    == UNION {Programs(f) : f \in Fillers}
MCReadBacks == {[addr |-> 9, len |-> 1], [addr |-> 10, len |-> 4]}
MCMemory    == 0 .. 80
MCCodes     == {0, Eoc, 8 * Ack + Eot, 63}
=============================================================================
