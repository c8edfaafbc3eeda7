------------------------------ MODULE MCEeprom ------------------------------
(***************************************************************************)
(* Eeprom with FIFOs of 8 entries and blocks of 24 bytes.                  *)
(***************************************************************************)
EXTENDS Eeprom

Reads(first, last, longest) ==
  [op : {"read"}, addr : first .. last, len : 1 .. longest]

Writes == [op : {"write"}, addr : {0, 3, 8}, len : {1, 2, 5, 8, 11, 16}]

(* Every alignment and length up to three chunks, in the lower block, and  *)
(* writes of one and of two halves.                                        *)
LowBlock == Reads(0, 10, 14) \union Writes

(* Reads and writes across the limit between the blocks.                   *)
BothBlocks == Reads(16, 27, 12)
=============================================================================
