----------------------------- MODULE MCNorFlash -----------------------------
(***************************************************************************)
(* NorFlash with three sectors of four pages, of which two are small ones  *)
(* where the overlay lies.                                                 *)
(***************************************************************************)
EXTENDS NorFlash

Flash(target, firsts, nums) == [op : {"flash"}, target : {target}, first : firsts, num : nums]

(* Every range of sectors, reads across sectors, other targets.            *)
AllRequests ==
  { r \in Flash(2, 0 .. 2, 0 .. 3) : r.first + r.num <= Sectors } \union
  Flash(1, {0}, {1}) \union Flash(4, {0}, {1}) \union
  [op : {"read"}, target : {2}, first : {0, 4}, num : {1, 5}]
=============================================================================
