------------------------------- MODULE MCClint ------------------------------
EXTENDS Clint

(* Times on both sides of the carry at 4.                                 *)
MCRequests ==
  [op : {"spin_until", "sleep_until"}, n : {1, 5}] \union
  [op : {"spin_ticks", "sleep_ticks"}, n : {0, 2}] \union
  [op : {"core_freq"}, n : {1, 2, 3}]
=============================================================================
