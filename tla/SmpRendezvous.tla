--------------------------- MODULE SmpRendezvous ---------------------------
(***************************************************************************)
(* What the multi-hart hand-over of the boot ROM promises, without the     *)
(* interrupt lines and registers that implement it.  One hart chooses the  *)
(* entry point of the next boot stage; every hart arrives at a barrier;    *)
(* no hart leaves for the next stage before all have arrived, and every    *)
(* hart that leaves enters at the chosen point.                            *)
(***************************************************************************)

CONSTANTS
  Harts,     (* The harts of the system.               *)
  Entries,   (* Entry points the next stage may have.  *)
  NoEntry    (* No entry point has been chosen.        *)

VARIABLES
  chosen,    (* The entry point that was chosen, or NoEntry.        *)
  arrived,   (* The harts that have reached the barrier.            *)
  entered    (* The entry point each hart left for, or NoEntry.     *)

rvars == <<chosen, arrived, entered>>

Init ==
  /\ chosen  = NoEntry
  /\ arrived = {}
  /\ entered = [h \in Harts |-> NoEntry]

Choose ==
  /\ chosen = NoEntry
  /\ chosen' \in Entries
  /\ UNCHANGED <<arrived, entered>>

Arrive(h) ==
  /\ chosen # NoEntry
  /\ h \notin arrived
  /\ arrived' = arrived \union {h}
  /\ UNCHANGED <<chosen, entered>>

Leave(h) ==
  /\ arrived = Harts
  /\ entered[h] = NoEntry
  /\ entered' = [entered EXCEPT ![h] = chosen]
  /\ UNCHANGED <<chosen, arrived>>

Next ==
  \/ Choose
  \/ \E h \in Harts : Arrive(h) \/ Leave(h)

Spec == Init /\ [][Next]_rvars
=============================================================================
