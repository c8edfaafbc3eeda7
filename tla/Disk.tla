-------------------------------- MODULE Disk --------------------------------
(***************************************************************************)
(* What a disk promises those who write to it: a call changes cells of its *)
(* own range only, in whatever order and to whatever value, and reports    *)
(* success only when that range holds the image and nothing is going on    *)
(* that could still change it.  A call that fails, or that a reset cuts    *)
(* off, leaves its range in any state, and may leave one operation behind. *)
(***************************************************************************)
CONSTANTS
  Cell,      (* The units of the disk.                                      *)
  Value,     (* What a unit may hold.                                       *)
  Calls,     (* The write calls; each has a range and an image.             *)
  Range(_),  (* The cells a call writes.                                    *)
  Image(_,_),(* What a call writes to a cell.                               *)
  None       (* No call is in progress.                                     *)

VARIABLES
  cells,     (* What the disk holds.                                        *)
  call,      (* The call in progress, or None.                              *)
  late,      (* The failed call whose last operation still goes on, or None.*)
  good       (* The last call has reported success.                         *)

vars == <<cells, call, late, good>>

Init == cells \in [Cell -> Value] /\ call = None /\ late = None /\ good = FALSE

ChangesOnly(range) ==
  /\ cells' \in [Cell -> Value]
  /\ \A a \in Cell \ range : cells'[a] = cells[a]

(* None: a call of another kind, such as a read.                           *)
Begin(c) ==
  /\ call = None
  /\ call' = c /\ good' = FALSE
  /\ UNCHANGED <<cells, late>>

Work ==
  /\ call # None
  /\ ChangesOnly(Range(call))
  /\ UNCHANGED <<call, late, good>>

LateWork ==
  /\ late # None /\ late' = None
  /\ ChangesOnly(Range(late))
  /\ UNCHANGED <<call, good>>

Succeed ==
  /\ call # None /\ late = None
  /\ \A a \in Range(call) : cells[a] = Image(call, a)
  /\ call' = None /\ good' = TRUE
  /\ UNCHANGED <<cells, late>>

Fail ==
  /\ call # None
  /\ call' = None /\ good' = FALSE
  /\ late' \in {None, late, call}
  /\ ChangesOnly(Range(call) \union IF late = None THEN {} ELSE Range(late))

Next == Work \/ LateWork \/ Succeed \/ Fail \/ \E c \in Calls \union {None} : Begin(c)
Spec == Init /\ [][Next]_vars
=============================================================================
