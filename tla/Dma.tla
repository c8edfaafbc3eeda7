--------------------------------- MODULE Dma --------------------------------
(***************************************************************************)
(* The DMA driver (sw/include/dif/dma.h) as several harts use it, over the *)
(* engine's one set of descriptor registers.                               *)
(*                                                                         *)
(* A call stores its arguments one register at a time; reading the next    *)
(* identifier launches what the registers hold then.  The engine works its *)
(* queue off in order and shows the identifier it has finished last.  The  *)
(* arguments of a call are named by the call, so that every register shows *)
(* whose value it holds.                                                   *)
(***************************************************************************)
EXTENDS Integers, Sequences

CONSTANTS
  Harts,
  Ops,       (* Of the four functions below, those that harts call.         *)
  Depth,     (* Transfers the engine holds.                                 *)
  IdMod,     (* Identifiers wrap around at this number: 2^32.               *)
  MaxCalls   (* Bound on the calls of a behaviour.                          *)

ASSUME HartsAssumption == Harts # {}
ASSUME OpsAssumption   == Ops # {} /\ Ops \subseteq {"memcpy", "blk_memcpy", "2d_memcpy", "2d_blk_memcpy"}
ASSUME IdAssumption    == Depth \in Nat \ {0} /\ IdMod \in Nat /\ IdMod > Depth
ASSUME CallsAssumption == MaxCalls \in Nat

VARIABLES
  pc, op, call, step, id,   (* Per hart.                                    *)
  calls,                    (* Calls so far.                                *)
  regs, nd,                 (* Registers; of conf, the two-dimensional bit. *)
  next, done, queue,        (* Identifiers; transfers not yet finished.     *)
  mixed,    (* Per hart: somebody stored between its first store and launch.*)
  finished, (* Calls whose transfer is complete.                            *)
  last      (* The hart whose transfer was finished last.                   *)

hartVars   == <<pc, op, call, step, id>>
engineVars == <<next, done, queue>>
vars == <<hartVars, calls, regs, nd, engineVars, mixed, finished, last>>

Calls     == 0 .. MaxCalls
Blocking  == {"blk_memcpy", "2d_blk_memcpy"}
Is2d(o)   == o \in {"2d_memcpy", "2d_blk_memcpy"}

Shape     == {"src", "dst", "num_bytes", "conf"}
Strides   == {"src_stride", "dst_stride", "num_reps"}
Registers == Shape \union Strides

(* What a call stores, in order.                                           *)
Stores(o) ==
  IF Is2d(o) THEN << "src", "dst", "num_bytes", "conf", "src_stride", "dst_stride", "num_reps" >>
             ELSE << "src", "dst", "num_bytes", "conf" >>

Init ==
  /\ pc = [h \in Harts |-> "idle"] /\ op = [h \in Harts |-> CHOOSE o \in Ops : TRUE]
  /\ call = [h \in Harts |-> 0] /\ step = [h \in Harts |-> 1] /\ id = [h \in Harts |-> 0]
  /\ calls = 0
  /\ regs = [r \in Registers |-> 0] /\ nd = FALSE
  /\ next = 1 /\ done = 0 /\ queue = <<>>
  /\ mixed = [h \in Harts |-> FALSE] /\ finished = {} /\ last = CHOOSE h \in Harts : TRUE

Goto(h, from, to) == pc[h] = from /\ pc' = [pc EXCEPT ![h] = to]

Call(h) ==
  /\ Goto(h, "idle", "store")
  /\ calls < MaxCalls /\ calls' = calls + 1
  /\ call' = [call EXCEPT ![h] = calls + 1]
  /\ \E o \in Ops : op' = [op EXCEPT ![h] = o]
  /\ UNCHANGED <<step, mixed, id, regs, nd, engineVars, finished, last>>

(* A conf of a one-dimensional call has its bit clear.                     *)
NdKept(h) == nd \/ Is2d(op[h])
Nd(h)     == Is2d(op[h])

InCall(g) == pc[g] = "store" /\ step[g] > 1

Store(h) ==
  /\ pc[h] = "store" /\ step[h] <= Len(Stores(op[h]))
  /\ LET r == Stores(op[h])[step[h]]
     IN  /\ regs' = [regs EXCEPT ![r] = call[h]]
         /\ nd'   = IF r = "conf" THEN Nd(h) ELSE nd
  /\ step'  = [step EXCEPT ![h] = @ + 1]
  /\ mixed' = [g \in Harts |-> mixed[g] \/ (g # h /\ InCall(g))]
  /\ UNCHANGED <<pc, op, call, id, calls, engineVars, finished, last>>

(* Read the next identifier: the read is answered once there is room.      *)
Launch(h) ==
  /\ pc[h] = "store" /\ step[h] > Len(Stores(op[h]))
  /\ Len(queue) < Depth
  /\ LET t == [id |-> next, by |-> h, call |-> call[h], regs |-> regs, nd |-> nd,
               asked |-> Is2d(op[h]), mixed |-> mixed[h]]
     IN  queue' = Append(queue, t)
  /\ next' = (next + 1) % IdMod
  /\ id'   = [id EXCEPT ![h] = next]
  /\ pc'   = [pc EXCEPT ![h] = IF op[h] \in Blocking THEN "poll" ELSE "idle"]
  /\ step'  = [step EXCEPT ![h] = 1]
  /\ mixed' = [mixed EXCEPT ![h] = FALSE]
  /\ UNCHANGED <<op, call, calls, regs, nd, done, finished, last>>

(* Until the identifier finished last is the call's own.                   *)
ArrivedOrAfter(h) == done >= id[h]
ArrivedPast(h)    == done > id[h]
Arrived(h)        == done = id[h]

Poll(h) ==
  /\ Goto(h, "poll", "idle")
  /\ Arrived(h)
  /\ UNCHANGED <<op, call, step, id, calls, regs, nd, engineVars, mixed, finished, last>>

(* The engine finishes the transfer at the head of its queue.              *)
Finish ==
  /\ queue # <<>> /\ queue' = Tail(queue)
  /\ done' = Head(queue).id /\ last' = Head(queue).by
  /\ finished' = finished \union {Head(queue).call}
  /\ UNCHANGED <<hartVars, calls, regs, nd, next, mixed>>

Hart(h) == Store(h) \/ Launch(h) \/ Poll(h)
Next    == Finish \/ \E h \in Harts : Call(h) \/ Hart(h)
Spec    == Init /\ [][Next]_vars

(* Harts run, and the engine works its queue off.                          *)
FairSpec == Spec /\ WF_vars(Finish) /\ \A h \in Harts : WF_vars(Hart(h))

----------------------------------------------------------------------------
(* Every variable keeps its type, and no step runs past a call's stores.   *)
Transfers == [id : Nat, by : Harts, call : Calls, regs : [Registers -> Calls],
              nd : BOOLEAN, asked : BOOLEAN, mixed : BOOLEAN]

TypeOK ==
  /\ pc \in [Harts -> {"idle", "store", "poll"}] /\ op \in [Harts -> Ops]
  /\ call \in [Harts -> Calls] /\ step \in [Harts -> 1 .. 8] /\ id \in [Harts -> Nat]
  /\ calls \in Calls /\ regs \in [Registers -> Calls] /\ nd \in BOOLEAN
  /\ next \in Nat /\ done \in Nat /\ queue \in Seq(Transfers)
  /\ mixed \in [Harts -> BOOLEAN] /\ finished \subseteq Calls /\ last \in Harts

(* A transfer is what its caller asked for: each register that counts for  *)
(* it holds the caller's value, and strides left behind by an earlier      *)
(* two-dimensional call are not used; only a store of another hart between *)
(* the call's first store and its launch can spoil it.                     *)
AsAsked ==
  \A k \in DOMAIN queue :
    LET t == queue[k] IN
    ~t.mixed => /\ t.nd = t.asked
                /\ \A r \in Shape \union (IF t.nd THEN Strides ELSE {}) : t.regs[r] = t.call

(* The inductive invariant behind it: unless somebody has stored between   *)
(* its first store and now, a call's stores so far stand in the registers. *)
StoresStand ==
  \A h \in Harts :
    pc[h] = "store" /\ ~mixed[h] =>
      /\ \A k \in 1 .. Len(Stores(op[h])) : k < step[h] => regs[Stores(op[h])[k]] = call[h]
      /\ step[h] > 4 => nd = Is2d(op[h])

(* When a blocking call returns its own transfer is complete, although     *)
(* identifiers wrap around and other harts' transfers are in the queue.    *)
BlkMeansDone ==
  \A h \in Harts :
    pc[h] = "idle" /\ op[h] \in Blocking /\ call[h] > 0 => call[h] \in finished

(* A wait comes to an end, or another hart's transfer was finished after   *)
(* it before the register was polled: the equality is then lost until the  *)
(* identifiers have wrapped around.                                        *)
Overtaken(h) == call[h] \in finished /\ done # id[h] /\ last # h

WaitEnds == \A h \in Harts : pc[h] = "store" ~> (pc[h] = "idle" \/ Overtaken(h))
=============================================================================
