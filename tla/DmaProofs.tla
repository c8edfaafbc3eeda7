----------------------------- MODULE DmaProofs ------------------------------
(***************************************************************************)
(* Proofs about Dma, for every set of harts, depth of the queue, range of  *)
(* identifiers beyond that depth, and number of calls: an unmixed transfer *)
(* is what its caller asked for, and a blocking call returns only when its *)
(* transfer is complete.                                                   *)
(***************************************************************************)
EXTENDS Dma, TLAPS

Transfer == [id : Nat, by : Harts, call : Nat, regs : [Registers -> Nat],
             nd : BOOLEAN, asked : BOOLEAN, mixed : BOOLEAN]

(* Calls in the queue and the harts' places; nothing else is needed.       *)
Typed ==
  /\ pc \in [Harts -> {"idle", "store", "poll"}]
  /\ op \in [Harts -> Ops] /\ call \in [Harts -> Nat] /\ step \in [Harts -> Nat \ {0}]
  /\ calls \in Nat /\ regs \in [Registers -> Nat] /\ nd \in BOOLEAN
  /\ queue \in Seq(Transfer)
  /\ mixed \in [Harts -> BOOLEAN] /\ next \in Nat
  /\ \A h \in Harts : step[h] > 1 => pc[h] = "store"

IInv == Typed /\ StoresStand /\ AsAsked

(* What a call stores, by place.                                           *)
LEMMA Places ==
  ASSUME NEW o \in Ops
  PROVE  /\ Len(Stores(o)) = IF Is2d(o) THEN 7 ELSE 4
         /\ \A k \in 1 .. Len(Stores(o)) : Stores(o)[k] \in Registers
         /\ \A k \in 1 .. Len(Stores(o)) : Stores(o)[k] = "conf" <=> k = 4
         /\ \A r \in Shape \union (IF Is2d(o) THEN Strides ELSE {}) :
              \E k \in 1 .. Len(Stores(o)) : Stores(o)[k] = r
<1>1. CASE Is2d(o)
  BY <1>1 DEF Stores, Registers, Shape, Strides
<1>2. CASE ~Is2d(o)
  BY <1>2 DEF Stores, Registers, Shape, Strides
<1> QED
  BY <1>1, <1>2

LEMMA Initially == Init => IInv
<1> SUFFICES ASSUME Init PROVE IInv
  OBVIOUS
<1>1. (CHOOSE o \in Ops : TRUE) \in Ops
  BY OpsAssumption
<1>2. queue = <<>> /\ queue \in Seq(Transfer)
  BY DEF Init
<1>3. Typed
  <2>1. pc \in [Harts -> {"idle", "store", "poll"}] /\ mixed \in [Harts -> BOOLEAN]
    BY DEF Init
  <2>2. op \in [Harts -> Ops] /\ call \in [Harts -> Nat] /\ step \in [Harts -> Nat \ {0}]
    BY <1>1 DEF Init
  <2>3. calls \in Nat /\ regs \in [Registers -> Nat] /\ nd \in BOOLEAN /\ next \in Nat
    BY DEF Init
  <2>4. \A h \in Harts : step[h] > 1 => pc[h] = "store"
    BY DEF Init
  <2> QED
    BY <1>2, <2>1, <2>2, <2>3, <2>4 DEF Typed
<1>4. StoresStand /\ AsAsked
  BY <1>2 DEF Init, StoresStand, AsAsked
<1> QED
  BY <1>3, <1>4 DEF IInv

LEMMA CallStep == ASSUME IInv, NEW h \in Harts, Call(h) PROVE IInv'
<1>1. Typed'
  BY DEF IInv, Typed, Call, Goto, engineVars
<1>2. StoresStand'
  BY Places DEF IInv, Typed, StoresStand, Call, Goto, Stores, engineVars
<1>3. AsAsked'
  BY DEF IInv, AsAsked, Call, engineVars
<1> QED
  BY <1>1, <1>2, <1>3 DEF IInv

LEMMA StoreStep == ASSUME IInv, NEW h \in Harts, Store(h) PROVE IInv'
<1> DEFINE r == Stores(op[h])[step[h]]
<1>0. /\ step[h] \in 1 .. Len(Stores(op[h])) /\ r \in Registers /\ (r = "conf" <=> step[h] = 4)
      /\ regs' = [regs EXCEPT ![r] = call[h]]
      /\ nd' = IF r = "conf" THEN Nd(h) ELSE nd
  BY Places DEF IInv, Typed, Store
<1> HIDE DEF r
<1>1. Typed'
  <2>0. regs' \in [Registers -> Nat]
    <3>1. regs \in [Registers -> Nat] /\ call[h] \in Nat
      BY DEF IInv, Typed
    <3> QED
      BY <1>0, <3>1
  <2>1. nd' \in BOOLEAN
    <3>1. Nd(h) \in BOOLEAN /\ nd \in BOOLEAN
      BY DEF Nd, Is2d, IInv, Typed
    <3> QED
      BY <1>0, <3>1, Zenon
  <2>2. step' \in [Harts -> Nat \ {0}] /\ mixed' \in [Harts -> BOOLEAN]
    BY DEF IInv, Typed, Store, InCall
  <2>3. \A g \in Harts : step'[g] > 1 => pc'[g] = "store"
    BY DEF IInv, Typed, Store
  <2> QED
    BY <2>0, <2>1, <2>2, <2>3 DEF IInv, Typed, Store, engineVars
<1>2. ASSUME NEW g \in Harts, pc'[g] = "store", ~mixed'[g]
      PROVE  /\ \A k \in 1 .. Len(Stores(op'[g])) : k < step'[g] => regs'[Stores(op'[g])[k]] = call'[g]
             /\ step'[g] > 4 => nd' = Is2d(op'[g])
  <2>1. CASE g = h
    <3>1. step'[g] = step[h] + 1 /\ ~mixed[h] /\ pc[h] = "store" /\ op' = op /\ call' = call
      BY <1>2, <2>1 DEF IInv, Typed, Store
    <3>2. ASSUME NEW k \in 1 .. Len(Stores(op[h])), k < step[h] + 1
          PROVE  regs'[Stores(op[h])[k]] = call[h]
      <4>1. CASE k = step[h]
        BY <1>0, <4>1 DEF IInv, Typed, r
      <4>2. CASE k < step[h]
        <5>1. regs[Stores(op[h])[k]] = call[h] /\ Stores(op[h])[k] \in Registers
          BY <3>1, <3>2, <4>2, Places DEF IInv, StoresStand, Typed
        <5> QED
          BY <1>0, <5>1 DEF IInv, Typed
      <4> QED
        BY <3>2, <4>1, <4>2, <1>0 DEF IInv, Typed
    <3>3. step[h] + 1 > 4 => nd' = Is2d(op[h])
      BY <1>0, <3>1 DEF IInv, Typed, StoresStand, Nd
    <3> QED
      BY <2>1, <3>1, <3>2, <3>3
  <2>2. CASE g # h
    <3>1. step'[g] = step[g] /\ pc[g] = "store" /\ ~InCall(g)
      BY <1>2, <2>2 DEF IInv, Typed, Store
    <3>2. step'[g] = 1
      BY <3>1 DEF IInv, Typed, InCall
    <3> QED
      BY <3>2
  <2> QED
    BY <2>1, <2>2
<1>3. AsAsked'
  BY DEF IInv, AsAsked, Store, engineVars
<1> QED
  BY <1>1, <1>2, <1>3 DEF IInv, StoresStand

LEMMA LaunchStep == ASSUME IInv, NEW h \in Harts, Launch(h) PROVE IInv'
<1> DEFINE t == [id |-> next, by |-> h, call |-> call[h], regs |-> regs, nd |-> nd,
                 asked |-> Is2d(op[h]), mixed |-> mixed[h]]
<1>0. queue' = Append(queue, t)
  BY DEF Launch
<1>1. t \in Transfer
  BY DEF IInv, Typed, Transfer, Is2d
<1>2. ~t.mixed => /\ t.nd = t.asked
                  /\ \A r \in Shape \union (IF t.nd THEN Strides ELSE {}) : t.regs[r] = t.call
  <2> SUFFICES ASSUME ~mixed[h]
               PROVE  /\ nd = Is2d(op[h])
                      /\ \A r \in Shape \union (IF nd THEN Strides ELSE {}) : regs[r] = call[h]
    OBVIOUS
  <2>1. pc[h] = "store" /\ step[h] > Len(Stores(op[h])) /\ step[h] > 4
    <3>1. op[h] \in Ops /\ step[h] \in Nat /\ pc[h] = "store" /\ step[h] > Len(Stores(op[h]))
      BY DEF Launch, IInv, Typed
    <3>2. Len(Stores(op[h])) = IF Is2d(op[h]) THEN 7 ELSE 4
      BY <3>1, Places, Zenon
    <3> QED
      BY <3>1, <3>2
  <2>2. nd = Is2d(op[h])
    BY <2>1 DEF IInv, StoresStand
  <2>3. \A k \in 1 .. Len(Stores(op[h])) : regs[Stores(op[h])[k]] = call[h]
    BY <2>1, Places DEF IInv, Typed, StoresStand
  <2> QED
    <3>1. op[h] \in Ops
      BY DEF IInv, Typed
    <3> SUFFICES ASSUME NEW r \in Shape \union (IF Is2d(op[h]) THEN Strides ELSE {})
                 PROVE  regs[r] = call[h]
      BY <2>2
    <3>2. PICK k \in 1 .. Len(Stores(op[h])) : Stores(op[h])[k] = r
      BY <3>1, Places, Zenon
    <3> QED
      BY <2>3, <3>2
<1> HIDE DEF t
<1>3. Typed'
  <2>1. queue' \in Seq(Transfer)
    BY <1>0, <1>1 DEF IInv, Typed
  <2>2. next' \in Nat
    BY IdAssumption DEF IInv, Typed, Launch
  <2> QED
    BY <2>1, <2>2 DEF IInv, Typed, Launch
<1>4. StoresStand'
  BY DEF IInv, Typed, StoresStand, Launch
<1>5. AsAsked'
  <2>1. Len(queue') = Len(queue) + 1 /\ queue'[Len(queue) + 1] = t
        /\ \A k \in 1 .. Len(queue) : queue'[k] = queue[k]
    BY <1>0 DEF IInv, Typed
  <2> QED
    <3> SUFFICES ASSUME NEW k \in DOMAIN queue', ~queue'[k].mixed
                 PROVE  /\ queue'[k].nd = queue'[k].asked
                        /\ \A q \in Shape \union (IF queue'[k].nd THEN Strides ELSE {}) :
                             queue'[k].regs[q] = queue'[k].call
      BY DEF AsAsked
    <3>1. k = Len(queue) + 1 \/ k \in DOMAIN queue
      BY <1>0, <1>1, <2>1 DEF IInv, Typed
    <3>2. CASE k = Len(queue) + 1
      BY <1>2, <2>1, <3>2
    <3>3. CASE k \in DOMAIN queue
      <4>0. queue \in Seq(Transfer)
        BY DEF IInv, Typed
      <4>1. k \in 1 .. Len(queue) /\ queue'[k] = queue[k]
        BY <2>1, <3>3, <4>0
      <4> QED
        BY <3>3, <4>1 DEF IInv, AsAsked
    <3> QED
      BY <3>1, <3>2, <3>3
<1> QED
  BY <1>3, <1>4, <1>5 DEF IInv

LEMMA PollStep == ASSUME IInv, NEW h \in Harts, Poll(h) PROVE IInv'
<1>1. Typed'
  BY DEF IInv, Typed, Poll, Goto, engineVars
<1>2. StoresStand'
  BY DEF IInv, Typed, StoresStand, Poll, Goto, engineVars
<1>3. AsAsked'
  BY DEF IInv, AsAsked, Poll, engineVars
<1> QED
  BY <1>1, <1>2, <1>3 DEF IInv

LEMMA FinishStep == ASSUME IInv, Finish PROVE IInv'
<1>1. Typed'
  BY DEF IInv, Typed, Finish, hartVars
<1>2. StoresStand'
  BY DEF IInv, StoresStand, Finish, hartVars
<1>3. AsAsked'
  <2>1. Len(queue') = Len(queue) - 1 /\ \A k \in 1 .. Len(queue') : queue'[k] = queue[k + 1]
    BY DEF IInv, Typed, Finish
  <2> QED
    <3> SUFFICES ASSUME NEW k \in DOMAIN queue', ~queue'[k].mixed
                 PROVE  /\ queue'[k].nd = queue'[k].asked
                        /\ \A q \in Shape \union (IF queue'[k].nd THEN Strides ELSE {}) :
                             queue'[k].regs[q] = queue'[k].call
      BY DEF AsAsked
    <3>0. queue \in Seq(Transfer) /\ queue' \in Seq(Transfer)
      BY <1>1 DEF IInv, Typed
    <3>1. k + 1 \in DOMAIN queue /\ queue'[k] = queue[k + 1]
      BY <2>1, <3>0
    <3> QED
      BY <3>1 DEF IInv, AsAsked
<1> QED
  BY <1>1, <1>2, <1>3 DEF IInv

(* A transfer to which no other hart has stored is what was asked for.     *)
THEOREM Unspoilt == Spec => []AsAsked
<1>1. IInv /\ [Next]_vars => IInv'
  <2> SUFFICES ASSUME IInv, [Next]_vars PROVE IInv'
    OBVIOUS
  <2>1. CASE UNCHANGED vars
    BY <2>1 DEF IInv, Typed, StoresStand, AsAsked, vars, hartVars, engineVars
  <2> QED
    BY <2>1, CallStep, StoreStep, LaunchStep, PollStep, FinishStep DEF Next, Hart
<1>2. IInv => AsAsked
  BY DEF IInv
<1> QED
  BY <1>1, <1>2, Initially, PTL DEF Spec
----------------------------------------------------------------------------
(* Identifiers.  Those in the queue follow the one finished last in order; *)
(* as the queue is shorter than their range, none of them is that one.     *)
Shift(i, k) == IF i + k < IdMod THEN i + k ELSE i + k - IdMod

IdsInOrder ==
  /\ done \in 0 .. IdMod - 1 /\ Len(queue) <= Depth
  /\ next = Shift(done, Len(queue) + 1)
  /\ \A k \in 1 .. Len(queue) : queue[k].id = Shift(done, k)

(* Who polls waits for a transfer in the queue, or it is finished.         *)
PollsOwn ==
  \A h \in Harts :
    pc[h] = "poll" =>
      \/ call[h] \in finished
      \/ \E k \in 1 .. Len(queue) : queue[k].call = call[h] /\ queue[k].id = id[h]

IdTyped == id \in [Harts -> Nat]

WaitInv == Typed /\ IdTyped /\ IdsInOrder /\ PollsOwn /\ BlkMeansDone

(* One step around the range of identifiers.                               *)
LEMMA NextId ==
  ASSUME NEW i \in 0 .. IdMod - 1
  PROVE  (i + 1) % IdMod = Shift(i, 1)
<1>1. IdMod \in Nat \ {0, 1}
  BY IdAssumption
<1>2. CASE i + 1 < IdMod
  <2>1. \A m \in Nat \ {0} : \A j \in 0 .. m - 1 : j % m = j
    OBVIOUS
  <2>2. i + 1 \in 0 .. IdMod - 1 /\ IdMod \in Nat \ {0}
    BY <1>1, <1>2
  <2>3. (i + 1) % IdMod = i + 1
    BY <2>1, <2>2, Zenon
  <2> QED
    BY <1>2, <2>3 DEF Shift
<1>3. CASE ~(i + 1 < IdMod)
  <2>1. i + 1 = IdMod
    BY <1>1, <1>3
  <2>2. \A m \in Nat \ {0} : m % m = 0
    OBVIOUS
  <2>3. (i + 1) % IdMod = 0
    BY <1>1, <2>1, <2>2
  <2> QED
    BY <1>1, <2>1, <2>3 DEF Shift
<1> QED
  BY <1>2, <1>3

LEMMA Shifts ==
  ASSUME NEW i \in 0 .. IdMod - 1
  PROVE  /\ \A k \in 0 .. IdMod : Shift(i, k) \in 0 .. IdMod - 1
         /\ \A k \in 1 .. IdMod - 1 : Shift(i, k) # i /\ Shift(Shift(i, 1), k) = Shift(i, k + 1)
                                     /\ Shift(Shift(i, k), 1) = Shift(i, k + 1)
  BY IdAssumption DEF Shift

LEMMA WaitInitially == Init => WaitInv
<1> SUFFICES ASSUME Init PROVE WaitInv
  OBVIOUS
<1>1. Typed
  BY Initially DEF IInv
<1>2. IdsInOrder
  BY IdAssumption DEF Init, IdsInOrder, Shift
<1> QED
  BY <1>1, <1>2 DEF Init, WaitInv, IdTyped, PollsOwn, BlkMeansDone

(* Calls and stores touch neither the queue nor a hart that waits.         *)
LEMMA WaitCallStore ==
  ASSUME WaitInv, NEW h \in Harts, Call(h) \/ Store(h)
  PROVE  (IdTyped /\ IdsInOrder /\ PollsOwn /\ BlkMeansDone)'
<1>1. UNCHANGED <<id, engineVars, finished>>
  BY DEF Call, Store
<1>2. \A g \in Harts : g # h => pc'[g] = pc[g] /\ op'[g] = op[g] /\ call'[g] = call[g]
  BY DEF WaitInv, Typed, Call, Store, Goto
<1>3. pc'[h] = "store"
  BY DEF WaitInv, Typed, Call, Store, Goto
<1>4. PollsOwn' /\ BlkMeansDone'
  <2> SUFFICES ASSUME NEW g \in Harts, g # h
               PROVE  /\ pc'[g] = "poll" =>
                           \/ call'[g] \in finished'
                           \/ \E k \in 1 .. Len(queue') : queue'[k].call = call'[g] /\ queue'[k].id = id'[g]
                      /\ pc'[g] = "idle" /\ op'[g] \in Blocking /\ call'[g] > 0 => call'[g] \in finished'
    BY <1>3 DEF PollsOwn, BlkMeansDone
  <2> QED
    BY <1>1, <1>2 DEF WaitInv, PollsOwn, BlkMeansDone, engineVars
<1> QED
  BY <1>1, <1>4 DEF WaitInv, IdTyped, IdsInOrder, engineVars, Shift

(* A launch appends the transfer its hart will wait for.                   *)
LEMMA WaitLaunch ==
  ASSUME WaitInv, NEW h \in Harts, Launch(h)
  PROVE  (IdTyped /\ IdsInOrder /\ PollsOwn /\ BlkMeansDone)'
<1> DEFINE t == [id |-> next, by |-> h, call |-> call[h], regs |-> regs, nd |-> nd,
                 asked |-> Is2d(op[h]), mixed |-> mixed[h]]
           n == Len(queue)
<1>1. /\ queue' = Append(queue, t) /\ n < Depth /\ next' = (next + 1) % IdMod
      /\ id' = [id EXCEPT ![h] = next]
      /\ pc' = [pc EXCEPT ![h] = IF op[h] \in Blocking THEN "poll" ELSE "idle"]
      /\ UNCHANGED <<op, call, done, finished>>
  BY DEF Launch
<1>2. t.id = next /\ t.call = call[h] /\ t \in Transfer
  BY DEF Transfer, WaitInv, Typed, Is2d
<1> HIDE DEF t
<1>3. /\ n \in Nat /\ Len(queue') = n + 1 /\ queue'[n + 1] = t
      /\ \A k \in 1 .. n : queue'[k] = queue[k]
  BY <1>1, <1>2 DEF WaitInv, Typed
<1> HIDE DEF n
<1>4. IdsInOrder'
  <2>1. /\ done \in 0 .. IdMod - 1 /\ IdMod \in Nat /\ Depth \in Nat /\ IdMod > Depth /\ n < Depth
        /\ next = Shift(done, n + 1) /\ \A k \in 1 .. n : queue[k].id = Shift(done, k)
    BY <1>1, IdAssumption DEF WaitInv, IdsInOrder, n
  <2>2. n + 1 \in 1 .. IdMod - 1 /\ n + 1 \in 0 .. IdMod
    BY <1>3, <2>1
  <2>3. next \in 0 .. IdMod - 1 /\ Shift(next, 1) = Shift(done, n + 1 + 1)
    BY <2>1, <2>2, Shifts
  <2>4. next' = Shift(done, Len(queue') + 1)
    BY <1>1, <1>3, <2>3, NextId
  <2>5. \A k \in 1 .. n + 1 : queue'[k].id = Shift(done, k)
    <3> SUFFICES ASSUME NEW k \in 1 .. n + 1 PROVE queue'[k].id = Shift(done, k)
      OBVIOUS
    <3>1. CASE k = n + 1
      BY <1>2, <1>3, <2>1, <3>1
    <3>2. CASE k # n + 1
      <4>1. k \in 1 .. n
        BY <1>3, <3>2
      <4> QED
        BY <1>3, <2>1, <4>1
    <3> QED
      BY <3>1, <3>2
  <2>6. Len(queue') <= Depth
    BY <1>3, <2>1
  <2> QED
    BY <1>1, <1>3, <2>1, <2>4, <2>5, <2>6 DEF IdsInOrder, Shift
<1>5. PollsOwn'
  <2> SUFFICES ASSUME NEW g \in Harts, pc'[g] = "poll", call[g] \notin finished
               PROVE  \E k \in 1 .. Len(queue') : queue'[k].call = call[g] /\ queue'[k].id = id'[g]
    BY <1>1 DEF PollsOwn
  <2>1. CASE g = h
    <3>1. id'[h] = next
      BY <1>1 DEF WaitInv, IdTyped
    <3>2. n + 1 \in 1 .. Len(queue')
      BY <1>3
    <3> QED
      BY <1>2, <1>3, <2>1, <3>1, <3>2
  <2>2. CASE g # h
    <3>1. pc[g] = "poll" /\ id'[g] = id[g]
      BY <1>1, <2>2 DEF WaitInv, Typed, IdTyped
    <3>2. PICK k \in 1 .. n : queue[k].call = call[g] /\ queue[k].id = id[g]
      BY <3>1 DEF WaitInv, PollsOwn, n
    <3>3. k \in 1 .. Len(queue') /\ queue'[k] = queue[k]
      BY <1>3, <3>2
    <3> QED
      BY <3>1, <3>2, <3>3
  <2> QED
    BY <2>1, <2>2
<1>6. BlkMeansDone'
  <2> SUFFICES ASSUME NEW g \in Harts, pc'[g] = "idle", op[g] \in Blocking, call[g] > 0
               PROVE  call[g] \in finished
    BY <1>1 DEF BlkMeansDone
  <2>1. g # h /\ pc[g] = "idle"
    BY <1>1 DEF WaitInv, Typed
  <2> QED
    BY <2>1 DEF WaitInv, BlkMeansDone
<1>7. IdTyped'
  BY <1>1 DEF WaitInv, IdTyped, Typed
<1> QED
  BY <1>4, <1>5, <1>6, <1>7

(* A hart that finds its own identifier finds its transfer finished: none  *)
(* that is still in the queue has that identifier.                         *)
LEMMA WaitPoll ==
  ASSUME WaitInv, NEW h \in Harts, Poll(h)
  PROVE  (IdTyped /\ IdsInOrder /\ PollsOwn /\ BlkMeansDone)'
<1>1. /\ pc[h] = "poll" /\ done = id[h] /\ pc' = [pc EXCEPT ![h] = "idle"]
      /\ UNCHANGED <<op, call, id, engineVars, finished>>
  BY DEF Poll, Goto, Arrived
<1>2. call[h] \in finished
  <2> SUFFICES ASSUME NEW k \in 1 .. Len(queue), queue[k].id = id[h] PROVE FALSE
    BY <1>1 DEF WaitInv, PollsOwn
  <2>1. Len(queue) \in Nat /\ Len(queue) <= Depth /\ done \in 0 .. IdMod - 1 /\ queue[k].id = Shift(done, k)
    BY DEF WaitInv, Typed, IdsInOrder
  <2>2. k \in 1 .. IdMod - 1
    BY <2>1, IdAssumption
  <2> QED
    BY <1>1, <2>1, <2>2, Shifts
<1>3. \A g \in Harts : pc'[g] = IF g = h THEN "idle" ELSE pc[g]
  BY <1>1 DEF WaitInv, Typed
<1>4. PollsOwn' /\ BlkMeansDone'
  BY <1>1, <1>2, <1>3 DEF WaitInv, PollsOwn, BlkMeansDone, engineVars
<1> QED
  BY <1>1, <1>4 DEF WaitInv, IdTyped, IdsInOrder, engineVars, Shift

(* The engine moves on to the next identifier.                             *)
LEMMA WaitFinish ==
  ASSUME WaitInv, Finish
  PROVE  (IdTyped /\ IdsInOrder /\ PollsOwn /\ BlkMeansDone)'
<1> DEFINE n == Len(queue)
<1>1. /\ done' = queue[1].id /\ finished' = finished \union {queue[1].call}
      /\ UNCHANGED <<pc, op, call, id, next>>
  BY DEF Finish, hartVars
<1>2. /\ n \in Nat /\ n >= 1 /\ Len(queue') = n - 1
      /\ \A k \in 1 .. n - 1 : queue'[k] = queue[k + 1]
  BY DEF WaitInv, Typed, Finish
<1>3. /\ done \in 0 .. IdMod - 1 /\ n <= Depth /\ next = Shift(done, n + 1)
      /\ \A k \in 1 .. n : queue[k].id = Shift(done, k)
  BY DEF WaitInv, IdsInOrder
<1> HIDE DEF n
<1>4. IdsInOrder'
  <2>1. IdMod \in Nat /\ Depth \in Nat /\ Depth < IdMod
    BY IdAssumption
  <2>2. 1 \in 1 .. n /\ 1 \in 0 .. IdMod /\ n \in 1 .. IdMod - 1
    BY <1>2, <1>3, <2>1
  <2>3. done' = Shift(done, 1) /\ done' \in 0 .. IdMod - 1
    BY <1>1, <1>3, <2>2, Shifts
  <2>4. next' = Shift(done', Len(queue') + 1)
    <3>1. Shift(Shift(done, 1), n) = Shift(done, n + 1)
      BY <1>3, <2>2, Shifts
    <3>2. Len(queue') + 1 = n
      BY <1>2
    <3> QED
      BY <1>1, <1>3, <2>3, <3>1, <3>2
  <2>5. \A k \in 1 .. Len(queue') : queue'[k].id = Shift(done', k)
    <3> SUFFICES ASSUME NEW k \in 1 .. n - 1 PROVE queue'[k].id = Shift(done', k)
      BY <1>2
    <3>1. k + 1 \in 1 .. n /\ k \in 1 .. IdMod - 1
      BY <1>2, <1>3, <2>1
    <3>2. queue'[k].id = Shift(done, k + 1)
      BY <1>2, <1>3, <3>1
    <3>3. Shift(Shift(done, 1), k) = Shift(done, k + 1)
      BY <1>3, <3>1, Shifts
    <3> QED
      BY <2>3, <3>2, <3>3
  <2>6. Len(queue') <= Depth
    BY <1>2, <1>3, <2>1
  <2> QED
    BY <2>3, <2>4, <2>5, <2>6 DEF IdsInOrder, Shift
<1>5. PollsOwn'
  <2> SUFFICES ASSUME NEW g \in Harts, pc[g] = "poll", call[g] \notin finished'
               PROVE  \E k \in 1 .. Len(queue') : queue'[k].call = call[g] /\ queue'[k].id = id[g]
    BY <1>1 DEF PollsOwn
  <2>1. PICK k \in 1 .. n : queue[k].call = call[g] /\ queue[k].id = id[g]
    BY <1>1 DEF WaitInv, PollsOwn, n
  <2>2. k # 1
    BY <1>1, <2>1
  <2>3. k - 1 \in 1 .. n - 1 /\ (k - 1) + 1 = k
    BY <1>2, <2>2
  <2>4. queue'[k - 1] = queue[k] /\ k - 1 \in 1 .. Len(queue')
    BY <1>2, <2>3
  <2> QED
    BY <2>1, <2>4
<1> QED
  BY <1>1, <1>4, <1>5 DEF WaitInv, IdTyped, BlkMeansDone

(* A blocking call that has returned has had its transfer done, although   *)
(* it has only compared identifiers, which wrap around.                    *)
THEOREM BlockingWaits == Spec => []BlkMeansDone
<1>1. IInv /\ WaitInv /\ [Next]_vars => (IInv /\ WaitInv)'
  <2> SUFFICES ASSUME IInv, WaitInv, [Next]_vars PROVE IInv' /\ WaitInv'
    OBVIOUS
  <2>1. CASE UNCHANGED vars
    <3>1. IInv'
      BY <2>1 DEF IInv, Typed, StoresStand, AsAsked, vars, hartVars, engineVars
    <3>2. (IdTyped /\ IdsInOrder /\ PollsOwn /\ BlkMeansDone)'
      BY <2>1 DEF WaitInv, IdTyped, IdsInOrder, PollsOwn, BlkMeansDone, Shift, vars, hartVars, engineVars
    <3> QED
      BY <3>1, <3>2 DEF WaitInv, IInv
  <2>2. CASE Next
    <3>1. IInv'
      BY <2>2, CallStep, StoreStep, LaunchStep, PollStep, FinishStep DEF Next, Hart
    <3>2. (IdTyped /\ IdsInOrder /\ PollsOwn /\ BlkMeansDone)'
      BY <2>2, WaitCallStore, WaitLaunch, WaitPoll, WaitFinish DEF Next, Hart
    <3> QED
      BY <3>1, <3>2 DEF WaitInv, IInv
  <2> QED
    BY <2>1, <2>2
<1>2. WaitInv => BlkMeansDone
  BY DEF WaitInv
<1> QED
  BY <1>1, <1>2, Initially, WaitInitially, PTL DEF Spec
=============================================================================
