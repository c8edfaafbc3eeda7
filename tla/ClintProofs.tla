---------------------------- MODULE ClintProofs -----------------------------
(***************************************************************************)
(* Theorems about Clint, for every width of the halves of mtime, ratio of  *)
(* the clocks, lag of the hart and set of calls: no spin ends early, the   *)
(* measured frequency is right to within a round of the loop, and no spin  *)
(* and no measurement takes longer than it should by more than three       *)
(* rounds.                                                                 *)
(*                                                                         *)
(* The first is about one read of mtime at a time.  Between its loads the  *)
(* clock moves on, so the value lies between the times of the two loads if *)
(* no carry falls between them; and if one does, a read that begins with   *)
(* the high half still yields nothing later than its end.                  *)
(*                                                                         *)
(* The other two are about the pace of a call.  A read that is not torn is *)
(* exact at its load of the low half, so each place of a call bounds how   *)
(* far the cycle counter is from the tick that was read, and the hart's    *)
(* lag bounds how far it moves from one place to the next.                 *)
(***************************************************************************)
EXTENDS Clint, TLAPS

Spins == {"spin_until", "spin_ticks"}
Ops   == Spins \union {"none", "sleep_until", "sleep_ticks", "core_freq"}
Pcs   == {"idle", "first", "second", "decide", "cycle", "set_hi", "set_lo", "enable", "wfi", "asleep",
          "trapped", "stuck"}

(* The steps of a sleep after its read of mtime.                           *)
Sleeping == SleepUntil \/ SetHigh \/ SetLow \/ EnableTimer \/ Wfi \/ Trap \/ HandlerSpins \/ HandlerReturns

Typed ==
  /\ pc \in Pcs /\ cycle \in Nat /\ began \in Nat /\ highFirst \in BOOLEAN /\ torn \in BOOLEAN
  /\ req \in [op : Ops, n : Nat] /\ half \in Nat /\ time \in Nat /\ target \in Nat

(* The call began in the past.                                             *)
Began == began <= cycle

(* A spin is at one of its own places.                                     *)
Places ==
  /\ req.op = "none" => pc = "idle" /\ ~torn
  /\ req.op = "spin_until" => at \in {"spin", "none"}
  /\ req.op = "spin_ticks" => at \in {"spin_base", "spin", "none"}
  /\ req.op \in Spins => pc \in {"idle", "first", "second", "decide"}
  /\ at = "none" => pc = "idle"

(* Between the two loads, time is that of the first.                       *)
Reading ==
  pc = "second" =>
    /\ time <= Mtime /\ began \div Ratio <= time
    /\ half = IF highFirst THEN Hi(time) ELSE Lo(time)

(* What a read has yielded is past neither end, unless torn.               *)
ReadValue ==
  pc = "decide" => /\ highFirst \/ ~torn => time <= Mtime
                   /\ ~torn => began \div Ratio <= time

(* The target of a spin for a number of ticks.                             *)
Target ==
  req.op = "spin_ticks" /\ at # "spin_base" /\ ~torn => began \div Ratio + req.n <= target

IInv == Typed /\ Began /\ Places /\ Reading /\ ReadValue /\ Target /\ NotEarly
----------------------------------------------------------------------------
LEMMA Constants == Half \in Nat \ {0} /\ Ratio \in Nat \ {0}
  BY TimeAssumption

(* Halves of a time, and how they grow.                                    *)
LEMMA Halves ==
  ASSUME NEW t \in Nat
  PROVE  /\ Hi(t) \in Nat /\ Lo(t) \in Nat
         /\ t = Half * Hi(t) + Lo(t) /\ Lo(t) < Half
<1>1. Half \in Nat \ {0}
  BY Constants
<1> QED
  BY <1>1 DEF Hi, Lo

LEMMA DivGrows ==
  ASSUME NEW d \in Nat \ {0}, NEW x \in Nat, NEW y \in Nat, x <= y
  PROVE  x \div d \in Nat /\ y \div d \in Nat /\ x \div d <= y \div d
<1> DEFINE p == x \div d
           q == y \div d
<1>1. p \in Nat /\ q \in Nat /\ d * p <= x /\ y < d * q + d
  OBVIOUS
<1> HIDE DEF p, q
<1>2. CASE p > q
  <2>1. d * (p - q - 1) >= 0
    BY <1>1, <1>2
  <2>2. d * (p - q - 1) = d * p - d * q - d
    BY <1>1
  <2> QED
    BY <1>1, <2>1, <2>2
<1>3. CASE p <= q
  BY <1>1, <1>3 DEF p, q
<1> QED
  BY <1>1, <1>2, <1>3

LEMMA HighGrows ==
  ASSUME NEW s \in Nat, NEW t \in Nat, s <= t
  PROVE  Hi(s) <= Hi(t)
  BY Constants, DivGrows DEF Hi

(* A read with the high half first.                                        *)
LEMMA HighThenLow ==
  ASSUME NEW s \in Nat, NEW t \in Nat, s <= t
  PROVE  /\ Hi(s) * Half + Lo(t) \in Nat /\ Hi(s) * Half + Lo(t) <= t
         /\ Hi(s) = Hi(t) => s <= Hi(s) * Half + Lo(t)
<1> DEFINE h == Hi(s)
           k == Hi(t)
<1>1. /\ h \in Nat /\ k \in Nat /\ Lo(s) \in Nat /\ Lo(t) \in Nat /\ Half \in Nat
      /\ s = Half * h + Lo(s) /\ t = Half * k + Lo(t) /\ h <= k
  BY Halves, HighGrows, Constants
<1> HIDE DEF h, k
<1>2. Half * h <= Half * k
  <2>1. Half * (k - h) >= 0
    BY <1>1
  <2> QED
    BY <1>1, <2>1
<1>3. h * Half = Half * h /\ Half * h \in Nat /\ Half * k \in Nat
  BY <1>1
<1>4. h * Half + Lo(t) \in Nat /\ h * Half + Lo(t) <= t
  BY <1>1, <1>2, <1>3
<1>5. h = k => s <= h * Half + Lo(t)
  BY <1>1, <1>3
<1> QED
  BY <1>4, <1>5 DEF h, k

(* A read with the low half first.                                         *)
LEMMA LowThenHigh ==
  ASSUME NEW s \in Nat, NEW t \in Nat, s <= t
  PROVE  /\ Hi(t) * Half + Lo(s) \in Nat
         /\ Hi(s) = Hi(t) => s <= Hi(t) * Half + Lo(s) /\ Hi(t) * Half + Lo(s) <= t
<1> DEFINE h == Hi(s)
           k == Hi(t)
<1>1. /\ h \in Nat /\ k \in Nat /\ Lo(s) \in Nat /\ Lo(t) \in Nat /\ Half \in Nat
      /\ s = Half * h + Lo(s) /\ t = Half * k + Lo(t)
  BY Halves, Constants
<1> HIDE DEF h, k
<1>2. k * Half = Half * k /\ Half * k \in Nat
  BY <1>1
<1>3. k * Half + Lo(s) \in Nat
  BY <1>1, <1>2
<1>4. h = k => k * Half + Lo(s) = s
  BY <1>1, <1>2
<1> QED
  BY <1>3, <1>4 DEF h, k

LEMMA Times ==
  ASSUME Typed, Began
  PROVE  Mtime \in Nat /\ began \div Ratio \in Nat /\ began \div Ratio <= Mtime
  BY Constants, DivGrows DEF Typed, Began, Mtime
----------------------------------------------------------------------------
LEMMA InitIInv == Init => IInv
<1> SUFFICES ASSUME Init PROVE IInv
  OBVIOUS
<1>1. cycle \in Nat
  <2>1. Half * Ratio \in Nat
    BY Constants
  <2> QED
    BY <2>1 DEF Init
<1> QED
  <2>1. pc = "idle" /\ at = "none" /\ req = [op |-> "none", n |-> 0] /\ ~torn /\ began = 0
    BY DEF Init
  <2>2. Typed /\ Began
    <3>1. req \in [op : Ops, n : Nat]
      BY <2>1 DEF Ops
    <3>2. half = 0 /\ time = 0 /\ target = 0
      BY DEF Init
    <3>3. torn \in BOOLEAN /\ highFirst \in BOOLEAN
      BY DEF Init
    <3>4. Began
      BY <1>1, <2>1 DEF Began
    <3> QED
      BY <1>1, <2>1, <3>1, <3>2, <3>3, <3>4 DEF Typed, Pcs
  <2> QED
    BY <2>1, <2>2 DEF IInv, Places, Reading, ReadValue, Target, NotEarly, Done, Spins

(* The clock only moves on.                                                *)
LEMMA TickIInv == IInv /\ Tick => IInv'
<1> SUFFICES ASSUME IInv, Tick PROVE IInv'
  OBVIOUS
<1>1. /\ cycle \in Nat /\ cycle' = cycle + 1 /\ pc # "idle" /\ time \in Nat
      /\ UNCHANGED <<highFirst, pc, at, half, torn, time, callVars, alarmVars>>
  BY DEF IInv, Typed, Tick
<1>2. Mtime \in Nat /\ Mtime' \in Nat /\ Mtime <= Mtime'
  <2>1. cycle + 1 \in Nat /\ cycle <= cycle + 1
    BY <1>1
  <2>2. cycle \div Ratio <= (cycle + 1) \div Ratio /\ cycle \div Ratio \in Nat /\ (cycle + 1) \div Ratio \in Nat
    BY <1>1, <2>1, Constants, DivGrows
  <2> QED
    BY <1>1, <2>2 DEF Mtime
<1>3. Typed' /\ Began' /\ Places' /\ Target' /\ NotEarly'
  BY <1>1 DEF IInv, Typed, Began, Places, Target, NotEarly, Done, callVars
<1>4. Reading' /\ ReadValue'
  <2>1. time <= Mtime => time <= Mtime'
    BY <1>1, <1>2
  <2> QED
    BY <1>1, <2>1 DEF IInv, Reading, ReadValue, Hi, Lo, callVars
<1> QED
  BY <1>3, <1>4 DEF IInv

LEMMA CallIInv == IInv /\ Call => IInv'
<1> SUFFICES ASSUME IInv, Call PROVE IInv'
  OBVIOUS
<1>1. /\ pc' = "first" /\ req' \in Requests /\ at' = Entry[req'.op] /\ target' = req'.n /\ began' = cycle
      /\ UNCHANGED <<cycle, highFirst, half, torn, time, start, end>>
  BY DEF Call, Goto, Acts
<1>2. req' \in [op : Ops \ {"none"}, n : Nat]
  BY <1>1, RequestAssumption DEF Ops, Spins
<1>3. /\ req'.op = "spin_until" => at' = "spin"
      /\ req'.op = "spin_ticks" => at' = "spin_base"
      /\ at' # "none"
  BY <1>1, <1>2 DEF Entry, Ops, Spins
<1>4. Typed' /\ Began' /\ Places'
  BY <1>1, <1>2, <1>3 DEF IInv, Typed, Began, Places, Pcs, Ops, Spins
<1> QED
  BY <1>1, <1>3, <1>4 DEF IInv, Reading, ReadValue, Target, NotEarly, Done

LEMMA LoadFirstIInv == IInv /\ LoadFirst => IInv'
<1> SUFFICES ASSUME IInv, LoadFirst PROVE IInv'
  OBVIOUS
<1>1. /\ pc = "first" /\ pc' = "second" /\ time' = Mtime
      /\ UNCHANGED <<cycle, highFirst, at, torn, callVars, alarmVars>>
      /\ half' = IF highFirst THEN Hi(Mtime) ELSE Lo(Mtime)
  BY DEF LoadFirst, Goto, Acts
<1>2. Mtime \in Nat /\ began \div Ratio \in Nat /\ began \div Ratio <= Mtime /\ Mtime' = Mtime
  BY <1>1, Times DEF IInv, Mtime
<1>3. Hi(Mtime) \in Nat /\ Lo(Mtime) \in Nat
  BY <1>2, Halves
<1>4. Typed' /\ Began' /\ Places'
  BY <1>1, <1>2, <1>3 DEF IInv, Typed, Began, Places, Pcs, Ops, Spins, callVars
<1>5. Reading'
  BY <1>1, <1>2 DEF Reading, Hi, Lo, callVars
<1> QED
  BY <1>1, <1>4, <1>5 DEF IInv, ReadValue, Target, NotEarly, Done, callVars

(* The value of a read.                                                    *)
LEMMA LoadSecondIInv == IInv /\ LoadSecond => IInv'
<1> SUFFICES ASSUME IInv, LoadSecond PROVE IInv'
  OBVIOUS
<1>1. /\ pc = "second" /\ pc' = "decide" /\ UNCHANGED <<cycle, highFirst, at, half, callVars, alarmVars>>
      /\ torn' = (torn \/ Hi(time) # Hi(Mtime))
      /\ time' = IF highFirst THEN half * Half + Lo(Mtime) ELSE Hi(Mtime) * Half + half
  BY DEF LoadSecond, Goto, Acts
<1>2. /\ Mtime \in Nat /\ began \div Ratio \in Nat /\ Mtime' = Mtime /\ time \in Nat
      /\ time <= Mtime /\ began \div Ratio <= time
      /\ half = IF highFirst THEN Hi(time) ELSE Lo(time)
      /\ torn \in BOOLEAN /\ highFirst \in BOOLEAN
  BY <1>1, Times DEF IInv, Mtime, Typed, Reading
<1>3. /\ time' \in Nat
      /\ highFirst \/ Hi(time) = Hi(Mtime) => time' <= Mtime
      /\ Hi(time) = Hi(Mtime) => time <= time'
  <2>1. CASE highFirst
    BY <1>1, <1>2, <2>1, HighThenLow
  <2>2. CASE ~highFirst
    BY <1>1, <1>2, <2>2, LowThenHigh
  <2> QED
    BY <2>1, <2>2
<1>4. /\ highFirst \/ ~torn' => time' <= Mtime
      /\ ~torn' => began \div Ratio <= time' /\ ~torn
      /\ torn' \in BOOLEAN
  <2>1. ~torn' => Hi(time) = Hi(Mtime) /\ ~torn
    BY <1>1, <1>2
  <2>2. Hi(time) = Hi(Mtime) => began \div Ratio <= time'
    BY <1>2, <1>3
  <2> QED
    BY <1>1, <1>3, <2>1, <2>2
<1>5. Typed' /\ Began' /\ Places'
  BY <1>1, <1>3, <1>4 DEF IInv, Typed, Began, Places, Pcs, Ops, Spins, callVars
<1>6. ReadValue'
  BY <1>1, <1>2, <1>4 DEF ReadValue, callVars
<1>7. Target'
  BY <1>1, <1>4 DEF IInv, Target, callVars
<1> QED
  BY <1>1, <1>5, <1>6, <1>7 DEF IInv, Reading, NotEarly, Done
----------------------------------------------------------------------------
(* The decisions.                                                          *)
LEMMA SpinUntilIInv == IInv /\ SpinUntil => IInv'
<1> SUFFICES ASSUME IInv, SpinUntil PROVE IInv'
  OBVIOUS
<1>1. /\ pc = "decide" /\ at = "spin"
      /\ UNCHANGED <<cycle, highFirst, half, torn, time, req, began, target, start, end>>
      /\ \/ time < target /\ pc' = "first" /\ at' = "spin"
         \/ ~(time < target) /\ pc' = "idle" /\ at' = "none"
  BY DEF SpinUntil, Decides, Acts, SpinMore, ReadAgain, Return
<1>2. Typed' /\ Began' /\ Places'
  BY <1>1 DEF IInv, Typed, Began, Places, Pcs, Ops, Spins
<1>3. Reading' /\ ReadValue' /\ Target'
  BY <1>1 DEF IInv, Reading, ReadValue, Target
<1>4. NotEarly'
  <2>1. SUFFICES ASSUME pc' = "idle", req.op \in Spins, ~(torn /\ ~(highFirst /\ req.op = "spin_until"))
                 PROVE  /\ Mtime >= target
                        /\ req.op = "spin_ticks" => Mtime >= began \div Ratio + req.n
    BY <1>1 DEF NotEarly, Done, Spins, Mtime
  <2>2. time <= Mtime /\ ~(time < target)
    BY <1>1, <2>1 DEF IInv, Typed, ReadValue
  <2>3. Mtime \in Nat /\ time \in Nat /\ target \in Nat /\ began \div Ratio \in Nat /\ req.n \in Nat
    BY Times DEF IInv, Typed
  <2>4. Mtime >= target
    BY <2>2, <2>3
  <2>5. req.op = "spin_ticks" => began \div Ratio + req.n <= target
    BY <1>1, <2>1 DEF IInv, Target
  <2> QED
    BY <2>3, <2>4, <2>5
<1> QED
  BY <1>2, <1>3, <1>4 DEF IInv

LEMMA AddTicksIInv == IInv /\ AddTicks => IInv'
<1> SUFFICES ASSUME IInv, AddTicks PROVE IInv'
  OBVIOUS
<1>1. /\ pc = "decide" /\ pc' = "first" /\ target' = time + req.n
      /\ UNCHANGED <<cycle, highFirst, half, torn, time, req, began, start, end>>
      /\ \/ at = "spin_base" /\ at' = "spin"
         \/ at = "sleep_base" /\ at' = "sleep"
  BY DEF AddTicks, Decides, Acts, ReadAgain
<1>2. target' \in Nat /\ time \in Nat /\ req.n \in Nat
  BY <1>1 DEF IInv, Typed
<1>3. Typed' /\ Began' /\ Places'
  BY <1>1, <1>2 DEF IInv, Typed, Began, Places, Pcs, Ops, Spins
<1>4. Target'
  <2>1. ~torn => began \div Ratio <= time /\ began \div Ratio \in Nat
    BY <1>1, Times DEF IInv, ReadValue
  <2>2. ~torn => began \div Ratio + req.n <= target'
    BY <1>1, <1>2, <2>1
  <2> QED
    BY <1>1, <2>2 DEF Target
<1> QED
  BY <1>1, <1>3, <1>4 DEF IInv, Reading, ReadValue, NotEarly, Done

(* The steps of the other calls.                                           *)
LEMMA OthersIInv ==
  ASSUME IInv, EndMtime \/ ReadCycle \/ StartMtime \/ EndMtimeMore \/ Sleeping
  PROVE  IInv'
<1>1. /\ UNCHANGED <<cycle, highFirst, half, torn, time, req, began, target>>
      /\ pc' \in {"idle", "first", "cycle", "set_hi", "set_lo", "enable", "wfi", "asleep", "trapped", "stuck"}
      /\ pc \notin {"idle", "first", "second"} /\ (pc = "decide" => at \notin {"spin", "spin_base", "none"})
      /\ (at' = "none" => pc' = "idle")
  <2>1. CASE EndMtime \/ ReadCycle \/ StartMtime \/ EndMtimeMore
    BY <2>1 DEF EndMtime, ReadCycle, StartMtime, EndMtimeMore, Decides, Acts, Goto, ReadAgain, Return,
                callVars, IInv, Places
  <2>2. CASE SleepUntil \/ SetHigh \/ SetLow \/ EnableTimer \/ Wfi
    BY <2>2 DEF SleepUntil, SetHigh, SetLow, EnableTimer, Wfi, Decides, Acts, Goto, Return, callVars, IInv, Places
  <2>3. CASE Trap \/ HandlerSpins \/ HandlerReturns
    BY <2>3 DEF Trap, HandlerSpins, HandlerReturns, Acts, Goto, Return, callVars, IInv, Places
  <2> QED
    BY <2>1, <2>2, <2>3 DEF Sleeping
<1>2. req.op \notin Spins /\ req.op # "none"
  BY <1>1 DEF IInv, Typed, Pcs, Places, Spins
<1>3. Typed' /\ Began' /\ Places'
  BY <1>1, <1>2 DEF IInv, Typed, Began, Places, Pcs, Ops, Spins
<1> QED
  BY <1>1, <1>2, <1>3 DEF IInv, Reading, ReadValue, Target, NotEarly, Done, Spins
----------------------------------------------------------------------------
LEMMA IInvInvariant == Spec => []IInv
<1>1. IInv /\ [Next]_vars => IInv'
  <2> SUFFICES ASSUME IInv, [Next]_vars PROVE IInv'
    OBVIOUS
  <2>1. CASE UNCHANGED vars
    BY <2>1 DEF vars, callVars, IInv, Typed, Began, Places, Reading, ReadValue, Target, NotEarly, Done,
                Mtime, Hi, Lo
  <2>2. CASE Next
    BY <2>2, TickIInv, CallIInv, LoadFirstIInv, LoadSecondIInv, SpinUntilIInv, AddTicksIInv, OthersIInv
       DEF Next, Hart, Sleeping
  <2> QED
    BY <2>1, <2>2
<1> QED
  BY InitIInv, <1>1, PTL DEF Spec

(* A spin ends only when its time has come, and one for n ticks when n     *)
(* have passed since the call, unless a read was torn; with the high half  *)
(* first, a spin to an absolute time does so even then.                    *)
THEOREM NeverEarly == Spec => []NotEarly
<1>1. IInv => NotEarly
  BY DEF IInv
<1> QED
  BY <1>1, IInvInvariant, PTL
----------------------------------------------------------------------------
(* How long things take.  A read that no carry has torn is exact at one of *)
(* its loads, that of the low half; Skew bounds what passes from there to  *)
(* its second load.                                                        *)
Edge(t) == Ratio * t
Skew    == IF highFirst THEN 0 ELSE Lag

Fresh == {"spin_base", "sleep_base", "end_mtime"}   (* First reads of a call. *)

Shape ==
  /\ lag \in 0 .. Lag
  /\ start \in [cycle : Nat, time : Nat] /\ end \in [cycle : Nat, time : Nat]
  /\ req.op = "core_freq" => req.n # 0
  /\ at \in CASE req.op = "none"        -> {"none"}
              [] req.op = "spin_until"  -> {"none", "spin"}
              [] req.op = "spin_ticks"  -> {"none", "spin_base", "spin"}
              [] req.op = "sleep_until" -> {"none", "sleep", "before", "after"}
              [] req.op = "sleep_ticks" -> {"none", "sleep_base", "sleep", "before", "after"}
              [] req.op = "core_freq"   -> {"none", "end_mtime", "start", "end"}
  /\ pc \in CASE at = "none"                    -> {"idle"}
              [] at \in Fresh \union {"spin"}   -> {"first", "second", "decide"}
              [] at \in {"start", "end"}        -> {"first", "second", "decide", "cycle"}
              [] at = "sleep"                   -> {"first", "second", "decide", "set_hi", "set_lo", "enable",
                                                    "wfi", "asleep"}
              [] at \in {"before", "after"}     -> {"trapped", "stuck"}

Sampled ==
  /\ pc = "second" => Edge(time) <= cycle /\ cycle < Edge(time) + Ratio + lag
  /\ pc = "decide" => Edge(time) <= cycle /\ cycle < Edge(time) + Ratio + Skew + lag

FreshPaced ==
  at \in Fresh =>
    /\ pc = "first"  => cycle <= began + lag
    /\ pc = "second" => cycle <= began + Lag + lag /\ Edge(time) <= began + Lag
    /\ pc = "decide" => cycle <= began + 2 * Lag + lag /\ Edge(time) <= began + 2 * Lag - Skew

SpinPaced ==
  at = "spin" =>
    /\ began <= Due /\ Edge(target) <= Due + 2 * Lag
    /\ pc = "first"  => cycle <= Due + 4 * Lag + lag
    /\ pc = "second" => cycle <= Due + 5 * Lag + lag
    /\ pc = "decide" => cycle <= Due + 6 * Lag + lag

(* The loops of core_freq: what the round before has read, the cycle that  *)
(* this round has noted, and when the round before can have been.          *)
Last  == IF at = "end" /\ end.time < start.time THEN start.time ELSE end.time
Noted == IF at = "start" THEN start.cycle ELSE end.cycle

LoopPaced ==
  at \in {"start", "end"} =>
    /\ pc \in {"cycle", "first"}   => Last <= Mtime
    /\ pc \in {"second", "decide"} => Last <= time
    /\ pc = "cycle" => cycle < Edge(Last) + Ratio + Skew + Lag + lag
    /\ pc # "cycle" => Noted < Edge(Last) + Ratio + Skew + 2 * Lag
    /\ pc = "first"  => cycle <= Noted + lag
    /\ pc = "second" => cycle <= Noted + Lag + lag /\ Edge(time) <= Noted + Lag
    /\ pc = "decide" => cycle <= Noted + 2 * Lag + lag /\ Edge(time) <= Noted + 2 * Lag - Skew

Before == at = "start" => Edge(end.time) <= began + 2 * Lag - Skew

(* The cycle and the tick that the measurement starts from.                *)
Started ==
  at = "end" \/ Done({"core_freq"}) =>
    /\ Edge(start.time) <= start.cycle + 2 * Lag - Skew
    /\ start.cycle < Edge(start.time) + Skew + 2 * Lag
    /\ Edge(start.time) < began + Ratio + 6 * Lag - Skew

Latest == began + Ratio + Ratio * NumTicks + 6 * Lag
EndPaced ==
  at = "end" =>
    /\ NumTicks > 0 => Last < start.time + NumTicks
    /\ pc = "cycle"  => cycle < Latest + Lag + lag
    /\ pc = "first"  => cycle < Latest + 2 * Lag + lag
    /\ pc = "second" => cycle < Latest + 3 * Lag + lag
    /\ pc = "decide" => cycle < Latest + 4 * Lag + lag

Ended ==
  Done({"core_freq"}) /\ NumTicks > 0 =>
    /\ end.time >= start.time + NumTicks
    /\ Edge(end.time) <= end.cycle + 2 * Lag - Skew
    /\ end.cycle < Edge(end.time) + Skew + 2 * Lag

Paced == ~torn => /\ Sampled /\ FreshPaced /\ SpinPaced
                  /\ LoopPaced /\ Before /\ Started /\ EndPaced /\ Ended
----------------------------------------------------------------------------
LEMMA Bounds ==
  /\ Lag \in Nat \ {0} /\ Ratio \in Nat \ {0} /\ Skew \in Nat /\ Skew <= Lag
  /\ Skew = IF highFirst THEN 0 ELSE Lag
  BY TimeAssumption DEF Skew

LEMMA Edges ==
  ASSUME NEW t \in Nat, NEW u \in Nat
  PROVE  /\ Edge(t) \in Nat /\ Edge(u) \in Nat
         /\ t <= u => Edge(t) <= Edge(u)
         /\ t < u => Edge(t) + Ratio <= Edge(u)
<1>1. Ratio \in Nat \ {0}
  BY Constants
<1>2. Ratio * t \in Nat /\ Ratio * u \in Nat
  BY <1>1
<1>3. t <= u => Ratio * (u - t) >= 0
  BY <1>1
<1>4. Ratio * (u - t) = Ratio * u - Ratio * t
  BY <1>1
<1>5. t < u => Ratio * (u - t - 1) >= 0
  BY <1>1
<1>6. Ratio * (u - t - 1) = Ratio * u - Ratio * t - Ratio
  BY <1>1
<1> QED
  BY <1>1, <1>2, <1>3, <1>4, <1>5, <1>6 DEF Edge

LEMMA EdgeSum ==
  ASSUME NEW t \in Nat, NEW n \in Nat
  PROVE  Edge(t + n) = Edge(t) + Ratio * n /\ Ratio * n \in Nat
  BY Constants DEF Edge

(* The present tick.                                                       *)
LEMMA Now ==
  ASSUME Typed
  PROVE  Mtime \in Nat /\ Edge(Mtime) <= cycle /\ cycle < Edge(Mtime) + Ratio
<1>1. cycle \in Nat /\ Ratio \in Nat \ {0}
  BY Constants DEF Typed
<1>2. \A x \in Nat, d \in Nat \ {0} : x \div d \in Nat /\ d * (x \div d) <= x /\ x < d * (x \div d) + d
  OBVIOUS
<1> QED
  BY <1>1, <1>2 DEF Mtime, Edge

LEMMA Numbers ==
  ASSUME Typed, Shape
  PROVE  /\ {cycle, lag, began, time, target, req.n, start.cycle, start.time, end.cycle, end.time} \subseteq Nat
         /\ lag <= Lag /\ Last \in Nat /\ Noted \in Nat
         /\ {Edge(time), Edge(target), Edge(start.time), Edge(end.time), Edge(Last)} \subseteq Nat
<1>1. /\ {cycle, lag, began, time, target, req.n, start.cycle, start.time, end.cycle, end.time} \subseteq Nat
      /\ lag <= Lag
  BY Bounds DEF Typed, Shape
<1>2. Last \in Nat /\ Noted \in Nat
  BY <1>1 DEF Last, Noted
<1> QED
  BY <1>1, <1>2, Edges

LEMMA Ticks ==
  ASSUME Typed, Shape, req.op = "core_freq"
  PROVE  NumTicks \in Nat /\ Ratio * NumTicks \in Nat
<1>1. RefFreq \in Nat /\ req.n \in Nat \ {0}
  BY TimeAssumption DEF Typed, Shape
<1>2. \A x \in Nat, d \in Nat \ {0} : x \div d \in Nat
  OBVIOUS
<1>3. NumTicks \in Nat
  BY <1>1, <1>2 DEF NumTicks
<1> QED
  BY <1>3, Constants

(* What a call is allowed.                                                 *)
LEMMA Dues ==
  ASSUME Typed, Shape, req.op \in Busy
  PROVE  Due \in Nat /\ began <= Due
<1>1. began \in Nat /\ target \in Nat /\ req.n \in Nat /\ Ratio \in Nat
  BY Constants DEF Typed
<1>2. Ratio * target \in Nat /\ Ratio * req.n \in Nat
  BY <1>1
<1>4. CASE req.op = "spin_until"
  BY <1>1, <1>2, <1>4 DEF Due
<1>5. CASE req.op = "spin_ticks"
  BY <1>1, <1>2, <1>5 DEF Due
<1>6. CASE req.op = "core_freq"
  <2>1. NumTicks + 1 \in Nat /\ \A m \in Nat : Ratio * m \in Nat
    BY <1>1, <1>6, Ticks
  <2>2. Ratio * (NumTicks + 1) \in Nat
    BY <2>1
  <2> QED
    BY <1>1, <1>6, <2>2 DEF Due
<1> QED
  BY <1>4, <1>5, <1>6 DEF Busy

LEMMA ShapePlaces ==
  ASSUME Typed, Shape
  PROVE  /\ pc = "cycle" => at \in {"start", "end"}
         /\ pc \in {"set_hi", "set_lo", "enable", "wfi", "asleep"} => at = "sleep"
         /\ pc \in {"trapped", "stuck"} => at \in {"before", "after"}
         /\ pc \in {"first", "second", "decide"} =>
              at \in {"spin_base", "sleep_base", "end_mtime", "spin", "start", "end", "sleep"}
         /\ pc = "idle" <=> at = "none"
         /\ pc # "idle" => req.op # "none"
         /\ at \in {"end_mtime", "start", "end"} => req.op = "core_freq"
         /\ at \in {"sleep", "before", "after"} => req.op \in {"sleep_until", "sleep_ticks"}
         /\ at = "sleep_base" => req.op = "sleep_ticks"
         /\ at = "spin" => req.op \in {"spin_until", "spin_ticks"}
         /\ at = "spin_base" => req.op = "spin_ticks"
         /\ at = "spin" => pc \in {"first", "second", "decide"}
<1>1. req.op \in {"none", "spin_until", "spin_ticks", "sleep_until", "sleep_ticks", "core_freq"}
  BY DEF Typed, Ops, Spins
<1>2. at \in {"none", "spin_base", "sleep_base", "end_mtime", "spin", "start", "end", "sleep", "before", "after"}
  BY <1>1 DEF Shape
<1> QED
  BY <1>1, <1>2 DEF Shape, Fresh

LEMMA ShapeInit == Init => Shape
  BY Bounds DEF Init, Shape, Zero, Fresh

LEMMA ShapeStep ==
  ASSUME IInv, Shape, [Next]_vars
  PROVE  Shape'
<1>1. CASE Tick
  <2>1. lag' \in 0 .. Lag
    BY <1>1, Bounds DEF Tick, Shape
  <2>2. UNCHANGED <<pc, at, req, start, end>>
    BY <1>1 DEF Tick, callVars
  <2> QED
    BY <2>1, <2>2 DEF Shape, Fresh
<1>2. CASE Call
  <2>1. /\ req' \in Requests /\ pc' = "first" /\ at' = Entry[req'.op] /\ lag' = 0
        /\ UNCHANGED <<start, end>>
    BY <1>2 DEF Call, Goto, Acts
  <2>2. /\ req'.op \in {"spin_until", "spin_ticks", "sleep_until", "sleep_ticks", "core_freq"}
        /\ req'.op = "core_freq" => req'.n # 0
    BY <2>1, RequestAssumption
  <2>3. at' = CASE req'.op = "spin_until"  -> "spin"
                [] req'.op = "spin_ticks"  -> "spin_base"
                [] req'.op = "sleep_until" -> "sleep"
                [] req'.op = "sleep_ticks" -> "sleep_base"
                [] req'.op = "core_freq"   -> "end_mtime"
    BY <2>1, <2>2 DEF Entry
  <2> QED
    BY <2>1, <2>2, <2>3, Bounds DEF Shape, Fresh
<1>3. CASE LoadFirst \/ LoadSecond
  <2>1. /\ pc' \in {"second", "decide"} /\ pc \in {"first", "second"} /\ lag' = 0
        /\ UNCHANGED <<at, req, start, end>>
    BY <1>3 DEF LoadFirst, LoadSecond, Goto, Acts, callVars
  <2>2. at \in {"spin_base", "sleep_base", "end_mtime", "spin", "start", "end", "sleep"}
    BY <2>1, ShapePlaces DEF IInv
  <2>3. lag' \in 0 .. Lag
    BY <2>1, Bounds
  <2> QED
    BY <2>1, <2>2, <2>3 DEF Shape, Fresh
<1>4. CASE SpinUntil \/ AddTicks
  <2>1. /\ pc = "decide" /\ lag' = 0 /\ UNCHANGED <<req, start, end>>
        /\ \/ at = "spin" /\ pc' = "first" /\ at' = "spin"
           \/ at = "spin" /\ pc' = "idle" /\ at' = "none"
           \/ at = "spin_base" /\ pc' = "first" /\ at' = "spin"
           \/ at = "sleep_base" /\ pc' = "first" /\ at' = "sleep"
    BY <1>4 DEF SpinUntil, AddTicks, Decides, Acts, ReadAgain, Return
  <2> QED
    BY <2>1, Bounds DEF Shape, Fresh, IInv, Typed, Ops, Spins
<1>5. CASE EndMtime \/ StartMtime \/ EndMtimeMore
  <2>1. /\ pc = "decide" /\ lag' = 0 /\ UNCHANGED <<req>> /\ time \in Nat
        /\ start' = start \/ start' = [start EXCEPT !.time = time]
        /\ end' = end \/ end' = [end EXCEPT !.time = time]
        /\ \/ at \in {"end_mtime", "start"} /\ pc' = "cycle" /\ at' \in {"start", "end"}
           \/ at = "end" /\ pc' = "cycle" /\ at' = "end"
           \/ at = "end" /\ pc' = "idle" /\ at' = "none"
    BY <1>5 DEF EndMtime, StartMtime, EndMtimeMore, Decides, Acts, Return, IInv, Typed
  <2>2. {start', end'} \subseteq [cycle : Nat, time : Nat]
    BY <2>1 DEF Shape
  <2> QED
    BY <2>1, <2>2, Bounds DEF Shape, Fresh, IInv, Typed, Ops, Spins
<1>6. CASE ReadCycle
  <2>1. /\ pc = "cycle" /\ pc' = "first" /\ lag' = 0 /\ UNCHANGED <<req, at>> /\ cycle \in Nat
        /\ start' = start \/ start' = [start EXCEPT !.cycle = cycle]
        /\ end' = end \/ end' = [end EXCEPT !.cycle = cycle]
    BY <1>6 DEF ReadCycle, Goto, Acts, IInv, Typed
  <2>2. start' \in [cycle : Nat, time : Nat] /\ end' \in [cycle : Nat, time : Nat]
    BY <2>1 DEF Shape
  <2>3. at \in {"start", "end"}
    BY <2>1, ShapePlaces DEF IInv
  <2>4. lag' \in 0 .. Lag
    BY <2>1, Bounds
  <2> QED
    BY <2>1, <2>2, <2>3, <2>4 DEF Shape, Fresh
<1>7. CASE Sleeping
  <2>1. /\ lag' = 0 /\ UNCHANGED <<req, start, end>>
        /\ \/ at = "sleep" /\ at' = "sleep" /\ pc' \in {"set_hi", "set_lo", "enable", "wfi", "asleep"}
           \/ at = "sleep" /\ at' \in {"before", "after"} /\ pc' = "trapped"
           \/ at \in {"before", "after"} /\ at' = at /\ pc' = "stuck"
           \/ at \in {"before", "after"} /\ at' = "sleep" /\ pc' = "wfi"
           \/ at \in {"sleep", "before", "after"} /\ at' = "none" /\ pc' = "idle"
    <3>1. CASE SleepUntil
      BY <3>1 DEF SleepUntil, Decides, Acts, Return
    <3>2. CASE SetHigh \/ SetLow \/ EnableTimer \/ Wfi
      <4>1. at = "sleep"
        BY <3>2, ShapePlaces DEF IInv, SetHigh, SetLow, EnableTimer, Wfi, Goto
      <4> QED
        BY <3>2, <4>1 DEF SetHigh, SetLow, EnableTimer, Wfi, Goto, Acts, callVars
    <3>3. CASE Trap
      <4>1. at = "sleep"
        BY <3>3, ShapePlaces DEF IInv, Trap
      <4> QED
        BY <3>3, <4>1 DEF Trap, Acts, callVars
    <3>4. CASE HandlerSpins \/ HandlerReturns
      <4>1. at \in {"before", "after"}
        BY <3>4, ShapePlaces DEF IInv, HandlerSpins, HandlerReturns, Goto
      <4> QED
        BY <3>4, <4>1 DEF HandlerSpins, HandlerReturns, Goto, Acts, Return, callVars
    <3> QED
      BY <1>7, <3>1, <3>2, <3>3, <3>4 DEF Sleeping
  <2>2. req.op \in {"sleep_until", "sleep_ticks"}
    BY <2>1, ShapePlaces DEF IInv
  <2> QED
    BY <2>1, <2>2, Bounds DEF Shape, Fresh
<1>8. CASE UNCHANGED vars
  BY <1>8 DEF Shape, Fresh, vars, callVars
<1> QED
  BY <1>1, <1>2, <1>3, <1>4, <1>5, <1>6, <1>7, <1>8 DEF Next, Hart, Sleeping
----------------------------------------------------------------------------
(* The pace of the calls.                                                  *)
LEMMA TickPaced ==
  ASSUME IInv, IInv', Shape, Shape', Paced, Tick
  PROVE  Paced'
<1> SUFFICES ASSUME ~torn'
             PROVE  (/\ Sampled /\ FreshPaced /\ SpinPaced
                     /\ LoopPaced /\ Before /\ Started /\ EndPaced /\ Ended)'
  BY DEF Paced
<1>1. /\ pc # "idle" /\ cycle' = cycle + 1 /\ (lag' = lag + 1 \/ pc = "asleep")
      /\ UNCHANGED <<highFirst, pc, at, half, torn, time, req, target, began, start, end>>
  BY DEF Tick, Waits, callVars
<1>2. /\ Sampled /\ FreshPaced /\ SpinPaced /\ LoopPaced /\ Before /\ Started /\ EndPaced /\ Ended
  BY <1>1 DEF Paced
<1>3. /\ {cycle, lag, began, time, target} \subseteq Nat /\ Last \in Nat /\ Noted \in Nat
      /\ {Edge(time), Edge(target), Edge(Last)} \subseteq Nat
  BY Numbers DEF IInv
<1>4. Mtime \in Nat /\ Mtime' \in Nat /\ Mtime <= Mtime'
  <2>1. cycle + 1 \in Nat /\ cycle <= cycle + 1
    BY <1>3
  <2> QED
    BY <1>1, <1>3, <2>1, Constants, DivGrows DEF Mtime
<1>5. lag' = lag + 1 \/ at = "sleep"
  BY <1>1, ShapePlaces DEF IInv
<1>6. UNCHANGED <<Skew, Last, Noted, Due, Latest, NumTicks>>
  BY <1>1 DEF Skew, Last, Noted, Due, Latest, NumTicks
<1>7. Sampled'
  <2>1. pc \in {"second", "decide"} => lag' = lag + 1
    BY <1>1
  <2> QED
    BY <1>1, <1>2, <1>3, <1>6, <2>1, Bounds DEF Sampled
<1>8. FreshPaced'
  BY <1>1, <1>2, <1>3, <1>5, <1>6, Bounds DEF FreshPaced, Fresh
<1>9. SpinPaced'
  <2>1. at = "spin" => Due \in Nat
    BY Dues, ShapePlaces DEF IInv, Busy
  <2> QED
    BY <1>1, <1>2, <1>3, <1>5, <1>6, <2>1, Bounds DEF SpinPaced
<1>10. LoopPaced'
  <2>1. Last <= Mtime => Last <= Mtime'
    BY <1>3, <1>4
  <2> QED
    BY <1>1, <1>2, <1>3, <1>5, <1>6, <2>1, Bounds DEF LoopPaced
<1>11. Before' /\ Started' /\ Ended'
  BY <1>1, <1>2, <1>6 DEF Before, Started, Ended, Done
<1>12. EndPaced'
  <2>1. at = "end" => Latest \in Int
    BY <1>3, Ticks, ShapePlaces, Bounds DEF IInv, Latest
  <2> QED
    BY <1>1, <1>2, <1>3, <1>5, <1>6, <2>1, Bounds DEF EndPaced
<1> QED
  BY <1>7, <1>8, <1>9, <1>10, <1>11, <1>12

LEMMA CallPaced ==
  ASSUME IInv, Shape, Shape', Paced, Call
  PROVE  Paced'
<1>1. /\ pc' = "first" /\ at' = Entry[req'.op] /\ target' = req'.n /\ began' = cycle /\ lag' = 0 /\ req' \in Requests
      /\ UNCHANGED <<cycle, highFirst, half, torn, time, start, end>>
  BY DEF Call, Goto, Acts
<1>2. req'.op \in {"spin_until", "spin_ticks", "sleep_until", "sleep_ticks", "core_freq"} /\ req'.n \in Nat
  BY <1>1, RequestAssumption
<1>3. at' \in {"spin_base", "sleep_base", "end_mtime", "spin", "sleep"} /\ (at' = "spin" => req'.op = "spin_until")
  BY <1>1, <1>2 DEF Entry
<1>4. cycle \in Nat
  BY DEF IInv, Typed
<1>5. Sampled' /\ FreshPaced'
  BY <1>1, <1>3, <1>4, Bounds DEF Sampled, FreshPaced
<1>6. SpinPaced'
  <2> SUFFICES ASSUME req'.op = "spin_until"
               PROVE  began' <= Due' /\ Edge(target') <= Due' + 2 * Lag /\ cycle <= Due' + 4 * Lag + 0
    BY <1>1, <1>3 DEF SpinPaced
  <2>1. Due' = IF Edge(req'.n) > cycle THEN Edge(req'.n) ELSE cycle
    BY <1>1 DEF Due, Edge
  <2>2. Edge(req'.n) \in Nat
    BY <1>2, Edges
  <2> QED
    BY <1>1, <1>4, <2>1, <2>2, Bounds
<1>7. LoopPaced' /\ Before' /\ EndPaced' /\ Started' /\ Ended'
  BY <1>1, <1>3 DEF LoopPaced, Before, EndPaced, Started, Ended, Done
<1> QED
  BY <1>5, <1>6, <1>7 DEF Paced

LEMMA LoadFirstPaced ==
  ASSUME IInv, Shape, Paced, LoadFirst
  PROVE  Paced'
<1> SUFFICES ASSUME ~torn'
             PROVE  (/\ Sampled /\ FreshPaced /\ SpinPaced
                     /\ LoopPaced /\ Before /\ Started /\ EndPaced /\ Ended)'
  BY DEF Paced
<1>1. /\ pc = "first" /\ pc' = "second" /\ time' = Mtime /\ lag' = 0
      /\ UNCHANGED <<cycle, highFirst, at, torn, req, target, began, start, end>>
  BY DEF LoadFirst, Goto, Acts, callVars
<1>2. /\ Sampled /\ FreshPaced /\ SpinPaced /\ LoopPaced /\ Before /\ Started /\ EndPaced /\ Ended
  BY <1>1 DEF Paced
<1>3. /\ {cycle, lag, began, target} \subseteq Nat /\ lag <= Lag /\ Last \in Nat /\ Noted \in Nat
      /\ {Edge(target), Edge(Last)} \subseteq Nat
  BY Numbers DEF IInv
<1>4. Mtime \in Nat /\ Edge(Mtime) \in Nat /\ Edge(Mtime) <= cycle /\ cycle < Edge(Mtime) + Ratio
  BY Now, Edges DEF IInv
<1>5. Edge(time)' = Edge(Mtime)
  BY <1>1 DEF Edge
<1>6. UNCHANGED <<Skew, Last, Noted, Due, Latest, NumTicks>>
  BY <1>1 DEF Skew, Last, Noted, Due, Latest, NumTicks
<1>7. Sampled'
  BY <1>1, <1>3, <1>4, <1>5, Bounds DEF Sampled
<1>8. FreshPaced'
  BY <1>1, <1>2, <1>3, <1>4, <1>5, Bounds DEF FreshPaced
<1>9. SpinPaced'
  <2>1. at = "spin" => Due \in Nat
    BY Dues, ShapePlaces DEF IInv, Busy
  <2> QED
    BY <1>1, <1>2, <1>3, <1>6, <2>1, Bounds DEF SpinPaced
<1>10. LoopPaced'
  <2> SUFFICES ASSUME at \in {"start", "end"}
               PROVE  /\ Last <= Mtime
                      /\ Noted < Edge(Last) + Ratio + Skew + 2 * Lag
                      /\ cycle <= Noted + Lag + 0 /\ Edge(Mtime) <= Noted + Lag
    BY <1>1, <1>5, <1>6 DEF LoopPaced
  <2>1. Last <= Mtime /\ cycle <= Noted + lag /\ Noted < Edge(Last) + Ratio + Skew + 2 * Lag
    BY <1>1, <1>2 DEF LoopPaced
  <2> QED
    BY <1>3, <1>4, <2>1, Bounds
<1>11. Before' /\ Started' /\ Ended'
  BY <1>1, <1>2, <1>6 DEF Before, Started, Ended, Done
<1>12. EndPaced'
  <2>1. at = "end" => Latest \in Int
    BY <1>3, Ticks, ShapePlaces, Bounds DEF IInv, Latest
  <2> QED
    BY <1>1, <1>2, <1>3, <1>6, <2>1, Bounds DEF EndPaced
<1> QED
  BY <1>7, <1>8, <1>9, <1>10, <1>11, <1>12

(* What a read yields is the time at one of its loads.                     *)
LEMMA Exact ==
  ASSUME IInv, LoadSecond, ~torn'
  PROVE  ~torn /\ time' = IF highFirst THEN Mtime ELSE time
<1>1. /\ pc = "second" /\ torn' = (torn \/ Hi(time) # Hi(Mtime)) /\ torn \in BOOLEAN
      /\ time' = IF highFirst THEN half * Half + Lo(Mtime) ELSE Hi(Mtime) * Half + half
      /\ half = IF highFirst THEN Hi(time) ELSE Lo(time)
  BY DEF LoadSecond, Goto, IInv, Reading, Typed
<1>2. ~torn /\ Hi(time) = Hi(Mtime)
  BY <1>1
<1>3. Mtime \in Nat /\ time \in Nat /\ Half \in Nat
  BY Now, Constants DEF IInv, Typed
<1>4. /\ Mtime = Half * Hi(Mtime) + Lo(Mtime) /\ time = Half * Hi(time) + Lo(time)
      /\ {Hi(Mtime), Lo(Mtime), Lo(time)} \subseteq Nat
  BY <1>3, Halves
<1>5. Hi(Mtime) * Half = Half * Hi(Mtime)
  BY <1>3, <1>4
<1>6. time' = IF highFirst THEN Half * Hi(Mtime) + Lo(Mtime) ELSE Half * Hi(Mtime) + Lo(time)
  BY <1>1, <1>2, <1>5
<1> QED
  BY <1>2, <1>4, <1>6

LEMMA LoadSecondPaced ==
  ASSUME IInv, Shape, Paced, LoadSecond
  PROVE  Paced'
<1> SUFFICES ASSUME ~torn'
             PROVE  (/\ Sampled /\ FreshPaced /\ SpinPaced
                     /\ LoopPaced /\ Before /\ Started /\ EndPaced /\ Ended)'
  BY DEF Paced
<1>1. /\ pc = "second" /\ pc' = "decide" /\ lag' = 0
      /\ UNCHANGED <<cycle, highFirst, at, req, target, began, start, end>>
  BY DEF LoadSecond, Goto, Acts, callVars
<1> DEFINE new == IF highFirst THEN Mtime ELSE time
<1>2. ~torn /\ time' = new
  BY Exact
<1>3. /\ Sampled /\ FreshPaced /\ SpinPaced /\ LoopPaced /\ Before /\ Started /\ EndPaced /\ Ended
  BY <1>2 DEF Paced
<1>4. /\ {cycle, lag, began, target, time} \subseteq Nat /\ lag <= Lag /\ Last \in Nat /\ Noted \in Nat
      /\ {Edge(target), Edge(Last), Edge(time)} \subseteq Nat
  BY Numbers DEF IInv
<1>5. /\ Mtime \in Nat /\ Edge(Mtime) \in Nat /\ Edge(Mtime) <= cycle /\ cycle < Edge(Mtime) + Ratio
      /\ time <= Mtime
  BY <1>1, Now, Edges DEF IInv, Reading
<1>6. /\ time <= new /\ new \in Nat /\ Edge(new) \in Nat
      /\ Edge(new) = IF highFirst THEN Edge(Mtime) ELSE Edge(time)
  BY <1>4, <1>5
<1> HIDE DEF new
<1>7. Edge(time)' = Edge(new)
  BY <1>2 DEF Edge
<1>8. UNCHANGED <<Skew, Last, Noted, Due, Latest, NumTicks>>
  BY <1>1 DEF Skew, Last, Noted, Due, Latest, NumTicks
<1>9. Sampled'
  <2>1. Edge(time) <= cycle /\ cycle < Edge(time) + Ratio + lag
    BY <1>1, <1>3 DEF Sampled
  <2>2. Edge(new) <= cycle /\ cycle < Edge(new) + Ratio + Skew
    BY <1>4, <1>5, <1>6, <2>1, Bounds
  <2> QED
    BY <1>1, <1>4, <1>6, <1>7, <1>8, <2>2, Bounds DEF Sampled
<1>10. FreshPaced'
  <2> SUFFICES ASSUME at \in Fresh
               PROVE  cycle <= began + 2 * Lag + 0 /\ Edge(new) <= began + 2 * Lag - Skew
    BY <1>1, <1>7, <1>8 DEF FreshPaced
  <2>1. cycle <= began + Lag + lag /\ Edge(time) <= began + Lag
    BY <1>1, <1>3 DEF FreshPaced
  <2> QED
    BY <1>4, <1>5, <1>6, <2>1, Bounds
<1>11. SpinPaced'
  <2>1. at = "spin" => Due \in Nat
    BY Dues, ShapePlaces DEF IInv, Busy
  <2> QED
    BY <1>1, <1>3, <1>4, <1>8, <2>1, Bounds DEF SpinPaced
<1>12. LoopPaced'
  <2> SUFFICES ASSUME at \in {"start", "end"}
               PROVE  /\ Last <= new
                      /\ Noted < Edge(Last) + Ratio + Skew + 2 * Lag
                      /\ cycle <= Noted + 2 * Lag + 0 /\ Edge(new) <= Noted + 2 * Lag - Skew
    BY <1>1, <1>2, <1>7, <1>8 DEF LoopPaced
  <2>1. /\ Last <= time /\ cycle <= Noted + Lag + lag /\ Edge(time) <= Noted + Lag
        /\ Noted < Edge(Last) + Ratio + Skew + 2 * Lag
    BY <1>1, <1>3 DEF LoopPaced
  <2> QED
    BY <1>4, <1>5, <1>6, <2>1, Bounds
<1>13. Before' /\ Started' /\ Ended'
  BY <1>1, <1>3, <1>8 DEF Before, Started, Ended, Done
<1>14. EndPaced'
  <2>1. at = "end" => Latest \in Int
    BY <1>4, Ticks, ShapePlaces, Bounds DEF IInv, Latest
  <2> QED
    BY <1>1, <1>3, <1>4, <1>8, <2>1, Bounds DEF EndPaced
<1> QED
  BY <1>9, <1>10, <1>11, <1>12, <1>13, <1>14

LEMMA SpinUntilPaced ==
  ASSUME IInv, Shape, Paced, SpinUntil
  PROVE  Paced'
<1> SUFFICES ASSUME ~torn'
             PROVE  (/\ Sampled /\ FreshPaced /\ SpinPaced
                     /\ LoopPaced /\ Before /\ Started /\ EndPaced /\ Ended)'
  BY DEF Paced
<1>1. /\ pc = "decide" /\ at = "spin" /\ lag' = 0
      /\ UNCHANGED <<cycle, highFirst, half, torn, time, req, began, target, start, end>>
      /\ \/ time < target /\ pc' = "first" /\ at' = "spin"
         \/ pc' = "idle" /\ at' = "none"
  BY DEF SpinUntil, Decides, Acts, SpinMore, ReadAgain, Return
<1>2. Sampled /\ SpinPaced /\ req.op \in {"spin_until", "spin_ticks"}
  BY <1>1, ShapePlaces DEF Paced, IInv
<1>3. /\ {cycle, lag, began, time, target, Edge(time), Edge(target)} \subseteq Nat /\ lag <= Lag /\ Due \in Nat
  BY <1>2, Numbers, Dues DEF IInv, Busy
<1>4. Due' = Due
  BY <1>1 DEF Due, NumTicks
<1>5. SpinPaced'
  <2> SUFFICES ASSUME pc' = "first", at' = "spin"
               PROVE  began <= Due /\ Edge(target) <= Due + 2 * Lag /\ cycle <= Due + 4 * Lag + 0
    BY <1>1, <1>4 DEF SpinPaced
  <2>1. cycle < Edge(time) + Ratio + Skew + lag /\ Edge(target) <= Due + 2 * Lag /\ began <= Due
    BY <1>1, <1>2 DEF Sampled, SpinPaced
  <2>2. Edge(time) + Ratio <= Edge(target)
    BY <1>1, <1>3, Edges
  <2> QED
    BY <1>3, <2>1, <2>2, Bounds
<1> QED
  BY <1>1, <1>2, <1>5 DEF Sampled, FreshPaced, LoopPaced, Before, Started, EndPaced, Ended,
                          Done, Fresh

LEMMA AddTicksPaced ==
  ASSUME IInv, Shape, Paced, AddTicks
  PROVE  Paced'
<1> SUFFICES ASSUME ~torn'
             PROVE  (/\ Sampled /\ FreshPaced /\ SpinPaced
                     /\ LoopPaced /\ Before /\ Started /\ EndPaced /\ Ended)'
  BY DEF Paced
<1>1. /\ pc = "decide" /\ pc' = "first" /\ lag' = 0 /\ target' = time + req.n
      /\ UNCHANGED <<cycle, highFirst, half, torn, time, req, began, start, end>>
      /\ \/ at = "spin_base" /\ at' = "spin"
         \/ at = "sleep_base" /\ at' = "sleep"
  BY DEF AddTicks, Decides, Acts, ReadAgain
<1>2. cycle <= began + 2 * Lag + lag /\ Edge(time) <= began + 2 * Lag - Skew
  BY <1>1 DEF Paced, FreshPaced, Fresh
<1>3. {cycle, lag, began, time, req.n, Edge(time)} \subseteq Nat /\ lag <= Lag
  BY Numbers DEF IInv
<1>4. SpinPaced'
  <2> SUFFICES ASSUME at = "spin_base"
               PROVE  began <= Due' /\ Edge(target') <= Due' + 2 * Lag /\ cycle <= Due' + 4 * Lag + 0
    BY <1>1 DEF SpinPaced
  <2>1. Due' = began + Ratio * req.n
    BY <1>1, ShapePlaces DEF IInv, Due
  <2>2. Edge(target') = Edge(time) + Ratio * req.n /\ Ratio * req.n \in Nat
    BY <1>1, <1>3, EdgeSum
  <2> QED
    BY <1>2, <1>3, <2>1, <2>2, Bounds
<1> QED
  BY <1>1, <1>4 DEF Sampled, FreshPaced, LoopPaced, Before, Started, EndPaced, Ended, Done, Fresh

LEMMA SleepingPaced ==
  ASSUME IInv, Shape, Paced, Sleeping
  PROVE  Paced'
<1>1. at' \in {"sleep", "before", "after", "none"} /\ pc' \notin {"second", "decide"}
      /\ req' = req /\ req.op \in {"sleep_until", "sleep_ticks"}
  <2>1. CASE SleepUntil
    BY <2>1, ShapePlaces DEF SleepUntil, Decides, Return, IInv
  <2>2. CASE SetHigh \/ SetLow \/ EnableTimer \/ Wfi
    BY <2>2, ShapePlaces DEF SetHigh, SetLow, EnableTimer, Wfi, Goto, callVars, IInv
  <2>3. CASE Trap \/ HandlerSpins \/ HandlerReturns
    BY <2>3, ShapePlaces DEF Trap, HandlerSpins, HandlerReturns, Goto, Return, callVars, IInv
  <2> QED
    BY <2>1, <2>2, <2>3 DEF Sleeping
<1> QED
  BY <1>1 DEF Paced, Sampled, FreshPaced, SpinPaced, LoopPaced, Before, Started, EndPaced, Ended, Done, Fresh

LEMMA EndMtimePaced ==
  ASSUME IInv, Shape, Paced, EndMtime
  PROVE  Paced'
<1> SUFFICES ASSUME ~torn'
             PROVE  (/\ Sampled /\ FreshPaced /\ SpinPaced
                     /\ LoopPaced /\ Before /\ Started /\ EndPaced /\ Ended)'
  BY DEF Paced
<1>1. /\ pc = "decide" /\ at = "end_mtime" /\ pc' = "cycle" /\ at' = "start" /\ lag' = 0
      /\ end' = [end EXCEPT !.time = time]
      /\ UNCHANGED <<cycle, highFirst, torn, time, req, began, target, start>>
  BY DEF EndMtime, Decides, Acts
<1>2. Sampled /\ FreshPaced /\ ~torn
  BY <1>1 DEF Paced
<1>3. /\ {cycle, lag, began, time, Edge(time)} \subseteq Nat /\ lag <= Lag /\ Mtime \in Nat /\ Mtime' = Mtime
  BY <1>1, Numbers, Now DEF IInv, Mtime
<1>4. end'.time = time
  BY <1>1 DEF Shape
<1>5. Last' = time /\ Skew' = Skew
  BY <1>1, <1>4 DEF Last, Skew
<1>6. Edge(Last)' = Edge(time) /\ Edge(end.time)' = Edge(time)
  BY <1>4, <1>5 DEF Edge
<1>7. LoopPaced'
  <2>1. time <= Mtime
    BY <1>1, <1>2 DEF IInv, ReadValue
  <2>2. cycle < Edge(time) + Ratio + Skew + Lag + 0
    <3>1. cycle < Edge(time) + Ratio + Skew + lag
      BY <1>1, <1>2 DEF Sampled
    <3> QED
      BY <1>3, <3>1, Bounds
  <2> QED
    BY <1>1, <1>3, <1>5, <1>6, <2>1, <2>2 DEF LoopPaced
<1>8. Before'
  BY <1>1, <1>2, <1>5, <1>6 DEF Before, FreshPaced, Fresh
<1> QED
  BY <1>1, <1>7, <1>8 DEF Sampled, FreshPaced, SpinPaced, Started, EndPaced, Ended, Done, Fresh

LEMMA ReadCyclePaced ==
  ASSUME IInv, Shape, Paced, ReadCycle
  PROVE  Paced'
<1> SUFFICES ASSUME ~torn'
             PROVE  (/\ Sampled /\ FreshPaced /\ SpinPaced
                     /\ LoopPaced /\ Before /\ Started /\ EndPaced /\ Ended)'
  BY DEF Paced
<1>1. /\ pc = "cycle" /\ pc' = "first" /\ lag' = 0
      /\ start' = IF at = "start" THEN [start EXCEPT !.cycle = cycle] ELSE start
      /\ end' = IF at = "end" THEN [end EXCEPT !.cycle = cycle] ELSE end
      /\ UNCHANGED <<cycle, highFirst, at, torn, time, req, began, target>>
  BY DEF ReadCycle, Goto, Acts
<1>2. at \in {"start", "end"} /\ ~torn /\ LoopPaced /\ Before /\ Started /\ EndPaced
  BY <1>1, ShapePlaces DEF Paced, IInv
<1>3. /\ {cycle, lag, began, Edge(Last)} \subseteq Nat /\ lag <= Lag /\ Mtime' = Mtime
  BY <1>1, Numbers DEF IInv, Mtime
<1>4. /\ start'.time = start.time /\ end'.time = end.time
      /\ at = "start" => start'.cycle = cycle
      /\ at = "end" => end'.cycle = cycle /\ start'.cycle = start.cycle
  BY <1>1 DEF Shape
<1>5. Last' = Last /\ Noted' = cycle /\ Skew' = Skew /\ NumTicks' = NumTicks
  BY <1>1, <1>2, <1>4 DEF Last, Noted, Skew, NumTicks
<1>6. /\ Edge(Last)' = Edge(Last) /\ Edge(end.time)' = Edge(end.time) /\ Edge(start.time)' = Edge(start.time)
      /\ Latest' = Latest
  BY <1>1, <1>4, <1>5 DEF Edge, Latest
<1>7. LoopPaced'
  <2>1. Last <= Mtime /\ cycle < Edge(Last) + Ratio + Skew + Lag + lag
    BY <1>1, <1>2 DEF LoopPaced
  <2>2. cycle < Edge(Last) + Ratio + Skew + 2 * Lag /\ cycle <= cycle + 0
    BY <1>3, <2>1, Bounds
  <2> QED
    BY <1>1, <1>3, <1>5, <1>6, <2>1, <2>2 DEF LoopPaced
<1>8. Before' /\ Started'
  BY <1>1, <1>2, <1>4, <1>5, <1>6 DEF Before, Started, Done
<1>9. EndPaced'
  <2> SUFFICES ASSUME at = "end"
               PROVE  (NumTicks > 0 => Last < start.time + NumTicks) /\ cycle < Latest + 2 * Lag + 0
    BY <1>1, <1>4, <1>5, <1>6 DEF EndPaced
  <2>1. Latest \in Int
    BY <1>3, Ticks, ShapePlaces, Bounds DEF IInv, Latest
  <2>2. (NumTicks > 0 => Last < start.time + NumTicks) /\ cycle < Latest + Lag + lag
    BY <1>1, <1>2 DEF EndPaced
  <2> QED
    BY <1>3, <2>1, <2>2, Bounds
<1> QED
  BY <1>1, <1>2, <1>7, <1>8, <1>9 DEF Sampled, FreshPaced, SpinPaced, Ended, Done, Fresh

LEMMA StartMtimePaced ==
  ASSUME IInv, Shape, Paced, StartMtime
  PROVE  Paced'
<1> SUFFICES ASSUME ~torn'
             PROVE  (/\ Sampled /\ FreshPaced /\ SpinPaced
                     /\ LoopPaced /\ Before /\ Started /\ EndPaced /\ Ended)'
  BY DEF Paced
<1>1. /\ pc = "decide" /\ at = "start" /\ pc' = "cycle" /\ lag' = 0
      /\ at' = IF time # end.time THEN "end" ELSE "start"
      /\ start' = [start EXCEPT !.time = time]
      /\ UNCHANGED <<cycle, highFirst, torn, time, req, began, target, end>>
  BY DEF StartMtime, Rollover, Decides, Acts
<1>2. /\ cycle < Edge(time) + Ratio + Skew + lag
      /\ Last <= time /\ Noted < Edge(Last) + Ratio + Skew + 2 * Lag
      /\ cycle <= Noted + 2 * Lag + lag /\ Edge(time) <= Noted + 2 * Lag - Skew
      /\ Edge(end.time) <= began + 2 * Lag - Skew
      /\ time <= Mtime
  BY <1>1 DEF Paced, Sampled, LoopPaced, Before, IInv, ReadValue
<1>3. /\ {cycle, lag, began, time, Last, Noted, Edge(time), Edge(Last)} \subseteq Nat /\ lag <= Lag
      /\ Mtime' = Mtime /\ NumTicks \in Nat /\ Ratio * NumTicks \in Nat
  BY <1>1, Numbers, Ticks, ShapePlaces DEF IInv, Mtime
<1>4. start'.time = time /\ start'.cycle = start.cycle
  BY <1>1 DEF Shape
<1>5. Last = end.time /\ Noted = start.cycle /\ UNCHANGED <<Skew, NumTicks, Latest>>
  BY <1>1 DEF Last, Noted, Skew, NumTicks, Latest
<1>6. Last' = time
  <2>1. CASE time = end.time
    BY <1>1, <2>1 DEF Last
  <2>2. CASE time # end.time
    <3>1. end.time < time
      BY <1>2, <1>3, <1>5, <2>2
    <3> QED
      BY <1>1, <1>4, <2>2, <3>1 DEF Last
  <2> QED
    BY <2>1, <2>2
<1>7. Edge(Last)' = Edge(time) /\ Edge(start.time)' = Edge(time) /\ Edge(end.time)' = Edge(end.time)
  BY <1>1, <1>4, <1>6 DEF Edge
<1>8. LoopPaced'
  <2>1. cycle < Edge(time) + Ratio + Skew + Lag + 0
    BY <1>2, <1>3, Bounds
  <2> QED
    BY <1>1, <1>2, <1>3, <1>5, <1>6, <1>7, <2>1 DEF LoopPaced
<1>9. Before'
  BY <1>1, <1>2, <1>5, <1>7 DEF Before
<1>10. Started'
  <2> SUFFICES ASSUME time # end.time
               PROVE  /\ Edge(time) <= start.cycle + 2 * Lag - Skew
                      /\ start.cycle < Edge(time) + Skew + 2 * Lag
                      /\ Edge(time) < began + Ratio + 6 * Lag - Skew
    BY <1>1, <1>4, <1>5, <1>7 DEF Started, Done
  <2>1. Last < time
    BY <1>2, <1>3, <1>5
  <2>2. Edge(Last) + Ratio <= Edge(time)
    BY <1>3, <2>1, Edges
  <2> QED
    BY <1>2, <1>3, <1>5, <2>2, Bounds
<1>11. EndPaced'
  <2> SUFFICES (NumTicks > 0 => time < time + NumTicks) /\ cycle < Latest + Lag + 0
    BY <1>1, <1>4, <1>5, <1>6 DEF EndPaced
  <2>1. Latest = began + Ratio + Ratio * NumTicks + 6 * Lag
    BY DEF Latest
  <2>2. NumTicks > 0 => time < time + NumTicks
    BY <1>3
  <2> QED
    BY <1>2, <1>3, <1>5, <2>1, <2>2, Bounds
<1> QED
  BY <1>1, <1>8, <1>9, <1>10, <1>11 DEF Sampled, FreshPaced, SpinPaced, Ended, Done, Fresh

LEMMA EndMtimeMorePaced ==
  ASSUME IInv, Shape, Paced, EndMtimeMore
  PROVE  Paced'
<1> SUFFICES ASSUME ~torn'
             PROVE  (/\ Sampled /\ FreshPaced /\ SpinPaced
                     /\ LoopPaced /\ Before /\ Started /\ EndPaced /\ Ended)'
  BY DEF Paced
<1>1. /\ pc = "decide" /\ at = "end" /\ lag' = 0 /\ end' = [end EXCEPT !.time = time]
      /\ \/ time < start.time + NumTicks /\ pc' = "cycle" /\ at' = "end"
         \/ ~(time < start.time + NumTicks) /\ pc' = "idle" /\ at' = "none"
      /\ UNCHANGED <<cycle, highFirst, torn, time, req, began, target, start>>
  BY DEF EndMtimeMore, EndMore, Decides, Acts, Return
<1>2. /\ cycle < Edge(time) + Ratio + Skew + lag
      /\ Last <= time /\ Noted < Edge(Last) + Ratio + Skew + 2 * Lag
      /\ Edge(time) <= Noted + 2 * Lag - Skew
      /\ Edge(start.time) <= start.cycle + 2 * Lag - Skew
      /\ start.cycle < Edge(start.time) + Skew + 2 * Lag
      /\ Edge(start.time) < began + Ratio + 6 * Lag - Skew
      /\ NumTicks > 0 => Last < start.time + NumTicks
      /\ time <= Mtime
  BY <1>1 DEF Paced, Sampled, LoopPaced, Started, EndPaced, IInv, ReadValue
<1>3. /\ {cycle, lag, began, time, Last, Noted, Edge(time), Edge(Last), start.time, end.time,
          Edge(start.time)} \subseteq Nat /\ lag <= Lag
      /\ Mtime' = Mtime /\ NumTicks \in Nat /\ Ratio * NumTicks \in Nat /\ req.op = "core_freq"
  BY <1>1, Numbers, Ticks, ShapePlaces DEF IInv, Mtime
<1>4. end'.time = time /\ end'.cycle = end.cycle
  BY <1>1 DEF Shape
<1>5. Noted = end.cycle /\ UNCHANGED <<Skew, NumTicks, Latest>>
  BY <1>1 DEF Noted, Skew, NumTicks, Latest
<1>6. start.time <= time
  <2>1. start.time <= Last
    BY <1>1, <1>3 DEF Last
  <2> QED
    BY <1>2, <1>3, <2>1
<1>7. Last' = time
  <2>1. ~(time < start.time)
    BY <1>3, <1>6
  <2> QED
    BY <1>1, <1>4, <2>1 DEF Last
<1>8. Edge(Last)' = Edge(time) /\ Edge(start.time)' = Edge(start.time) /\ Edge(end.time)' = Edge(time)
  BY <1>1, <1>4, <1>7 DEF Edge
<1>9. LoopPaced'
  <2>1. cycle < Edge(time) + Ratio + Skew + Lag + 0
    BY <1>2, <1>3, Bounds
  <2> QED
    BY <1>1, <1>2, <1>3, <1>5, <1>7, <1>8, <2>1 DEF LoopPaced
<1>10. Started'
  BY <1>1, <1>2, <1>5, <1>8 DEF Started
<1>11. EndPaced'
  <2>1. CASE at' # "end"
    BY <2>1 DEF EndPaced
  <2>2. CASE at' = "end"
    <3>1. pc' = "cycle" /\ time < start.time + NumTicks
      BY <1>1, <2>2
    <3>2. start.time + NumTicks \in Nat /\ Edge(start.time + NumTicks) = Edge(start.time) + Ratio * NumTicks
      <4>1. start.time \in Nat /\ NumTicks \in Nat
        BY <1>3
      <4>2. start.time + NumTicks \in Nat
        BY <4>1
      <4> QED
        BY <4>1, <4>2, EdgeSum
    <3>3. Edge(time) + Ratio <= Edge(start.time + NumTicks)
      BY <1>3, <3>1, <3>2, Edges
    <3>4. Latest = began + Ratio + Ratio * NumTicks + 6 * Lag
      BY DEF Latest
    <3>5. cycle < Latest + Lag + 0
      BY <1>2, <1>3, <3>2, <3>3, <3>4, Bounds
    <3>6. cycle' = cycle /\ lag' = 0 /\ Latest' = Latest
      BY <1>1, <1>5
    <3>7. cycle' < Latest' + Lag + lag'
      BY <3>5, <3>6
    <3>8. Last' = time /\ (start.time)' = start.time /\ NumTicks' = NumTicks
      BY <1>1, <1>5, <1>7
    <3>9. Last' < (start.time)' + NumTicks'
      BY <3>1, <3>8
    <3> QED
      BY <3>1, <3>7, <3>9 DEF EndPaced
  <2> QED
    BY <2>1, <2>2
<1>12. Ended'
  <2> SUFFICES ASSUME ~(time < start.time + NumTicks), NumTicks > 0
               PROVE  /\ time >= start.time + NumTicks
                      /\ Edge(time) <= end.cycle + 2 * Lag - Skew
                      /\ end.cycle < Edge(time) + Skew + 2 * Lag
    BY <1>1, <1>4, <1>5, <1>8 DEF Ended, Done
  <2>1. time >= start.time + NumTicks /\ Last < time
    BY <1>2, <1>3
  <2>2. Edge(Last) + Ratio <= Edge(time)
    BY <1>3, <2>1, Edges
  <2> QED
    BY <1>2, <1>3, <1>5, <2>1, <2>2, Bounds
<1> QED
  BY <1>1, <1>9, <1>10, <1>11, <1>12 DEF Sampled, FreshPaced, SpinPaced, Before, Fresh
----------------------------------------------------------------------------
Timing == IInv /\ Shape /\ Paced

LEMMA TimingInvariant == Spec => []Timing
<1>1. Init => Timing
  <2> SUFFICES ASSUME Init PROVE Paced
    BY InitIInv, ShapeInit DEF Timing
  <2>1. pc = "idle" /\ at = "none" /\ req.op = "none"
    BY DEF Init
  <2> QED
    BY <2>1 DEF Paced, Sampled, FreshPaced, SpinPaced, LoopPaced, Before, Started, EndPaced,
                Ended, Done, Fresh
<1>2. IInv /\ IInv' /\ Shape /\ Paced /\ [Next]_vars => Shape' /\ Paced'
  <2> SUFFICES ASSUME IInv, IInv', Shape, Paced, [Next]_vars PROVE Shape' /\ Paced'
    OBVIOUS
  <2>1. Shape'
    BY ShapeStep
  <2>2. CASE UNCHANGED vars
    <3>1. UNCHANGED <<cycle, lag, highFirst, pc, req, at, time, torn, target, began, start, end>>
      BY <2>2 DEF vars, callVars
    <3>2. UNCHANGED <<Last, Noted, Skew, Due, Latest, NumTicks, Mtime>>
      BY <3>1 DEF Last, Noted, Skew, Due, Latest, NumTicks, Mtime
    <3>3. /\ Sampled' <=> Sampled
          /\ FreshPaced' <=> FreshPaced
          /\ Before' <=> Before
      BY <3>1, <3>2 DEF Sampled, FreshPaced, Before, Fresh
    <3>4. SpinPaced' <=> SpinPaced
      BY <3>1, <3>2 DEF SpinPaced
    <3>6. LoopPaced' <=> LoopPaced
      BY <3>1, <3>2 DEF LoopPaced
    <3>7. (Started' <=> Started) /\ (Ended' <=> Ended)
      BY <3>1, <3>2 DEF Started, Ended, Done
    <3>8. EndPaced' <=> EndPaced
      BY <3>1, <3>2 DEF EndPaced
    <3> QED
      BY <2>1, <3>1, <3>3, <3>4, <3>6, <3>7, <3>8 DEF Paced
  <2> QED
    BY <2>1, <2>2, TickPaced, CallPaced, LoadFirstPaced, LoadSecondPaced, SpinUntilPaced, AddTicksPaced,
       EndMtimePaced, ReadCyclePaced, StartMtimePaced, EndMtimeMorePaced, SleepingPaced
       DEF Next, Hart, Sleeping
<1> QED
  BY <1>1, <1>2, IInvInvariant, PTL DEF Spec, Timing

(* The measured frequency is the core's: the cycles that were counted      *)
(* differ from those that passed by less than a round of the loop, for     *)
(* every ratio of the clocks, and over at least the ticks asked for.       *)
THEOREM FrequencyRight == Spec => []FreqRight
<1>1. Timing => FreqRight
  <2> SUFFICES ASSUME Timing, Done({"core_freq"}), ~torn, NumTicks > 0
               PROVE  LET ticks == end.time - start.time
                          off   == (end.cycle - start.cycle) - Ratio * ticks
                      IN  ticks >= NumTicks /\ -Round < off /\ off < Round
    BY DEF FreqRight
  <2>1. /\ end.time >= start.time + NumTicks
        /\ Edge(end.time) <= end.cycle + 2 * Lag - Skew /\ end.cycle < Edge(end.time) + Skew + 2 * Lag
        /\ Edge(start.time) <= start.cycle + 2 * Lag - Skew
        /\ start.cycle < Edge(start.time) + Skew + 2 * Lag
    BY DEF Timing, Paced, Started, Ended
  <2>2. /\ {start.cycle, start.time, end.cycle, end.time, Edge(start.time), Edge(end.time)} \subseteq Nat
        /\ NumTicks \in Nat
    BY Numbers, Ticks DEF Timing, IInv, Done
  <2>3. Ratio * (end.time - start.time) = Edge(end.time) - Edge(start.time)
    <3>1. \A r \in Nat, x \in Nat, y \in Nat : r * (x - y) = r * x - r * y
      OBVIOUS
    <3> QED
      BY <2>2, <3>1, Bounds DEF Edge
  <2>4. end.time - start.time >= NumTicks
    BY <2>1, <2>2
  <2>5. /\ -(4 * Lag) < (end.cycle - start.cycle) - (Edge(end.time) - Edge(start.time))
        /\ (end.cycle - start.cycle) - (Edge(end.time) - Edge(start.time)) < 4 * Lag
    BY <2>1, <2>2, Bounds
  <2> QED
    BY <2>3, <2>4, <2>5 DEF Round
<1> QED
  BY <1>1, TimingInvariant, PTL

(* No spin and no measurement takes longer than it should by more than     *)
(* three rounds, unless a read was torn.                                   *)
THEOREM NeverLate == Spec => []NotLate
<1>1. Timing => NotLate
  <2> SUFFICES ASSUME Timing, pc # "idle", req.op \in Busy, ~torn PROVE cycle <= Due + 12 * Lag
    <3>1. 3 * Round = 12 * Lag
      BY Bounds DEF Round
    <3> QED
      BY <3>1 DEF NotLate
  <2>1. /\ FreshPaced /\ SpinPaced /\ LoopPaced /\ Before /\ EndPaced
        /\ Typed /\ Shape
    BY DEF Timing, Paced, IInv
  <2>2. /\ {cycle, lag, began, Last, Noted, Edge(Last)} \subseteq Nat /\ lag <= Lag
        /\ Due \in Nat /\ began <= Due
    BY <2>1, Numbers, Dues, ShapePlaces
  <2>3. at \in Fresh \union {"spin", "start", "end"} /\ pc \in {"first", "second", "decide", "cycle"}
    BY <2>1 DEF Shape, Fresh, Busy, Typed, Pcs
  <2>4. CASE at \in Fresh
    <3>1. cycle <= began + 2 * Lag + lag
      <4>1. pc \in {"first", "second", "decide"}
        BY <2>1, <2>3, <2>4, ShapePlaces DEF Fresh
      <4> QED
        BY <2>1, <2>2, <2>4, <4>1, Bounds DEF FreshPaced
    <3> QED
      BY <2>2, <3>1, Bounds
  <2>5. CASE at = "spin"
    <3>1. pc \in {"first", "second", "decide"}
      BY <2>1, <2>5, ShapePlaces
    <3> QED
      BY <2>1, <2>2, <2>5, <3>1, Bounds DEF SpinPaced
  <2>6. CASE at \in {"start", "end"}
    <3>1. NumTicks \in Nat /\ Ratio * NumTicks \in Nat /\ req.op = "core_freq"
      BY <2>1, <2>6, Ticks, ShapePlaces
    <3>2. Due = began + Ratio * NumTicks + Ratio
      <4>1. Ratio * (NumTicks + 1) = Ratio * NumTicks + Ratio
        BY <3>1, Bounds
      <4>2. Due = began + Ratio * (NumTicks + 1)
        BY <3>1 DEF Due
      <4> QED
        BY <2>2, <3>1, <4>1, <4>2, Bounds
    <3>3. pc \in {"first", "second", "decide", "cycle"}
      BY <2>1, <2>3, <2>6, ShapePlaces
    <3>4. CASE at = "start"
      <4>1. Last = end.time
        BY <3>4 DEF Last
      <4>2. Edge(Last) <= began + 2 * Lag - Skew
        BY <2>1, <3>4, <4>1 DEF Before
      <4>3. cycle < Edge(Last) + Ratio + Skew + 4 * Lag + lag
        BY <2>1, <2>2, <3>3, <3>4, Bounds DEF LoopPaced
      <4> QED
        BY <2>2, <3>1, <3>2, <4>2, <4>3, Bounds
    <3>5. CASE at = "end"
      <4>1. Latest = Due + 6 * Lag
        BY <2>2, <3>1, <3>2, Bounds DEF Latest
      <4>2. cycle < Latest + 4 * Lag + lag
        BY <2>1, <2>2, <3>3, <3>5, <4>1, Bounds DEF EndPaced
      <4> QED
        BY <2>2, <4>1, <4>2, Bounds
    <3> QED
      BY <2>6, <3>4, <3>5
  <2> QED
    BY <2>3, <2>4, <2>5, <2>6
<1> QED
  BY <1>1, TimingInvariant, PTL
=============================================================================
