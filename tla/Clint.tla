-------------------------------- MODULE Clint -------------------------------
(***************************************************************************)
(* The timer driver (sw/lib/dif/clint.c) over the CLINT: a 64-bit time     *)
(* that is read in two halves while it runs, and a comparator.             *)
(*                                                                         *)
(* Time is counted in core cycles, Ratio of which make a tick of mtime.    *)
(* C leaves open which half of mtime is read first; a build reads them in  *)
(* one order.  What a program's own trap_vector does about the alarm is    *)
(* left to it; the default one (sw/lib/crt0.S) never returns.              *)
(***************************************************************************)
EXTENDS Integers

CONSTANTS
  Half,      (* Ticks until the low half wraps around: 2^32.                *)
  Ratio,     (* Core cycles of a tick.                                      *)
  Lag,       (* The most cycles between two steps of the hart.              *)
  RefFreq,   (* Ticks of a second, as the register RTC_FREQ says.           *)
  Requests,  (* Calls: [op, n] records.                                     *)
  Rearms,    (* Ticks from now on to which a handler may set the alarm.     *)
  MaxCycle   (* Bound on time.                                              *)

ASSUME TimeAssumption ==
  /\ {Half, Ratio, Lag} \subseteq Nat \ {0} /\ {RefFreq, MaxCycle} \union Rearms \subseteq Nat
ASSUME RequestAssumption ==
  /\ Requests \subseteq [op : {"spin_until", "spin_ticks", "sleep_until", "sleep_ticks", "core_freq"},
                         n  : Nat]
  /\ \A r \in Requests : r.op = "core_freq" => r.n # 0    (* Callers pass 2500. *)

VARIABLES
  cycle, lag,    (* mcycle; cycles since the hart's last step.              *)
  highFirst,     (* Which half this build reads first.                      *)
  pc, req, at,   (* The call, and the place in it that reads mtime.         *)
  half, time,    (* The half read first; what the last read has yielded.    *)
  torn,          (* A carry came between the halves of a read of the call.  *)
  target, began, (* When to return, and the cycle of the call.              *)
  start, end,    (* Of clint_get_core_freq: [cycle, time] records.          *)
  cmp,           (* mtimecmp: [hi, lo].                                     *)
  irq            (* The timer interrupt is enabled, mtie and mie.           *)

callVars  == <<req, target, began, start, end>>
alarmVars == <<cmp, irq>>
vars == <<cycle, lag, highFirst, pc, at, half, torn, time, callVars, alarmVars>>

Mtime == cycle \div Ratio
Hi(t) == t \div Half
Lo(t) == t % Half
Split(t) == [hi |-> Hi(t), lo |-> Lo(t)]
Zero  == [cycle |-> 0, time |-> 0]

Init ==
  /\ cycle \in 0 .. Half * Ratio - 1 /\ lag = 0 /\ highFirst \in BOOLEAN
  /\ pc = "idle" /\ at = "none" /\ req = [op |-> "none", n |-> 0]
  /\ half = 0 /\ torn = FALSE /\ time = 0 /\ target = 0 /\ began = 0
  /\ start = Zero /\ end = Zero
  /\ cmp = Split(0) /\ irq = FALSE     (* crt0.S disables interrupts *)

Goto(from, to) == pc = from /\ pc' = to
Acts == lag' = 0 /\ UNCHANGED <<cycle, highFirst>>

Alarm == irq /\ Mtime >= cmp.hi * Half + cmp.lo
Waits == pc = "asleep" /\ ~Alarm

(* Time goes on, from any time on at which the call is made; the hart does *)
(* not stand still while it has work to do.                                *)
Tick ==
  /\ pc \notin {"idle", "stuck"} /\ cycle < MaxCycle /\ cycle' = cycle + 1
  /\ IF Waits THEN lag' = 0 ELSE lag < Lag /\ lag' = lag + 1
  /\ UNCHANGED <<highFirst, pc, at, half, torn, time, callVars, alarmVars>>

----------------------------------------------------------------------------
(* clint_get_mtime: two loads.                                             *)

LoadFirst ==
  /\ Goto("first", "second") /\ Acts
  /\ half' = IF highFirst THEN Hi(Mtime) ELSE Lo(Mtime)
  /\ time' = Mtime          (* what the time was, until the second load     *)
  /\ UNCHANGED <<at, torn, callVars, alarmVars>>

LoadSecond ==
  /\ Goto("second", "decide") /\ Acts
  /\ torn' = (torn \/ Hi(time) # Hi(Mtime))
  /\ time' = IF highFirst THEN half * Half + Lo(Mtime) ELSE Hi(Mtime) * Half + half
  /\ UNCHANGED <<at, half, callVars, alarmVars>>

----------------------------------------------------------------------------
(* The functions, from one read of mtime to the next.                      *)

(* The place whose read comes first; spin_until and sleep_until start with *)
(* their target, the others compute it from the time they read.            *)
Entry == [spin_until |-> "spin", spin_ticks |-> "spin_base", core_freq |-> "end_mtime",
          sleep_until |-> "sleep", sleep_ticks |-> "sleep_base"]

Call ==
  /\ Goto("idle", "first") /\ Acts
  /\ req.op = "none" /\ req' \in Requests
  /\ at' = Entry[req'.op] /\ target' = req'.n /\ began' = cycle
  /\ UNCHANGED <<half, torn, time, start, end, alarmVars>>

ReadAgain(place) == pc' = "first" /\ at' = place
Return           == pc' = "idle" /\ at' = "none"
Decides(place)   == pc = "decide" /\ at = place /\ Acts /\ UNCHANGED <<half, torn, time, req, began>>

SpinMoreLate == time <= target
SpinMoreOnce == time + 1 < target
SpinMore     == time < target

SpinUntil ==
  /\ Decides("spin")
  /\ IF SpinMore THEN ReadAgain("spin") ELSE Return
  /\ UNCHANGED <<target, start, end, alarmVars>>

(* spin_ticks and sleep_ticks: the target lies that far ahead.             *)
AddTicks ==
  /\ \/ Decides("spin_base")  /\ ReadAgain("spin")
     \/ Decides("sleep_base") /\ ReadAgain("sleep")
  /\ target' = time + req.n
  /\ UNCHANGED <<start, end, alarmVars>>

(* core_freq: wait for a tick, then for num_ticks more; each reading of    *)
(* the cycle counter comes before the one of mtime.                        *)
NumTicks == RefFreq \div req.n

EndMtime ==
  /\ Decides("end_mtime")
  /\ pc' = "cycle" /\ at' = "start"
  /\ end' = [end EXCEPT !.time = time]
  /\ UNCHANGED <<target, start, alarmVars>>

ReadCycle ==
  /\ Goto("cycle", "first") /\ Acts
  /\ start' = IF at = "start" THEN [start EXCEPT !.cycle = cycle] ELSE start
  /\ end'   = IF at = "end"   THEN [end EXCEPT !.cycle = cycle] ELSE end
  /\ UNCHANGED <<at, half, torn, time, req, began, target, alarmVars>>

NoRollover == TRUE
Rollover   == time # end.time

StartMtime ==
  /\ Decides("start")
  /\ pc' = "cycle" /\ at' = IF Rollover THEN "end" ELSE "start"
  /\ start' = [start EXCEPT !.time = time]
  /\ UNCHANGED <<target, end, alarmVars>>

EndMore == time < start.time + NumTicks

EndMtimeMore ==
  /\ Decides("end")
  /\ end' = [end EXCEPT !.time = time]
  /\ IF EndMore THEN pc' = "cycle" /\ at' = "end" ELSE Return
  /\ UNCHANGED <<target, start, alarmVars>>

(* sleep_until, with its comparison as it is; set_mtimecmpx writes the     *)
(* high half first.                                                        *)
SleepUntil ==
  /\ Decides("sleep")
  /\ IF time < target THEN Return ELSE pc' = "set_hi" /\ at' = at
  /\ UNCHANGED <<target, start, end, alarmVars>>

SetHigh ==
  /\ Goto("set_hi", "set_lo") /\ Acts
  /\ cmp' = [cmp EXCEPT !.hi = Hi(target)]
  /\ UNCHANGED <<at, half, torn, time, callVars, irq>>

SetLow ==
  /\ Goto("set_lo", "enable") /\ Acts
  /\ cmp' = [cmp EXCEPT !.lo = Lo(target)]
  /\ UNCHANGED <<at, half, torn, time, callVars, irq>>

(* fence, set_mtie and set_mie: only now may the alarm interrupt.          *)
EnableTimer ==
  /\ Goto("enable", "wfi") /\ Acts /\ irq' = TRUE
  /\ UNCHANGED <<at, half, torn, time, callVars, cmp>>

(* The hart goes to sleep, unless the trap comes first.                    *)
Wfi ==
  /\ Goto("wfi", "asleep") /\ Acts
  /\ UNCHANGED <<at, half, torn, time, callVars, alarmVars>>

(* The alarm interrupts before the wfi or in it; at is where to resume.    *)
Trap ==
  /\ pc \in {"wfi", "asleep"} /\ Alarm /\ Acts
  /\ pc' = "trapped" /\ at' = IF pc = "wfi" THEN "before" ELSE "after"
  /\ UNCHANGED <<half, torn, time, callVars, alarmVars>>

(* The default trap_vector, and the zero-stage loader's.                   *)
HandlerSpins ==
  /\ Goto("trapped", "stuck") /\ Acts
  /\ UNCHANGED <<at, half, torn, time, callVars, alarmVars>>

(* A program's own sets another alarm or masks it.  Only what it has cut   *)
(* off in its sleep goes on after the wfi; the rest has yet to sleep.      *)
HandlerReturns ==
  /\ pc = "trapped" /\ Acts
  /\ IF at = "after" THEN Return ELSE pc' = "wfi" /\ at' = "sleep"
  /\ \/ \E n \in Rearms : cmp' = Split(Mtime + n) /\ UNCHANGED irq
     \/ irq' = FALSE /\ UNCHANGED cmp
  /\ UNCHANGED <<half, torn, time, callVars>>

----------------------------------------------------------------------------
Hart == LoadFirst \/ LoadSecond \/ SpinUntil \/ AddTicks \/ EndMtime \/ ReadCycle \/ StartMtime
        \/ EndMtimeMore \/ SleepUntil \/ SetHigh \/ SetLow \/ EnableTimer
        \/ Wfi \/ Trap \/ HandlerSpins \/ HandlerReturns

Next == Tick \/ Call \/ Hart
Spec == Init /\ [][Next]_vars

----------------------------------------------------------------------------
Done(ops) == pc = "idle" /\ req.op \in ops

(* A spin is over only when its time has come, and one for n ticks when n  *)
(* ticks have passed since the call, across the carry too: only one that   *)
(* fell between the two halves of a read can end it early, and the spin to *)
(* an absolute time not even then if the high half is read first.          *)
NotEarly ==
  Done({"spin_until", "spin_ticks"}) /\ ~(torn /\ ~(highFirst /\ req.op = "spin_until")) =>
    /\ Mtime >= target
    /\ req.op = "spin_ticks" => Mtime >= began \div Ratio + req.n

(* The measured frequency is that of the core: over at least the asked     *)
(* number of ticks, the cycles counted differ from the cycles passed by    *)
(* less than a round of the measuring loop, however long a tick is, and    *)
(* the divisor is not zero.  Left out are a read that a carry has torn and *)
(* a call for less than one tick.                                          *)
Round == 4 * Lag

FreqRight ==
  Done({"core_freq"}) /\ ~torn /\ NumTicks > 0 =>
    LET ticks == end.time - start.time
        off   == (end.cycle - start.cycle) - Ratio * ticks
    IN  ticks >= NumTicks /\ -Round < off /\ off < Round

(* No spin and no measurement takes longer than it should by more than     *)
(* three rounds, unless a read was torn: a spin beyond its time, a         *)
(* measurement beyond one tick more than was asked for.                    *)
Due ==
  CASE req.op = "spin_until"  -> IF Ratio * target > began THEN Ratio * target ELSE began
    [] req.op = "spin_ticks"  -> began + Ratio * req.n
    [] req.op = "core_freq"   -> began + Ratio * (NumTicks + 1)

Busy    == {"spin_until", "spin_ticks", "core_freq"}
NotLate == pc # "idle" /\ req.op \in Busy /\ ~torn => cycle <= Due + 3 * Round

(* What the comments at lines 57 and 63 say of a sleep: it sets the alarm  *)
(* for a time from now on and waits for it, so it is over only when that   *)
(* time has come.  The comparison at line 56 is the other way around: for  *)
(* a time to come the call returns at once.                                *)
SleepLasts == Done({"sleep_until", "sleep_ticks"}) /\ ~torn => Mtime >= target
=============================================================================
