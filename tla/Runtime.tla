------------------------------ MODULE Runtime -------------------------------
(***************************************************************************)
(* The C runtime of a program (sw/lib/crt0.S) between its caller, the boot *)
(* ROM, and its main; and the zero-stage loader (sw/boot/zsl.c), which     *)
(* calls the ROM's disk driver back under the ROM's global pointer.        *)
(*                                                                         *)
(* A stack pointer is [of, used]: whose stack, and the bytes in use there. *)
(* Any other register, or saved word, holds the name of its value.         *)
(***************************************************************************)
EXTENDS Integers

CONSTANTS
  HartIds,   (* mhartid of the hart that enters.                            *)
  Links,     (* [sp, gp]: whether the program is linked with its own.       *)
  BssLens,   (* Lengths of its .bss section.                                *)
  MaxReads, MaxTraps   (* Bounds on the reads of the loader and on traps.   *)

Margin == 32     (* Bytes of memory looked at past .bss.                    *)

ASSUME LinkAssumption == Links \subseteq [sp : BOOLEAN, gp : BOOLEAN]
ASSUME BssAssumption  == BssLens \subseteq Nat /\ MaxReads \in Nat /\ MaxTraps \in Nat

VARIABLES
  at, hart, link, len, disk,   (* disk: scratch[0] has bit 0 set.           *)
  regs,      (* sp, gp, ra, and a temporary and a callee-saved one.         *)
  old,       (* t1: the caller's sp.                                        *)
  context, frame,   (* On the stack: of the caller, and of a trap.          *)
  left, to, bytes,  (* Bytes to go, the next one, and .bss and what follows.*)
  ownGp,     (* zsl_gp: the loader's global pointer during a read.          *)
  reads, traps,
  cut        (* What a trap has cut off: its place and registers.           *)

start == <<hart, link, len, disk>>
bss   == <<left, to, bytes>>
crtVars == <<at, start, regs, old, context, frame, bss, ownGp, reads, traps, cut>>

Entry == [sp |-> [of |-> "rom", used |-> 0], gp |-> "rom", ra |-> "rom", temp |-> "any", kept |-> "rom"]

CrtInit ==
  /\ at = "start" /\ hart \in HartIds /\ link \in Links /\ len \in BssLens /\ disk \in BOOLEAN
  /\ regs = Entry /\ old = Entry.sp /\ context = Entry /\ frame = Entry
  /\ left = 0 /\ to = 0 /\ bytes = [b \in 0 .. len + Margin - 1 |-> "other"]
  /\ ownGp = "none" /\ reads = 0 /\ traps = 0 /\ cut = [pc |-> "none", regs |-> Entry]

Advance(from, to_) == at = from /\ at' = to_
Push(n) == [regs.sp EXCEPT !.used = @ + n]
Pop(n)  == [regs.sp EXCEPT !.used = @ - n]

----------------------------------------------------------------------------
(* _start.  Harts other than 0 are parked for good.                          *)
SetPointers ==
  /\ Advance("start", IF hart = 0 THEN "save" ELSE "parked")
  /\ old'  = regs.sp
  /\ regs' = IF hart # 0 THEN regs
             ELSE [regs EXCEPT !.sp = IF link.sp THEN [of |-> "own", used |-> 0] ELSE @,
                               !.gp = IF link.gp THEN "own" ELSE @]
  /\ UNCHANGED <<start, context, frame, bss, ownGp, reads, traps, cut>>

(* gp is saved here, after it was overwritten.                             *)
SaveContext ==
  /\ Advance("save", "bss")
  /\ context' = [regs EXCEPT !.sp = old]
  /\ regs' = [regs EXCEPT !.sp = Push(24)]
  /\ left' = len /\ to' = 0
  /\ UNCHANGED <<start, old, frame, bytes, ownGp, reads, traps, cut>>

(* Four double words at a time while there are that many, then bytes.      *)
StrideAlways == 32
Stride == IF left >= 32 THEN 32 ELSE 1

ZeroBss ==
  /\ at = "bss" /\ left > 0
  /\ bytes' = [b \in DOMAIN bytes |-> IF b \in to .. to + Stride - 1 THEN "zero" ELSE bytes[b]]
  /\ left' = left - Stride /\ to' = to + Stride
  /\ UNCHANGED <<at, start, regs, old, context, frame, ownGp, reads, traps, cut>>

CallMain ==
  /\ Advance("bss", "main") /\ left <= 0
  /\ regs' = [regs EXCEPT !.ra = "_exit"]
  /\ UNCHANGED <<start, old, context, frame, bss, ownGp, reads, traps, cut>>

(* _exit, ra first and sp last.                                            *)
ExitSpOnly ==
  /\ Advance("exit", "caller")
  /\ regs' = [regs EXCEPT !.sp = Pop(24), !.gp = context.gp, !.ra = context.ra]
  /\ UNCHANGED <<start, old, context, frame, bss, ownGp, reads, traps, cut>>

Exit ==
  /\ Advance("exit", "caller")
  /\ regs' = [regs EXCEPT !.sp = context.sp, !.gp = context.gp, !.ra = context.ra]
  /\ UNCHANGED <<start, old, context, frame, bss, ownGp, reads, traps, cut>>

----------------------------------------------------------------------------
(* The loader's main: read through the ROM while the boot was from a disk, *)
(* then call the firmware, which may return.                               *)

(* gprw(rgp), where rgp is what the ROM has put into scratch[3].           *)
SwitchGp ==
  /\ Advance("main", "calling")
  /\ disk /\ reads < MaxReads /\ reads' = reads + 1
  /\ ownGp' = regs.gp
  /\ regs' = [regs EXCEPT !.gp = "rom"]
  /\ UNCHANGED <<start, old, context, frame, bss, traps, cut>>

(* Still in the loader, rread is loaded; then it is called.                *)
EnterDriver ==
  /\ Advance("calling", "driver")
  /\ regs' = [regs EXCEPT !.ra = "main"]
  /\ UNCHANGED <<start, old, context, frame, bss, ownGp, reads, traps, cut>>

LeaveDriverBare ==
  /\ Advance("driver", "main")
  /\ regs' = [regs EXCEPT !.temp = "driver"]
  /\ UNCHANGED <<start, old, context, frame, bss, ownGp, reads, traps, cut>>

LeaveDriver ==
  /\ Advance("driver", "main")
  /\ regs' = [regs EXCEPT !.gp = ownGp, !.temp = "driver"]
  /\ UNCHANGED <<start, old, context, frame, bss, ownGp, reads, traps, cut>>

MainEnds ==
  /\ Advance("main", "exit")
  /\ regs' = [regs EXCEPT !.ra = "main", !.temp = "main"]
  /\ UNCHANGED <<start, old, context, frame, bss, ownGp, reads, traps, cut>>

----------------------------------------------------------------------------
(* _trap_handler_wrap, at any place, around the program's trap_vector: one *)
(* that returns, or the loader's and the default one, which do not.        *)
Trap ==
  /\ at \in {"main", "calling", "driver"} /\ at' = "handler"
  /\ traps < MaxTraps /\ traps' = traps + 1
  /\ cut'   = [pc |-> at, regs |-> regs]
  /\ frame' = regs
  /\ regs'  = [regs EXCEPT !.sp = Push(128), !.ra = "wrap"]
  /\ UNCHANGED <<start, old, context, bss, ownGp, reads>>

HandlerSpins ==
  /\ Advance("handler", "parked")
  /\ UNCHANGED <<start, regs, old, context, frame, bss, ownGp, reads, traps, cut>>

HandlerReturns ==
  /\ Advance("handler", "restore")
  /\ regs' = [regs EXCEPT !.temp = "handler", !.ra = "handler"]
  /\ UNCHANGED <<start, old, context, frame, bss, ownGp, reads, traps, cut>>

RestoreTempOnly ==
  /\ at = "restore" /\ at' = cut.pc
  /\ regs' = [regs EXCEPT !.sp = Pop(128), !.temp = frame.temp]
  /\ UNCHANGED <<start, old, context, frame, bss, ownGp, reads, traps, cut>>

Restore ==
  /\ at = "restore" /\ at' = cut.pc
  /\ regs' = [regs EXCEPT !.sp = Pop(128), !.temp = frame.temp, !.ra = frame.ra]
  /\ UNCHANGED <<start, old, context, frame, bss, ownGp, reads, traps, cut>>

----------------------------------------------------------------------------
CrtNext ==
  \/ SetPointers \/ SaveContext \/ ZeroBss \/ CallMain \/ Exit
  \/ SwitchGp \/ EnterDriver \/ LeaveDriver \/ MainEnds
  \/ Trap \/ HandlerSpins \/ HandlerReturns \/ Restore
CrtSpec == CrtInit /\ [][CrtNext]_crtVars

----------------------------------------------------------------------------
(* The caller finds its stack pointer, its return address and its callee-  *)
(* saved registers as they were, whatever reads and traps lie between, and *)
(* its global pointer too if the program has none of its own.              *)
CallerRestored ==
  at = "caller" =>
    /\ regs.sp = Entry.sp /\ regs.ra = Entry.ra /\ regs.kept = Entry.kept
    /\ ~link.gp => regs.gp = Entry.gp

(* What the comments at lines 37 and 123 say: the existing global pointer  *)
(* is stored, and the original one restored.  It is stored only after line *)
(* 34 has overwritten it.                                                  *)
PointersKept == at = "caller" => regs.gp = Entry.gp

(* When main starts .bss is zero to its last byte, whatever its length,    *)
(* and nothing behind it has changed.                                      *)
BssZero ==
  at \notin {"start", "save", "bss", "parked"} =>
    \A b \in DOMAIN bytes : bytes[b] = IF b < len THEN "zero" ELSE "other"

(* The ROM's driver runs under the ROM's global pointer and the loader     *)
(* under its own, whatever reads and traps have gone before; only between  *)
(* the switch and the call, where the loader loads rread, it runs under    *)
(* the ROM's.                                                              *)
GlobalsRight ==
  /\ at = "driver" => regs.gp = "rom"
  /\ at \in {"main", "exit"} => regs.gp = IF link.gp THEN "own" ELSE "rom"

(* A trap whose handler returns leaves every register as it was.           *)
TrapUnseen ==
  [][at = "restore" => regs' = cut.regs]_crtVars
=============================================================================
