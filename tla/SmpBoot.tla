------------------------------ MODULE SmpBoot ------------------------------
(***************************************************************************)
(* The multi-hart part of the boot ROM: smp_pause and smp_resume of        *)
(* sw/include/smp.h as hw/bootrom/cheshire_bootrom.S expands them.         *)
(*                                                                         *)
(* All harts leave reset in _start.  The hart NonSmpHart goes on to main;  *)
(* the others branch to label 2 in the middle of smp_resume and sleep.     *)
(* When main calls boot_next_stage, NonSmpHart writes the entry point to   *)
(* two 32-bit scratch registers and raises the software interrupt of every *)
(* hart, its own included; every hart then clears its own interrupt, waits *)
(* until it has seen each hart's interrupt clear, in index order, and      *)
(* reads the entry point back, one half at a time.                         *)
(*                                                                         *)
(* Each action is one access to a shared register, with the private        *)
(* instructions around it.  Registers of CLINT and regs are accessed in    *)
(* program order, as the non-idempotent regions they are mapped to.        *)
(***************************************************************************)
EXTENDS Naturals

CONSTANTS
  NumHarts,     (* regs.NUM_INT_HARTS: the number of harts.                 *)
  NonSmpHart,   (* NONSMP_HART: the hart that runs main.                    *)
  Word,         (* Values of a 32-bit half of an entry point.               *)
  NoEntry       (* Marks a hart that has not entered the next stage.        *)

Harts   == 0 .. NumHarts - 1
Entries == [lo : Word, hi : Word]

ASSUME NumHartsAssumption == NumHarts \in Nat \ {0}
ASSUME NonSmpAssumption   == NonSmpHart = 0
ASSUME WordAssumption     == 0 \in Word
ASSUME EntryAssumption    == NoEntry \notin Entries

VARIABLES
  pc,       (* Where each hart is.                                          *)
  idx,      (* reg1 of each hart: the hart index its loop has reached.      *)
  msip,     (* CLINT: software interrupt pending, per hart.                 *)
  scratch,  (* regs.SCRATCH[4] (lo) and SCRATCH[5] (hi).                    *)
  arg,      (* The argument of boot_next_stage, NoEntry before the call.    *)
  hiReg,    (* t1 of each hart: the half of the entry point read first.     *)
  entered   (* The address each hart jumped to, NoEntry before the jump.    *)

vars == <<pc, idx, msip, scratch, arg, hiReg, entered>>

PausePC  == {"start", "main", "exit", "scr4", "scr5", "wake"}
ResumePC == {"wait", "ack", "scan", "loadHi", "loadLo", "next", "returned"}
InNextPC == {"next", "returned"}
AckedPC  == {"scan", "loadHi", "loadLo"} \union InNextPC   (* has cleared msip *)
LeftPC   == {"loadHi", "loadLo"} \union InNextPC           (* has left loop 3  *)
PC       == PausePC \union ResumePC

Init ==
  /\ pc      = [h \in Harts |-> "start"]
  /\ idx     = [h \in Harts |-> 0]
  /\ msip    = [h \in Harts |-> FALSE]
  /\ scratch = [lo |-> 0, hi |-> 0]
  /\ arg     = NoEntry
  /\ hiReg   = [h \in Harts |-> 0]
  /\ entered = [h \in Harts |-> NoEntry]

Goto(h, from, to) ==
  /\ pc[h] = from
  /\ pc'   = [pc EXCEPT ![h] = to]

(* smp_pause: enable only the machine software interrupt, and let the      *)
(* NonSmpHart through; bne sends the others to label 2 of smp_resume.      *)
SmpPause(h) ==
  /\ Goto(h, "start", IF h = NonSmpHart THEN "main" ELSE "wait")
  /\ UNCHANGED <<idx, msip, scratch, arg, hiReg, entered>>

(* main loads the next stage and calls boot_next_stage with its address.   *)
CallNextStage(h) ==
  /\ Goto(h, "main", "scr4")
  /\ arg' \in Entries
  /\ UNCHANGED <<idx, msip, scratch, hiReg, entered>>

(* main returns without calling it (an error, or a UART Exec command): _exit *)
(* ends in a wfi loop, and the other harts are never resumed.              *)
MainReturns(h) ==
  /\ Goto(h, "main", "exit")
  /\ UNCHANGED <<idx, msip, scratch, arg, hiReg, entered>>

WriteLo(h) ==
  /\ Goto(h, "scr4", "scr5")
  /\ scratch' = [scratch EXCEPT !.lo = arg.lo]
  /\ UNCHANGED <<idx, msip, arg, hiReg, entered>>

(* The second half, the fence, and the start of the loop over msip.        *)
WriteHi(h) ==
  /\ Goto(h, "scr5", "wake")
  /\ scratch' = [scratch EXCEPT !.hi = arg.hi]
  /\ idx'     = [idx EXCEPT ![h] = 0]
  /\ UNCHANGED <<msip, arg, hiReg, entered>>

(* Loop 1 of smp_resume: raise the interrupt of hart idx, then blt.        *)
WakeAllButLast(h) ==
  /\ Goto(h, "wake", IF idx[h] + 2 < NumHarts THEN "wake" ELSE "wait")
  /\ msip' = [msip EXCEPT ![idx[h]] = TRUE]
  /\ idx'  = [idx EXCEPT ![h] = @ + 1]
  /\ UNCHANGED <<scratch, arg, hiReg, entered>>

Wake(h) ==
  /\ Goto(h, "wake", IF idx[h] + 1 < NumHarts THEN "wake" ELSE "wait")
  /\ msip' = [msip EXCEPT ![idx[h]] = TRUE]
  /\ idx'  = [idx EXCEPT ![h] = @ + 1]
  /\ UNCHANGED <<scratch, arg, hiReg, entered>>

(* Loop 2: sleep until mip.MSIP is set.                                    *)
WfiUnchecked(h) ==
  /\ Goto(h, "wait", "ack")
  /\ UNCHANGED <<idx, msip, scratch, arg, hiReg, entered>>

Wfi(h) ==
  /\ Goto(h, "wait", "ack")
  /\ msip[h]
  /\ UNCHANGED <<idx, msip, scratch, arg, hiReg, entered>>

(* Clear the own interrupt and point reg1 at the first hart.               *)
AckFromOwnIndex(h) ==
  /\ Goto(h, "ack", "scan")
  /\ msip' = [msip EXCEPT ![h] = FALSE]
  /\ idx'  = [idx EXCEPT ![h] = h]
  /\ UNCHANGED <<scratch, arg, hiReg, entered>>

Ack(h) ==
  /\ Goto(h, "ack", "scan")
  /\ msip' = [msip EXCEPT ![h] = FALSE]
  /\ idx'  = [idx EXCEPT ![h] = 0]
  /\ UNCHANGED <<scratch, arg, hiReg, entered>>

(* Loop 3: spin on hart idx until its interrupt is clear, then blt.        *)
Scan(h) ==
  /\ Goto(h, "scan", IF idx[h] + 1 < NumHarts THEN "scan" ELSE "loadHi")
  /\ ~msip[idx[h]]
  /\ idx' = [idx EXCEPT ![h] = @ + 1]
  /\ UNCHANGED <<msip, scratch, arg, hiReg, entered>>

LoadHi(h) ==
  /\ Goto(h, "loadHi", "loadLo")
  /\ hiReg' = [hiReg EXCEPT ![h] = scratch.hi]
  /\ UNCHANGED <<idx, msip, scratch, arg, entered>>

(* Load the other half, or the two together, jalr.                         *)
LoadLoJump(h) ==
  /\ Goto(h, "loadLo", "next")
  /\ entered' = [entered EXCEPT ![h] = [lo |-> scratch.lo, hi |-> hiReg[h]]]
  /\ UNCHANGED <<idx, msip, scratch, arg, hiReg>>

(* The next stage returns to the instruction after jalr.                   *)
StageReturns(h) ==
  /\ Goto(h, "next", "returned")
  /\ UNCHANGED <<idx, msip, scratch, arg, hiReg, entered>>

(* A hart in the next stage sends an inter-processor interrupt, even while *)
(* others are still in the boot ROM, or clears its own.                    *)
SendIpi(h, to) ==
  /\ pc[h] = "next"
  /\ msip' = [msip EXCEPT ![to] = TRUE]
  /\ UNCHANGED <<pc, idx, scratch, arg, hiReg, entered>>

TakeIpi(h) ==
  /\ pc[h] = "next"
  /\ msip' = [msip EXCEPT ![h] = FALSE]
  /\ UNCHANGED <<pc, idx, scratch, arg, hiReg, entered>>

(* A step the code of one hart takes in the boot ROM.                      *)
RomStep(h) ==
  \/ SmpPause(h)
  \/ CallNextStage(h)
  \/ MainReturns(h)
  \/ WriteLo(h)
  \/ WriteHi(h)
  \/ Wake(h)
  \/ Wfi(h)
  \/ Ack(h)
  \/ Scan(h)
  \/ LoadHi(h)
  \/ LoadLoJump(h)

(* A step of the next stage, which the boot ROM does not control.          *)
StageStep(h) ==
  \/ StageReturns(h)
  \/ TakeIpi(h)
  \/ \E to \in Harts : SendIpi(h, to)

Next == \E h \in Harts : RomStep(h) \/ StageStep(h)

Spec == Init /\ [][Next]_vars

(* Each hart keeps executing.                                              *)
Fairness == \A h \in Harts : WF_vars(RomStep(h))

FairSpec == Spec /\ Fairness

----------------------------------------------------------------------------
(* Type invariant.  In the loops idx stays below NumHarts, so no access    *)
(* goes past the last hart's register.                                     *)
TypeOK ==
  /\ pc      \in [Harts -> PC]
  /\ idx     \in [Harts -> 0 .. NumHarts]
  /\ \A h \in Harts : pc[h] \in {"wake", "scan"} => idx[h] \in Harts
  /\ msip    \in [Harts -> BOOLEAN]
  /\ scratch \in Entries
  /\ arg     \in Entries \union {NoEntry}
  /\ hiReg   \in [Harts -> Word]
  /\ entered \in [Harts -> Entries \union {NoEntry}]

(* The barrier: a hart leaves loop 3 of smp_resume only when every hart    *)
(* has been woken and has cleared its interrupt, so the next stage never   *)
(* runs beside a hart that still sleeps in the boot ROM.                   *)
NoEarlyLeave ==
  (\E h \in Harts : pc[h] \in LeftPC) => \A j \in Harts : pc[j] \in AckedPC

(* No torn entry point: each hart, however late it reads scratch[5] and    *)
(* scratch[4], jumps to the very address boot_next_stage was called with.  *)
SameEntry ==
  \A h \in Harts : entered[h] # NoEntry => arg # NoEntry /\ entered[h] = arg

(* No wake-up is left over: until the next stage runs, a hart that has     *)
(* passed the barrier finds every software interrupt clear, so none is     *)
(* taken by the next stage as an interrupt of its own.                     *)
NoStaleWakeup ==
  \A h \in Harts :
    pc[h] \in LeftPC =>
      \/ \E j \in Harts : pc[j] \in InNextPC
      \/ \A j \in Harts : ~msip[j]

(* The inductive invariant behind the three above.  Before the wake-up     *)
(* loop no interrupt is set and no other hart is past its wfi; during it   *)
(* the loop index splits the harts into woken and not yet woken; after it  *)
(* every hart is woken, and stays so until it acknowledges.  A scanning    *)
(* hart knows that the harts below its index have acknowledged: the scan   *)
(* begins with the hart that wakes, whose own interrupt is the first one   *)
(* raised and is cleared only after the last one is raised.                *)
Woken(j) == msip[j] \/ pc[j] \in AckedPC

Roles ==
  \A h \in Harts : h # NonSmpHart => pc[h] \in {"start"} \union ResumePC

BeforeWake ==
  pc[NonSmpHart] \in PausePC \ {"wake"} =>
    \A j \in Harts : ~msip[j] /\ pc[j] \in PausePC \union {"wait"}

DuringWake ==
  pc[NonSmpHart] = "wake" =>
    \A j \in Harts :
      IF j < idx[NonSmpHart]
        THEN Woken(j)
        ELSE ~msip[j] /\ pc[j] \in PausePC \union {"wait"}

AfterWake ==
  pc[NonSmpHart] \in ResumePC => \A j \in Harts : Woken(j)

AckPending ==
  \A h \in Harts :
    /\ pc[h] = "ack" => msip[h]
    /\ pc[h] \in AckedPC /\ msip[h] => \E j \in Harts : pc[j] \in InNextPC

ScanKnows ==
  \A h \in Harts :
    pc[h] = "scan" => \A j \in Harts : j < idx[h] => pc[j] \in AckedPC

ScratchHolds ==
  /\ arg = NoEntry <=> pc[NonSmpHart] \in {"start", "main", "exit"}
  /\ pc[NonSmpHart] \in {"scr5", "wake"} \union ResumePC => scratch.lo = arg.lo
  /\ pc[NonSmpHart] \in {"wake"} \union ResumePC => scratch.hi = arg.hi

JumpTarget ==
  \A h \in Harts :
    /\ pc[h] = "loadLo" => hiReg[h] = arg.hi
    /\ entered[h] = IF pc[h] \in InNextPC THEN arg ELSE NoEntry

HandoverInv ==
  /\ TypeOK
  /\ Roles
  /\ BeforeWake
  /\ DuringWake
  /\ AfterWake
  /\ AckPending
  /\ ScanKnows
  /\ NoEarlyLeave
  /\ ScratchHolds
  /\ JumpTarget

(* Once boot_next_stage is called, every hart enters the next stage, or    *)
(* one that still scans meets an interrupt which the next stage has sent   *)
(* too early, to a hart that has acknowledged; sent to one that scans, it  *)
(* is never cleared.                                                       *)
HeldUp == \E h, j \in Harts : pc[h] = "scan" /\ idx[h] <= j /\ pc[j] \in AckedPC /\ msip[j]

EveryHartEnters ==
  (arg # NoEntry) ~> ((\A h \in Harts : entered[h] # NoEntry) \/ HeldUp)

(* smp_pause and smp_resume implement the rendezvous: a hart has arrived   *)
(* when it has cleared its interrupt and has left when it has jumped.      *)
Rendezvous == INSTANCE SmpRendezvous WITH
  chosen  <- arg,
  arrived <- {h \in Harts : pc[h] \in AckedPC}
RendezvousSpec == Rendezvous!Spec
=============================================================================
