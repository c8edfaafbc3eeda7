------------------------------ MODULE NorFlash ------------------------------
(***************************************************************************)
(* The NOR flash driver (sw/lib/hal/spi_s25fs512s.c) under the flasher     *)
(* (sw/boot/flash.c) and the boot ROM's reads, with the S25FS512S.         *)
(*                                                                         *)
(* A cell stands for a page, of which a sector has SectorPages.  The first *)
(* or the last sector of the device may end in small sectors ("overlay").  *)
(* The device erases whole sectors or, by default, a quarter at a time;    *)
(* programming can only clear bits, so that data over data is "mixed".     *)
(* The library's SPI calls succeed: their arguments are valid.             *)
(***************************************************************************)
EXTENDS Integers, FiniteSets

CONSTANTS
  Sectors,      (* Number of sectors, a multiple of Period.                 *)
  SectorPages, QuarterPages, SmallSectors,  (* 1024, 256; 8 of 16 pages.    *)
  Period,       (* 64: the overlay is looked for at the ends of that many.  *)
  ChunkPages,   (* 4 * SPI_HOST_PARAM_RX_DEPTH, the most one read fetches.  *)
  CoreFreqs,    (* Core frequencies, in Hz.                                 *)
  EraseSizes,   (* Of "quarter" and "whole": what CR3V may be set to.       *)
  Requests,     (* Calls: [op, target, first, num], sectors or pages.       *)
  Faults,       (* Of "errors", "stuck", "reset" and "power".               *)
  MaxCalls      (* Bound on the calls of a behaviour.                       *)

ASSUME SizeAssumption ==
  /\ {Sectors, SectorPages, QuarterPages, SmallSectors, Period, ChunkPages} \subseteq Nat \ {0}
  /\ Period > 1 /\ Sectors % Period = 0
  /\ SmallSectors < QuarterPages /\ QuarterPages < SectorPages
ASSUME EraseAssumption == EraseSizes \subseteq {"quarter", "whole"}
(* Callers of this driver stay within the device; nothing checks it.       *)
ASSUME RequestAssumption ==
  /\ Requests \subseteq [op : {"flash", "read"}, target : Nat, first : Nat, num : Nat]
  /\ \A r \in Requests :
       r.target = 2 => r.first + r.num <= IF r.op = "flash" THEN Sectors ELSE Sectors * SectorPages
ASSUME CallsAssumption == MaxCalls \in Nat /\ CoreFreqs \subseteq Nat

VARIABLES
  pc, polling,   (* Control; the status register is being polled.           *)
  core,          (* The frequency flash.c has measured.                     *)
  calls, req, s, i,     (* Request; sector loop; erase and page loops.      *)
  ret,           (* What the last call has returned, 0 for success.         *)
  buf,           (* The buffer of a read.                                   *)
  dev,           (* Busy, write enable, error, power, erase size, operation.*)
  mem            (* The pages of the device.                                *)

driverVars == <<pc, polling, core, calls, req, s, i, ret, buf>>
vars == <<driverVars, dev, mem>>

Pages  == 0 .. Sectors * SectorPages - 1
Blank  == -1
Mixed  == -2
Old    == 0
Garbage == -3
Data(c, offs) == (c - 1) * Sectors * SectorPages + offs + 1    (* of call c *)
Values == {Blank, Mixed, Old} \union {Data(c, p) : c \in 1 .. MaxCalls, p \in Pages}
Codes  == {0, -1, 19, 96}  (* Success, no such target, an assertion's, error bits. *)

Base(sector) == sector * SectorPages

NoRequest == [op |-> "none", target |-> 0, first |-> 0, num |-> 0]
Call(n, r) == [no |-> n, first |-> r.first, num |-> r.num]
Op(kind, page, value) == [kind |-> kind, page |-> page, value |-> value, of |-> Call(calls, req)]
NoOp == [kind |-> "none", page |-> 0, value |-> 0, of |-> Call(0, NoRequest)]

Init ==
  /\ pc = "idle" /\ polling = FALSE
  /\ core \in CoreFreqs
  /\ calls = 0 /\ req = NoRequest /\ s = 0 /\ i = 0 /\ ret = -1
  /\ buf = [p \in Pages |-> Blank]
  /\ dev \in [busy : {FALSE}, wel : {FALSE}, err : {FALSE}, up : BOOLEAN, size : EraseSizes,
              overlay : {"none", "bottom", "top"}, op : {NoOp}]
  /\ mem \in {[p \in Pages |-> v] : v \in {Blank, Old}}

Goto(from, to) == pc = from /\ pc' = to

Return(code) ==
  /\ pc' = "idle" /\ ret' = code
  /\ UNCHANGED <<core, calls, req, s, i, buf>>

----------------------------------------------------------------------------
(* The device.                                                             *)

Overlay ==
  CASE dev.overlay = "none"   -> {}
    [] dev.overlay = "bottom" -> 0 .. SmallSectors - 1
    [] dev.overlay = "top"    -> Base(Sectors) - SmallSectors .. Base(Sectors) - 1

Touched(op) ==
  CASE op.kind = "small"   -> {op.page} \intersect Overlay
    [] op.kind = "erase"   -> (op.page .. op.page - 1 +
                                 IF dev.size = "whole" THEN SectorPages ELSE QuarterPages) \ Overlay
    [] op.kind = "program" -> {op.page}
    [] OTHER               -> {}

Over(old, new) == IF old \in {Blank, new} THEN new ELSE Mixed
Written(op, p) == IF op.kind = "program" THEN Over(mem[p], op.value) ELSE Blank
SetTo(ps, new) == [p \in Pages |-> IF p \in ps THEN new[p] ELSE mem[p]]

(* Commands are ignored while one is worked on, as are those that find the *)
(* write enable latch clear; reads of the status register are not.         *)
SetWen(d)    == IF d.busy \/ ~d.up THEN d ELSE [d EXCEPT !.wel = TRUE]
Take(d, op)  == IF d.busy \/ ~d.wel THEN d ELSE [d EXCEPT !.busy = TRUE, !.op = op]

(* The value byte of the register write is never driven (kDif..TypeRx in   *)
(* place of Tx): the erase size becomes what the line happens to hold.     *)
Finish ==
  /\ dev.op # NoOp
  /\ mem' = SetTo(Touched(dev.op), [p \in Pages |-> Written(dev.op, p)])
  /\ \E size \in EraseSizes :
       /\ dev.op.kind # "config" => size = dev.size
       /\ dev' = [dev EXCEPT !.busy = FALSE, !.wel = FALSE, !.size = size, !.op = NoOp]
  /\ UNCHANGED driverVars

Spoil == \E v \in {Blank, Mixed} : mem' = SetTo(Touched(dev.op), [p \in Pages |-> v])

(* An operation fails: an error bit stays set until a command the driver   *)
(* never sends.  "stuck": busy does too, as on the real device.            *)
Fails ==
  /\ dev.op.kind \in {"small", "erase", "program"}
  /\ \E f \in Faults \intersect {"errors", "stuck"} :
       dev' = [dev EXCEPT !.err = TRUE, !.busy = (f = "stuck"), !.wel = FALSE, !.op = NoOp]
  /\ Spoil
  /\ UNCHANGED driverVars

PowerUp ==
  /\ ~dev.up /\ dev' = [dev EXCEPT !.up = TRUE]
  /\ UNCHANGED <<driverVars, mem>>

(* The SoC is reset and forgets the call; with its power, so does the      *)
(* device, else that goes on with its operation.                           *)
Reset ==
  /\ calls < MaxCalls /\ pc # "idle"
  /\ pc' = "idle" /\ polling' = FALSE /\ ret' = -1 /\ s' = 0 /\ i' = 0
  /\ \/ "reset" \in Faults /\ UNCHANGED <<dev, mem>>
     \/ /\ "power" \in Faults /\ Spoil
        /\ dev' = [dev EXCEPT !.busy = FALSE, !.wel = FALSE, !.err = FALSE, !.up = FALSE, !.op = NoOp]
  /\ UNCHANGED <<core, calls, req, buf>>

----------------------------------------------------------------------------
(* flash.c and the boot ROM: choose the driver, set it up, wait until the  *)
(* device must have started, call.                                         *)

Main ==
  /\ Goto("idle", "init")
  /\ calls < MaxCalls /\ calls' = calls + 1
  /\ req' \in Requests
  /\ s' = 0 /\ i' = 0 /\ ret' = -1 /\ buf' = [p \in Pages |-> Blank]
  /\ UNCHANGED <<polling, core, dev, mem>>

(* Targets 1 and 3 go to drivers of their own, any other to none.          *)
OtherTarget ==
  /\ pc = "init" /\ req.target # 2
  /\ \E code \in IF req.target \in {1, 3} THEN Codes ELSE {-1} : Return(code)
  /\ UNCHANGED <<polling, dev, mem>>

MHz     == 1000 * 1000
SpiFreq == IF 40 * MHz < core \div 4 THEN 40 * MHz ELSE core \div 4
Legal   == SpiFreq # 0 /\ SpiFreq <= core /\ SpiFreq < (IF req.op = "read" THEN 50 ELSE 100) * MHz

InitDriver ==
  /\ pc = "init" /\ req.target = 2
  /\ IF Legal THEN pc' = "spin" /\ UNCHANGED <<core, calls, req, s, i, ret, buf>> ELSE Return(19)
  /\ UNCHANGED <<polling, dev, mem>>

SpinUntil ==
  /\ Goto("spin", IF req.op = "read" THEN "read" ELSE "config")
  /\ dev.up
  /\ UNCHANGED <<polling, core, calls, req, s, i, ret, buf, dev, mem>>

----------------------------------------------------------------------------
(* The driver.  Write enable and command, then poll until it is done.      *)

Issue(at, op) ==
  /\ pc = at /\ ~polling /\ polling' = TRUE
  /\ dev' = Take(SetWen(dev), op)
  /\ UNCHANGED <<pc, core, calls, req, s, i, ret, buf, mem>>

(* The erase size; "4B" addressing makes no difference to these commands.  *)
Configure == Issue("config", Op("config", 0, 0))

SectorOne == req.first + s + 1
Sector    == req.first + s

NextSector ==
  /\ pc = "sector" /\ s < req.num
  /\ pc' = IF Sector % Period \in {0, Period - 1} THEN "small" ELSE "erase"
  /\ i' = 0
  /\ UNCHANGED <<polling, core, calls, req, s, ret, buf, dev, mem>>

(* At the end of the last of Period sectors, else at the beginning.        *)
SmallFirst == Base(Sector)
SmallBase  == Base(Sector) + IF Sector % Period = Period - 1 THEN SectorPages - SmallSectors ELSE 0

EraseSmall  == Issue("small", Op("small", SmallBase + i, 0))
EraseSector == Issue("erase", Op("erase", Base(Sector), 0))
Program     == Issue("program", Op("program", Base(Sector) + i, Data(calls, s * SectorPages + i)))

At(where, sector, index) == [pc |-> where, s |-> sector, i |-> index]

AfterNoLast ==
  CASE pc = "config"  -> At("sector", s, 0)
    [] pc = "small"   -> IF i + 1 < SmallSectors THEN At("small", s, i + 1) ELSE At("erase", s, 0)
    [] pc = "erase"   -> At("program", s, 0)
    [] pc = "program" -> At("program", s, (i + 1) % SectorPages)

After ==
  CASE pc = "config"  -> At("sector", s, 0)
    [] pc = "small"   -> IF i + 1 < SmallSectors THEN At("small", s, i + 1) ELSE At("erase", s, 0)
    [] pc = "erase"   -> At("program", s, 0)
    [] pc = "program" -> IF i + 1 < SectorPages THEN At("program", s, i + 1) ELSE At("sector", s + 1, 0)

PollOnce ==
  /\ polling /\ polling' = FALSE
  /\ IF dev.err THEN Return(96)
                ELSE /\ pc' = After.pc /\ s' = After.s /\ i' = After.i
                     /\ UNCHANGED <<core, calls, req, ret, buf>>
  /\ UNCHANGED <<dev, mem>>

(* Until the busy bit is clear, without bound; then look at the errors.    *)
Poll ==
  /\ polling /\ ~dev.busy /\ polling' = FALSE
  /\ IF dev.err THEN Return(96)
                ELSE /\ pc' = After.pc /\ s' = After.s /\ i' = After.i
                     /\ UNCHANGED <<core, calls, req, ret, buf>>
  /\ UNCHANGED <<dev, mem>>

(* Chunks of a read; a device that is busy ignores the command.            *)
LengthUncut == ChunkPages
Length == IF req.num - i < ChunkPages THEN req.num - i ELSE ChunkPages

ReadChunk ==
  /\ Goto("read", "read") /\ i < req.num
  /\ buf' = [p \in Pages |-> IF p \notin i .. i + Length - 1 THEN buf[p]
                             ELSE IF dev.busy THEN Garbage ELSE mem[req.first + p]]
  /\ i' = i + ChunkPages
  /\ UNCHANGED <<polling, core, calls, req, s, ret, dev, mem>>

Finished ==
  /\ \/ pc = "sector" /\ s >= req.num
     \/ pc = "read" /\ i >= req.num
  /\ Return(0)
  /\ UNCHANGED <<polling, dev, mem>>

----------------------------------------------------------------------------
Driver ==
  \/ OtherTarget \/ InitDriver \/ SpinUntil \/ Configure \/ NextSector
  \/ EraseSmall \/ EraseSector \/ Program \/ Poll \/ ReadChunk \/ Finished

Device == Finish \/ Fails

Next == Main \/ Driver \/ Device \/ PowerUp \/ Reset
Spec == Init /\ [][Next]_vars

(* The hart runs; the device powers up and comes to an end with what it    *)
(* works on.                                                               *)
FairSpec == Spec /\ WF_vars(Driver) /\ WF_vars(Device) /\ WF_vars(PowerUp)

----------------------------------------------------------------------------
Loops == {"sector", "small", "erase", "program"}
Stuck == dev.busy /\ dev.op = NoOp

Returned(op) == pc = "idle" /\ ret = 0 /\ req.op = op /\ req.target = 2
PagesOf(c) == Base(c.first) .. Base(c.first + c.num) - 1

(* A flash call that reports success has left its image in every page of   *)
(* its sectors, whatever the overlay, whatever they held, and whatever     *)
(* call failed or was cut off before it; where the device erases quarters, *)
(* in the first quarter, and in the others unless they held something.     *)
FlashRight ==
  Returned("flash") =>
    \A p \in PagesOf(req) :
      \/ mem[p] = Data(calls, p - Base(req.first))
      \/ dev.size = "quarter" /\ mem[p] = Mixed /\ p % SectorPages >= QuarterPages

(* A read that has returned holds the device's pages, of any alignment and *)
(* length, and nothing past them; garbage stands only for pages that were  *)
(* read while the device was still busy with what a reset had cut off, and *)
(* so before all that are right.                                           *)
ReadRight ==
  Returned("read") =>
    \A p \in Pages :
      /\ buf[p] \in IF p < req.num THEN {mem[req.first + p], Garbage} ELSE {Blank}
      /\ buf[p] = Garbage => \A q \in 0 .. p : buf[q] = Garbage

(* Each command of the sector loops is taken, even after a reset in the    *)
(* middle of an operation: it finds the device done with the one before,   *)
(* which would ignore it, and write-enabled (comment at line 85).          *)
EveryOpTaken ==
  [][(pc \in Loops /\ ~polling /\ polling') =>
       /\ ~dev.busy /\ dev'.busy
       /\ dev'.op.kind = pc /\ dev'.op.of = Call(calls, req)]_vars

(* The inductive invariant behind it: within the sector loops, no          *)
(* operation is going on but the one that is polled for.                   *)
LoopsQuiet ==
  /\ dev = [busy |-> dev.busy, wel |-> dev.wel, err |-> dev.err, up |-> dev.up, size |-> dev.size,
            overlay |-> dev.overlay, op |-> dev.op]
  /\ {dev.busy, polling} \subseteq BOOLEAN
  /\ ~dev.busy => dev.op = NoOp
  /\ pc \in Loops \union {"config"} => dev.up
  /\ pc \in Loops /\ ~polling => ~dev.busy
  /\ polling => pc \in {"config", "small", "erase", "program"}

(* Every call returns, unless the device stays busy after a failure.       *)
CallEnds == (pc # "idle") ~> (pc = "idle" \/ Stuck)

(* The driver implements the abstract disk: what happens to the device is  *)
(* the work of the call in progress, or of one that a reset cut off; a     *)
(* success counts where the device erases whole sectors.                   *)
Current == IF pc # "idle" /\ req.op = "flash" /\ req.target = 2 THEN Call(calls, req)
                                                             ELSE NoOp.of
DiskAbove == INSTANCE Disk WITH
  Cell <- Pages, Value <- Values, None <- NoOp.of,
  Calls <- {Call(n, r) : n \in 1 .. MaxCalls, r \in {q \in Requests : q.op = "flash"}},
  Range <- PagesOf,
  Image <- LAMBDA c, p : Data(c.no, p - Base(c.first)),
  cells <- mem, call <- Current,
  late <- IF dev.op.of = Current THEN NoOp.of ELSE dev.op.of,
  good <- Returned("flash") /\ dev.size = "whole"
DiskSpec == DiskAbove!Spec

=============================================================================
