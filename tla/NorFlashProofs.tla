--------------------------- MODULE NorFlashProofs ---------------------------
(***************************************************************************)
(* Proofs about NorFlash, for every geometry, set of requests, fault and   *)
(* number of calls: no command of the sector loops is lost, a flash call   *)
(* that reports success has written its image, a read returns what the     *)
(* device holds, and the driver implements the abstract disk.              *)
(*                                                                         *)
(* The invariant behind the image: within the loops the device works on    *)
(* nothing but the operation that is polled for; sectors before the one in *)
(* progress are good; of that one, the small sectors are erased before the *)
(* rest, the rest before a page is programmed, and pages in order.         *)
(***************************************************************************)
EXTENDS NorFlash, TLAPS

(* An idle, powered device takes a command that write enable goes before.  *)
LEMMA Taken ==
  ASSUME LoopsQuiet, dev.up, ~dev.busy, NEW op
  PROVE  /\ Take(SetWen(dev), op).busy = TRUE /\ Take(SetWen(dev), op).op = op
         /\ Take(SetWen(dev), op).up = dev.up
  BY DEF LoopsQuiet, Take, SetWen

LEMMA Initially == Init => LoopsQuiet
<1> SUFFICES ASSUME Init PROVE LoopsQuiet
  OBVIOUS
<1>1. PICK z \in EraseSizes, u \in BOOLEAN, o \in {"none", "bottom", "top"} :
        dev = [busy |-> FALSE, wel |-> FALSE, err |-> FALSE, up |-> u, size |-> z, overlay |-> o, op |-> NoOp]
  BY DEF Init
<1> QED
  BY <1>1 DEF Init, LoopsQuiet, Loops

(* A command keeps the device's shape, and finds it busy or makes it so.   *)
LEMMA IssueQuiet ==
  ASSUME LoopsQuiet, NEW at \in {"config", "small", "erase", "program"}, NEW op, Issue(at, op)
  PROVE  LoopsQuiet'
<1> DEFINE w == SetWen(dev)
<1>1. /\ w = [busy |-> w.busy, wel |-> w.wel, err |-> w.err, up |-> w.up, size |-> w.size,
              overlay |-> w.overlay, op |-> w.op]
      /\ w.busy = dev.busy /\ w.up = dev.up /\ w.op = dev.op
  BY DEF LoopsQuiet, SetWen
<1> HIDE DEF w
<1>2. dev' = w \/ dev' = [w EXCEPT !.busy = TRUE, !.op = op]
  BY DEF Issue, Take, w
<1>3. polling' = TRUE /\ pc' = at /\ UNCHANGED <<calls, req>>
  BY DEF Issue
<1>4. CASE dev' = w
  BY <1>1, <1>3, <1>4 DEF LoopsQuiet, Loops, Issue, NoOp, NoRequest, Call
<1>5. CASE dev' = [w EXCEPT !.busy = TRUE, !.op = op]
  BY <1>1, <1>3, <1>5 DEF LoopsQuiet, Loops, Issue
<1> QED
  BY <1>2, <1>4, <1>5

(* What the device does by itself.                                         *)
LEMMA DeviceQuiet ==
  ASSUME LoopsQuiet, Device \/ PowerUp
  PROVE  LoopsQuiet'
<1> USE DEF LoopsQuiet, Loops, driverVars
<1>1. CASE Finish
  BY <1>1 DEF Finish, NoOp, NoRequest, Call
<1>2. CASE Fails
  <2>1. dev.busy
    BY <1>2 DEF Fails, NoOp
  <2> QED
    BY <1>2, <2>1 DEF Fails, NoOp, NoRequest, Call
<1>3. CASE PowerUp
  BY <1>3 DEF PowerUp, NoOp, NoRequest, Call
<1> QED
  BY <1>1, <1>2, <1>3 DEF Device

(* A reset leaves the loops.                                               *)
LEMMA ResetQuiet ==
  ASSUME LoopsQuiet, Reset
  PROVE  LoopsQuiet'
  BY DEF LoopsQuiet, Loops, Reset, NoOp, NoRequest, Call

(* A poll goes on only when the device is no longer busy.                  *)
LEMMA PollQuiet ==
  ASSUME LoopsQuiet, Poll
  PROVE  LoopsQuiet'
<1>1. UNCHANGED dev /\ ~dev.busy /\ polling' = FALSE /\ dev.up
  BY DEF Poll, LoopsQuiet, Loops
<1> QED
  BY <1>1 DEF LoopsQuiet, Loops, NoOp, NoRequest, Call

(* LoopsQuiet is inductive.                                                *)
THEOREM LoopsInvariant == Spec => []LoopsQuiet
<1>1. LoopsQuiet /\ [Next]_vars => LoopsQuiet'
  <2> SUFFICES ASSUME LoopsQuiet, [Next]_vars PROVE LoopsQuiet'
    OBVIOUS
  <2>1. CASE Configure \/ EraseSmall \/ EraseSector \/ Program
    BY <2>1, IssueQuiet DEF Configure, EraseSmall, EraseSector, Program
  <2>2. CASE Main \/ OtherTarget \/ InitDriver \/ SpinUntil \/ NextSector \/ ReadChunk \/ Finished
    BY <2>2 DEF LoopsQuiet, Loops, Main, OtherTarget, InitDriver, SpinUntil, NextSector, ReadChunk,
                Finished, Return, Goto, NoOp, NoRequest, Call
  <2>3. CASE UNCHANGED vars
    BY <2>3 DEF LoopsQuiet, Loops, vars, driverVars, NoOp, NoRequest, Call
  <2> QED
    BY <2>1, <2>2, <2>3, DeviceQuiet, ResetQuiet, PollQuiet DEF Next, Driver
<1> QED
  BY <1>1, Initially, PTL DEF Spec

(* Each command that a sector loop sends finds a device that takes it.     *)
THEOREM NoOpLost == Spec => EveryOpTaken
<1>1. LoopsQuiet /\ [Next]_vars =>
        [(pc \in Loops /\ ~polling /\ polling') =>
           /\ ~dev.busy /\ dev'.busy
           /\ dev'.op.kind = pc /\ dev'.op.of = Call(calls, req)]_vars
  <2> SUFFICES ASSUME LoopsQuiet, Next, pc \in Loops, ~polling, polling'
               PROVE  /\ ~dev.busy /\ dev'.busy = TRUE
                      /\ dev'.op.kind = pc /\ dev'.op.of = Call(calls, req)
    OBVIOUS
  <2>1. dev.up /\ ~dev.busy
    BY DEF LoopsQuiet
  <2>2. ASSUME NEW at, NEW page, NEW value, Issue(at, Op(at, page, value))
        PROVE  dev'.busy = TRUE /\ dev'.op.kind = pc /\ dev'.op.of = Call(calls, req)
    <3>1. pc = at /\ dev'.busy = TRUE /\ dev'.op = Op(at, page, value)
      BY <2>1, <2>2, Taken DEF Issue
    <3> QED
      BY <3>1 DEF Op
  <2>3. CASE Configure \/ EraseSmall \/ EraseSector \/ Program
    BY <2>1, <2>2, <2>3 DEF Configure, EraseSmall, EraseSector, Program
  <2>4. ~(Main \/ OtherTarget \/ InitDriver \/ SpinUntil \/ NextSector \/ ReadChunk \/ Finished
          \/ Poll \/ Finish \/ Fails \/ PowerUp \/ Reset)
    BY DEF Main, OtherTarget, InitDriver, SpinUntil, NextSector, ReadChunk, Finished, Poll,
           Finish, Fails, PowerUp, Reset, driverVars
  <2> QED
    BY <2>1, <2>3, <2>4 DEF Next, Driver, Device
<1> QED
  BY <1>1, LoopsInvariant, PTL DEF Spec, EveryOpTaken
----------------------------------------------------------------------------
(* What a successful flash has written.                                    *)
Offsets   == 0 .. SectorPages - 1
Pg(t, k)  == Base(req.first + t) + k
Clean(k)  == dev.size = "whole" \/ k < QuarterPages

(* A page of the request's t-th sector holds its part of the image.        *)
Good(t, k) ==
  \/ mem[Pg(t, k)] = Data(calls, t * SectorPages + k)
  \/ ~Clean(k) /\ mem[Pg(t, k)] = Mixed

FlashCalls == {Call(n, r) : n \in 1 .. MaxCalls, r \in {q \in Requests : q.op = "flash" /\ q.target = 2}}
NoCall     == NoOp.of

Ops == [kind : {"config", "small", "erase", "program"}, page : Int, value : Values, of : FlashCalls]

(* An operation works on pages of its call only.                           *)
OpInside(op) ==
  /\ op.kind \in {"small", "program"} => op.page \in PagesOf(op.of)
  /\ op.kind = "erase" => op.page .. op.page + SectorPages - 1 \subseteq PagesOf(op.of)
  /\ op.of.no <= calls

Pcs == Loops \union {"idle", "init", "spin", "config", "read"}

Typed ==
  /\ pc \in Pcs /\ polling \in BOOLEAN /\ {calls, s, i} \subseteq Nat /\ calls <= MaxCalls
  /\ req \in Requests \union {NoRequest} /\ ret \in Int
  /\ dev.busy \in BOOLEAN /\ dev.err \in BOOLEAN
  /\ dev.size \in {"quarter", "whole"} /\ dev.overlay \in {"none", "bottom", "top"}
  /\ dev.op = NoOp \/ (dev.op \in Ops /\ OpInside(dev.op))
  /\ mem \in [Pages -> Values]

Flashing == pc \in Loops \union {"config"}

Control ==
  /\ pc # "idle" => req \in Requests /\ calls >= 1
  /\ pc \in {"spin", "read"} \/ Flashing => req.target = 2
  /\ Flashing => req.op = "flash"
  /\ pc = "read" => req.op = "read"
  /\ pc \in {"init", "spin", "config"} => s = 0
  /\ pc \in {"init", "spin"} => i = 0
  /\ pc = "sector" => s <= req.num
  /\ pc \in {"small", "erase", "program"} => s < req.num
  /\ pc = "small" => i < SmallSectors
  /\ pc = "erase" => i = 0
  /\ pc = "program" => i < SectorPages

(* Within the loops, the device works on the operation that is polled for. *)
OwnOp ==
  CASE pc = "small"   -> Op("small", SmallBase + i, 0)
    [] pc = "erase"   -> Op("erase", Base(Sector), 0)
    [] pc = "program" -> Op("program", Base(Sector) + i, Data(calls, s * SectorPages + i))
    [] OTHER          -> NoOp

Own == pc \in Loops => (dev.op = NoOp \/ dev.op = OwnOp) /\ (~polling => ~dev.err)

(* What is done of the sector in progress.                                 *)
Done     == polling /\ ~dev.busy
Progress == IF Done THEN i + 1 ELSE i

Before ==
  pc \in Loops /\ ~dev.err => \A t \in 0 .. s - 1, k \in Offsets : Good(t, k)

SmallErased ==
  pc = "small" /\ ~dev.err =>
    \A j \in 0 .. Progress - 1 : SmallBase + j \in Overlay => mem[SmallBase + j] = Blank

Erased ==
  pc = "erase" /\ ~dev.err =>
    \A k \in Offsets : Pg(s, k) \in Overlay \/ (Done /\ Clean(k)) => mem[Pg(s, k)] = Blank

Programmed ==
  pc = "program" /\ ~dev.err =>
    \A k \in Offsets : IF k < Progress THEN Good(s, k) ELSE Clean(k) => mem[Pg(s, k)] = Blank

Whole ==
  Returned("flash") => /\ dev.op = NoOp
                       /\ req \in Requests /\ \A t \in 0 .. req.num - 1, k \in Offsets : Good(t, k)

----------------------------------------------------------------------------
(* Arithmetic of sectors and pages.                                        *)
LEMMA Sizes ==
  /\ Sectors \in Nat \ {0} /\ SectorPages \in Nat \ {0} /\ QuarterPages \in Nat \ {0}
  /\ SmallSectors \in Nat \ {0} /\ Period \in Nat \ {0, 1} /\ ChunkPages \in Nat \ {0}
  /\ SmallSectors < QuarterPages /\ QuarterPages < SectorPages /\ Sectors % Period = 0
  BY SizeAssumption

LEMMA DivMod ==
  ASSUME NEW x \in Nat, NEW m \in Nat \ {0}
  PROVE  x \div m \in Nat /\ x % m \in 0 .. m - 1 /\ x = m * (x \div m) + (x % m)
  OBVIOUS

LEMMA Bases ==
  ASSUME NEW t \in Nat, NEW n \in Nat
  PROVE  /\ Base(t) \in Nat /\ Base(t + n) = Base(t) + n * SectorPages /\ n * SectorPages \in Nat
         /\ Base(t + 1) = Base(t) + SectorPages
<1>1. SectorPages \in Nat \ {0}
  BY Sizes
<1>2. \A a \in Nat, b \in Nat, c \in Nat : (a + b) * c = a * c + b * c /\ a * c \in Nat /\ b * c \in Nat
  OBVIOUS
<1>3. (t + n) * SectorPages = t * SectorPages + n * SectorPages
  BY <1>1, <1>2
<1>4. (t + 1) * SectorPages = t * SectorPages + SectorPages
  BY <1>1
<1> QED
  BY <1>1, <1>2, <1>3, <1>4 DEF Base

LEMMA Ordered ==
  ASSUME NEW t \in Nat, NEW u \in Nat, t < u
  PROVE  Base(t) + SectorPages <= Base(u)
<1>1. SectorPages \in Nat \ {0}
  BY Sizes
<1>2. (u - t - 1) * SectorPages >= 0
  BY <1>1
<1>3. (u - t - 1) * SectorPages = u * SectorPages - t * SectorPages - SectorPages
  BY <1>1
<1>4. u * SectorPages \in Int /\ t * SectorPages \in Int
  BY <1>1
<1> QED
  BY <1>1, <1>2, <1>3, <1>4 DEF Base

LEMMA Apart ==
  ASSUME NEW t \in Nat, NEW u \in Nat, NEW k \in Offsets, NEW l \in Offsets,
         Base(t) + k = Base(u) + l
  PROVE  t = u /\ k = l
<1>1. Base(t) \in Nat /\ Base(u) \in Nat /\ SectorPages \in Nat
  BY Sizes, Bases
<1>2. ~(t < u) /\ ~(u < t)
  BY <1>1, Ordered DEF Offsets
<1> QED
  BY <1>1, <1>2 DEF Offsets

(* A range of sectors is made up of their pages.                           *)
LEMMA Join ==
  ASSUME NEW c \in Nat, NEW n \in Nat, NEW t \in 0 .. n - 1, NEW k \in Offsets
  PROVE  Base(c + t) + k \in Base(c) .. Base(c + n) - 1
<1>1. /\ Base(c) \in Nat /\ Base(c + t) \in Nat /\ Base(c + n) \in Nat /\ SectorPages \in Nat
      /\ Base(c) <= Base(c + t)
  <2>1. t \in Nat /\ c + t \in Nat /\ c + n \in Nat
    OBVIOUS
  <2>2. Base(c + t) = Base(c) + t * SectorPages /\ t * SectorPages \in Nat /\ Base(c) \in Nat
    BY <2>1, Bases
  <2>3. Base(c + t) \in Nat /\ Base(c + n) \in Nat
    BY <2>1, Bases
  <2> QED
    BY <2>2, <2>3, Sizes
<1>2. Base(c + t) + SectorPages <= Base(c + n)
  <2>1. c + t \in Nat /\ c + n \in Nat /\ c + t < c + n
    OBVIOUS
  <2> QED
    BY <2>1, Ordered
<1> QED
  BY <1>1, <1>2 DEF Offsets

LEMMA Split ==
  ASSUME NEW c \in Nat, NEW n \in Nat, NEW p \in Base(c) .. Base(c + n) - 1
  PROVE  \E t \in 0 .. n - 1, k \in Offsets :
           p = Base(c + t) + k /\ p % SectorPages = k /\ p - Base(c) = t * SectorPages + k
<1> DEFINE q == p \div SectorPages
           k == p % SectorPages
           t == q - c
<1>1. SectorPages \in Nat \ {0} /\ p \in Nat /\ Base(c) \in Nat /\ Base(c + n) \in Nat
  BY Sizes, Bases
<1>2. q \in Nat /\ k \in 0 .. SectorPages - 1 /\ p = SectorPages * q + k
  BY <1>1, DivMod
<1> HIDE DEF q, k
<1>3. Base(q) = SectorPages * q /\ Base(q) \in Nat
  BY <1>1, <1>2 DEF Base
<1>4. c <= q
  <2>1. q < c => Base(q) + SectorPages <= Base(c)
    BY <1>2, Ordered
  <2> QED
    BY <1>1, <1>2, <1>3, <2>1
<1>5. q < c + n
  <2>1. c + n \in Nat
    OBVIOUS
  <2>2. c + n < q => Base(c + n) + SectorPages <= Base(q)
    BY <1>2, <2>1, Ordered
  <2> QED
    BY <1>1, <1>2, <1>3, <2>1, <2>2
<1>6. t \in 0 .. n - 1 /\ c + t = q
  BY <1>2, <1>4, <1>5
<1>7. p - Base(c) = t * SectorPages + k
  <2>1. t \in Nat /\ Base(c + t) = Base(c) + t * SectorPages /\ t * SectorPages \in Nat
    BY <1>6, Bases
  <2> QED
    BY <1>1, <1>2, <1>3, <1>6, <2>1
<1>8. p = Base(c + t) + k /\ p % SectorPages = k /\ k \in Offsets
  BY <1>2, <1>3, <1>6 DEF Offsets, k
<1> QED
  BY <1>6, <1>7, <1>8

LEMMA OnDevice ==
  ASSUME NEW t \in 0 .. Sectors - 1, NEW k \in Offsets
  PROVE  Base(t) + k \in Pages
<1>1. Sectors \in Nat /\ 0 \in Nat
  BY Sizes
<1>2. Base(0 + t) + k \in Base(0) .. Base(0 + Sectors) - 1
  BY <1>1, Join
<1>3. Base(0) = 0 /\ Base(Sectors) = Sectors * SectorPages /\ 0 + t = t /\ 0 + Sectors = Sectors
  BY <1>1, Sizes DEF Base
<1> QED
  BY <1>2, <1>3 DEF Pages

(* The last sector of the device is the last of a period.                  *)
LEMMA LastOfPeriod == (Sectors - 1) % Period = Period - 1
<1>1. Sectors \in Nat \ {0} /\ Period \in Nat \ {0, 1} /\ Sectors % Period = 0
  BY Sizes
<1>2. \A x \in Nat \ {0}, m \in Nat \ {0} : x % m = 0 => x = m * (x \div m) /\ x \div m \in Nat
  OBVIOUS
<1> DEFINE q == Sectors \div Period
<1>3. Sectors = Period * q /\ q \in Nat
  BY <1>1, <1>2
<1> HIDE DEF q
<1>4. Sectors - 1 = Period * (q - 1) + (Period - 1)
  BY <1>1, <1>3
<1>5. \A m \in Nat \ {0}, j \in Int : \A e \in 0 .. m - 1 : (m * j + e) % m = e
  OBVIOUS
<1>6. q - 1 \in Int /\ Period - 1 \in 0 .. Period - 1 /\ Period \in Nat \ {0}
  BY <1>1, <1>3
<1> QED
  BY <1>4, <1>5, <1>6
----------------------------------------------------------------------------
(* The device.                                                             *)
LEMMA NoOps == NoOp.kind = "none" /\ NoOp.of = NoCall /\ NoOp \notin Ops
  BY DEF NoOp, NoCall, Ops

LEMMA CallRecords ==
  ASSUME NEW c \in FlashCalls
  PROVE  /\ c.no \in 1 .. MaxCalls /\ c.first \in Nat /\ c.num \in Nat /\ c # NoCall
         /\ c.first + c.num <= Sectors
<1>1. PICK n \in 1 .. MaxCalls, r \in Requests :
        c = [no |-> n, first |-> r.first, num |-> r.num] /\ r.op = "flash" /\ r.target = 2
  BY DEF FlashCalls, Call
<1>2. r.first \in Nat /\ r.num \in Nat /\ r.first + r.num <= Sectors
  BY <1>1, RequestAssumption
<1> QED
  BY <1>1, <1>2, CallsAssumption DEF NoCall, NoOp, Call, NoRequest

(* Pages of a call are pages of the device.                                *)
LEMMA CallPages ==
  ASSUME NEW c \in FlashCalls
  PROVE  PagesOf(c) \subseteq Pages
<1>1. c.first \in Nat /\ c.num \in Nat /\ c.first + c.num <= Sectors /\ c.first + c.num \in Nat
  BY CallRecords
<1>2. Base(c.first) \in Nat /\ Base(c.first + c.num) \in Nat /\ Base(Sectors) \in Nat /\ SectorPages \in Nat
  BY <1>1, Sizes, Bases
<1>3. Base(c.first + c.num) <= Base(Sectors)
  <2>1. CASE c.first + c.num = Sectors
    BY <1>2, <2>1
  <2>2. CASE c.first + c.num < Sectors
    BY <1>1, <1>2, <2>2, Ordered, Sizes
  <2> QED
    BY <1>1, <2>1, <2>2, Sizes
<1> QED
  BY <1>2, <1>3 DEF PagesOf, Pages, Base

LEMMA TouchedInside ==
  ASSUME NEW op \in Ops, OpInside(op)
  PROVE  Touched(op) \subseteq PagesOf(op.of) /\ (op.kind = "config" => Touched(op) = {})
<1>1. op.kind \in {"config", "small", "erase", "program"} /\ op.page \in Int
  BY DEF Ops
<1>2. QuarterPages \in Nat /\ SectorPages \in Nat /\ QuarterPages < SectorPages
  BY Sizes
<1>3. CASE op.kind = "erase"
  <2>1. op.page .. op.page - 1 + (IF dev.size = "whole" THEN SectorPages ELSE QuarterPages)
          \subseteq op.page .. op.page + SectorPages - 1
    BY <1>1, <1>2
  <2> QED
    BY <1>3, <2>1 DEF Touched, OpInside
<1>4. CASE op.kind = "small" \/ op.kind = "program" \/ op.kind = "config"
  BY <1>4 DEF Touched, OpInside
<1> QED
  BY <1>1, <1>3, <1>4

LEMMA WrittenValue ==
  ASSUME Typed, NEW op \in Ops, NEW p \in Pages
  PROVE  Written(op, p) \in Values
  BY DEF Typed, Ops, Written, Over, Values

(* What the device's own steps do.                                         *)
LEMMA FinishEffect ==
  ASSUME LoopsQuiet, Typed, Finish
  PROVE  /\ dev.op \in Ops /\ OpInside(dev.op) /\ dev.busy /\ UNCHANGED driverVars
         /\ mem' \in [Pages -> Values]
         /\ \A p \in Pages : mem'[p] = IF p \in Touched(dev.op) THEN Written(dev.op, p) ELSE mem[p]
         /\ dev'.busy = FALSE /\ dev'.op = NoOp /\ dev'.err = dev.err /\ dev'.up = dev.up
         /\ dev'.overlay = dev.overlay /\ dev'.size \in {"quarter", "whole"}
         /\ dev.op.kind # "config" => dev'.size = dev.size
<1>1. dev.op \in Ops /\ OpInside(dev.op) /\ dev.busy /\ UNCHANGED driverVars
  BY DEF Finish, Typed, LoopsQuiet
<1>2. mem' = [p \in Pages |-> IF p \in Touched(dev.op) THEN Written(dev.op, p) ELSE mem[p]]
  BY DEF Finish, SetTo
<1>3. mem' \in [Pages -> Values]
  BY <1>1, <1>2, WrittenValue DEF Typed
<1>4. PICK size \in EraseSizes :
        /\ dev.op.kind # "config" => size = dev.size
        /\ dev' = [dev EXCEPT !.busy = FALSE, !.wel = FALSE, !.size = size, !.op = NoOp]
  BY DEF Finish
<1>5. /\ dev'.busy = FALSE /\ dev'.op = NoOp /\ dev'.err = dev.err /\ dev'.up = dev.up
      /\ dev'.overlay = dev.overlay /\ dev'.size = size
  BY <1>4 DEF LoopsQuiet
<1> QED
  BY <1>1, <1>2, <1>3, <1>4, <1>5, EraseAssumption

LEMMA SpoilEffect ==
  ASSUME Typed, Spoil
  PROVE  /\ mem' \in [Pages -> Values]
         /\ \A p \in Pages : p \notin Touched(dev.op) => mem'[p] = mem[p]
<1>1. PICK v \in {Blank, Mixed} : mem' = [p \in Pages |-> IF p \in Touched(dev.op) THEN v ELSE mem[p]]
  BY DEF Spoil, SetTo
<1> QED
  BY <1>1 DEF Typed, Values

LEMMA FailsEffect ==
  ASSUME LoopsQuiet, Typed, Fails
  PROVE  /\ dev.op \in Ops /\ OpInside(dev.op) /\ dev.op.kind # "config" /\ dev.busy
         /\ UNCHANGED driverVars /\ Spoil
         /\ dev'.busy \in BOOLEAN /\ dev'.op = NoOp /\ dev'.err = TRUE /\ dev'.size = dev.size
         /\ dev'.overlay = dev.overlay
<1>1. dev.op # NoOp
  BY NoOps DEF Fails
<1> QED
  BY <1>1 DEF Fails, Typed, LoopsQuiet

(* A command is taken, unless one is worked on.                            *)
LEMMA IssueEffect ==
  ASSUME LoopsQuiet, NEW at, NEW op, Issue(at, op)
  PROVE  /\ pc = at /\ ~polling /\ polling' = TRUE
         /\ UNCHANGED <<pc, core, calls, req, s, i, ret, buf, mem>>
         /\ dev'.busy \in BOOLEAN /\ dev'.err = dev.err /\ dev'.size = dev.size
         /\ dev'.overlay = dev.overlay /\ dev'.up = dev.up
         /\ (dev'.op = op /\ dev.op = NoOp) \/ dev'.op = dev.op
         /\ at \in Loops => dev'.busy /\ dev'.op = op /\ dev.op = NoOp
<1> DEFINE w == SetWen(dev)
<1>1. /\ w = [busy |-> w.busy, wel |-> w.wel, err |-> w.err, up |-> w.up, size |-> w.size,
              overlay |-> w.overlay, op |-> w.op]
      /\ w.busy = dev.busy /\ w.up = dev.up /\ w.op = dev.op /\ w.err = dev.err
      /\ w.size = dev.size /\ w.overlay = dev.overlay
      /\ dev.up /\ ~dev.busy => w.wel = TRUE
      /\ dev.busy \in BOOLEAN /\ (~dev.busy => dev.op = NoOp)
  BY DEF LoopsQuiet, SetWen
<1>2. /\ pc = at /\ ~polling /\ polling' = TRUE /\ dev' = Take(w, op)
      /\ UNCHANGED <<pc, core, calls, req, s, i, ret, buf, mem>>
  BY DEF Issue
<1>3. at \in Loops => dev.up /\ ~dev.busy /\ dev.op = NoOp
  BY <1>2 DEF LoopsQuiet
<1> HIDE DEF w
<1>4. dev' = IF w.busy \/ ~w.wel THEN w ELSE [w EXCEPT !.busy = TRUE, !.op = op]
  BY <1>2 DEF Take
<1>5. CASE w.busy \/ ~w.wel
  BY <1>1, <1>2, <1>3, <1>4, <1>5
<1>6. CASE ~(w.busy \/ ~w.wel)
  <2>1. dev' = [w EXCEPT !.busy = TRUE, !.op = op]
    BY <1>4, <1>6
  <2>2. /\ dev'.busy = TRUE /\ dev'.op = op /\ dev'.err = w.err /\ dev'.size = w.size
        /\ dev'.overlay = w.overlay /\ dev'.up = w.up
    BY <1>1, <2>1
  <2>3. dev.op = NoOp /\ dev'.busy \in BOOLEAN
    BY <1>1, <1>6, <2>2
  <2> QED
    BY <1>1, <1>2, <1>3, <2>2, <2>3
<1> QED
  BY <1>5, <1>6
----------------------------------------------------------------------------
(* Types, control, and whose operation the device works on.                *)
Frame == Typed /\ Control /\ Own

LEMMA Sectored ==
  ASSUME Typed, Control, pc \in {"small", "erase", "program"}
  PROVE  /\ req \in Requests /\ req.first \in Nat /\ req.num \in Nat /\ req.first + req.num <= Sectors
         /\ s \in 0 .. req.num - 1 /\ Sector = req.first + s /\ Sector \in 0 .. Sectors - 1
         /\ i \in Nat /\ Call(calls, req) \in FlashCalls
         /\ Base(Sector) = Base(req.first) + s * SectorPages /\ s * SectorPages \in Nat
         /\ Base(req.first) \in Nat /\ Base(Sector) \in Nat
<1>1. /\ req \in Requests /\ req.target = 2 /\ req.op = "flash" /\ s < req.num /\ s \in Nat /\ i \in Nat
      /\ calls \in 1 .. MaxCalls
  BY CallsAssumption DEF Typed, Control, Flashing, Loops
<1>2. req.first \in Nat /\ req.num \in Nat /\ req.first + req.num <= Sectors
  BY <1>1, RequestAssumption
<1>3. Call(calls, req) \in FlashCalls
  BY <1>1 DEF FlashCalls
<1>4. s \in 0 .. req.num - 1 /\ Sector = req.first + s /\ Sector \in 0 .. Sectors - 1
  BY <1>1, <1>2, Sizes DEF Sector
<1>5. Base(req.first + s) = Base(req.first) + s * SectorPages /\ s * SectorPages \in Nat /\ Base(req.first) \in Nat
  BY <1>1, <1>2, Bases
<1>6. Base(Sector) = Base(req.first) + s * SectorPages /\ Base(Sector) \in Nat
  BY <1>4, <1>5
<1> QED
  BY <1>1, <1>2, <1>3, <1>4, <1>5, <1>6

(* The pages of the sector in progress belong to the call.                 *)
LEMMA SectorPage ==
  ASSUME Typed, Control, pc \in {"small", "erase", "program"}, NEW k \in Offsets
  PROVE  /\ Pg(s, k) = Base(Sector) + k /\ Pg(s, k) \in Pages
         /\ Pg(s, k) \in PagesOf(Call(calls, req))
         /\ s * SectorPages + k \in Pages
<1>1. /\ req.first \in Nat /\ req.num \in Nat /\ s \in 0 .. req.num - 1 /\ Sector = req.first + s
      /\ Sector \in 0 .. Sectors - 1 /\ req.first + req.num <= Sectors
  BY Sectored
<1>2. Pg(s, k) = Base(Sector) + k /\ Pg(s, k) \in Pages
  BY <1>1, OnDevice DEF Pg
<1>3. Base(req.first + s) + k \in Base(req.first) .. Base(req.first + req.num) - 1
  BY <1>1, Join
<1>4. s * SectorPages + k \in Pages
  <2>1. s \in 0 .. Sectors - 1
    BY <1>1, Sizes
  <2> QED
    BY <2>1, OnDevice DEF Base
<1> QED
  BY <1>1, <1>2, <1>3, <1>4 DEF Pg, PagesOf, Call

LEMMA SmallPage ==
  ASSUME Typed, Control, pc = "small", NEW j \in 0 .. SmallSectors - 1
  PROVE  \E k \in Offsets : SmallBase + j = Pg(s, k)
<1>1. Base(Sector) \in Nat
  BY Sectored
<1>2. /\ SmallSectors \in Nat /\ SectorPages \in Nat /\ SmallSectors < SectorPages
  BY Sizes
<1> DEFINE e == IF Sector % Period = Period - 1 THEN SectorPages - SmallSectors ELSE 0
<1>3. SmallBase = Base(Sector) + e
  BY DEF SmallBase
<1>4. e \in {0, SectorPages - SmallSectors}
  OBVIOUS
<1> HIDE DEF e
<1>5. e + j \in Offsets /\ SmallBase + j = Base(Sector) + (e + j)
  BY <1>1, <1>2, <1>3, <1>4 DEF Offsets
<1> QED
  BY <1>5, SectorPage

(* The operation of each place in the loops is one of its call.            *)
LEMMA OwnInside ==
  ASSUME Typed, Control, pc \in {"config", "small", "erase", "program"}
  PROVE  LET op == IF pc = "config" THEN Op("config", 0, 0) ELSE OwnOp
         IN  /\ op \in Ops /\ OpInside(op)
             /\ op.of = Call(calls, req) /\ op.kind = pc
<1>0. 0 \in Values
  BY DEF Values, Old
<1>1. calls \in Nat /\ calls <= calls
  BY DEF Typed
<1>2. CASE pc = "config"
  <2>1. Call(calls, req) \in FlashCalls
    BY <1>2, CallsAssumption DEF Typed, Control, Flashing, FlashCalls
  <2> QED
    BY <1>0, <1>1, <1>2, <2>1 DEF Op, Ops, OpInside, Call
<1>3. CASE pc = "small"
  <2>1. i \in 0 .. SmallSectors - 1 /\ Call(calls, req) \in FlashCalls
    BY <1>3, Sectored, Sizes DEF Control
  <2>2. PICK k \in Offsets : SmallBase + i = Pg(s, k)
    BY <1>3, <2>1, SmallPage
  <2>3. SmallBase + i \in PagesOf(Call(calls, req)) /\ SmallBase + i \in Int
    <3>1. Pg(s, k) \in PagesOf(Call(calls, req)) /\ Pg(s, k) \in Pages
      BY <1>3, <2>2, SectorPage
    <3>2. Pages \subseteq Int
      BY DEF Pages
    <3> QED
      BY <2>2, <3>1, <3>2
  <2>4. OwnOp = Op("small", SmallBase + i, 0)
    BY <1>3 DEF OwnOp
  <2> HIDE DEF SmallBase
  <2> QED
    BY <1>0, <1>1, <1>3, <2>1, <2>3, <2>4 DEF Op, Ops, OpInside, Call
<1>4. CASE pc = "erase"
  <2>1. Call(calls, req) \in FlashCalls /\ Base(Sector) \in Int /\ SectorPages \in Nat
    BY <1>4, Sectored, Sizes
  <2>2. Base(Sector) .. Base(Sector) + SectorPages - 1 \subseteq PagesOf(Call(calls, req))
    <3> SUFFICES ASSUME NEW p \in Base(Sector) .. Base(Sector) + SectorPages - 1
                 PROVE  p \in PagesOf(Call(calls, req))
      OBVIOUS
    <3>1. p - Base(Sector) \in Offsets /\ Base(Sector) + (p - Base(Sector)) = p
      BY <2>1 DEF Offsets
    <3> QED
      BY <1>4, <3>1, SectorPage
  <2>3. OwnOp = Op("erase", Base(Sector), 0)
    BY <1>4 DEF OwnOp
  <2> QED
    BY <1>0, <1>1, <1>4, <2>1, <2>2, <2>3 DEF Op, Ops, OpInside, Call
<1>5. CASE pc = "program"
  <2>1. i \in Offsets /\ Call(calls, req) \in FlashCalls
    BY <1>5, Sectored, Sizes DEF Control, Offsets
  <2>2. /\ Base(Sector) + i \in PagesOf(Call(calls, req)) /\ Base(Sector) + i \in Int
        /\ Data(calls, s * SectorPages + i) \in Values
    <3>1. Pg(s, i) = Base(Sector) + i /\ Pg(s, i) \in PagesOf(Call(calls, req)) /\ Pg(s, i) \in Pages
          /\ s * SectorPages + i \in Pages
      BY <1>5, <2>1, SectorPage
    <3>2. Pages \subseteq Int
      BY DEF Pages
    <3>3. calls \in 1 .. MaxCalls
      BY <1>5, CallsAssumption DEF Typed, Control
    <3>4. Data(calls, s * SectorPages + i) \in Values
      BY <3>1, <3>3 DEF Values
    <3> QED
      BY <3>1, <3>2, <3>4
  <2>3. OwnOp = Op("program", Base(Sector) + i, Data(calls, s * SectorPages + i))
    BY <1>5 DEF OwnOp
  <2> HIDE DEF Data
  <2> QED
    BY <1>1, <1>5, <2>1, <2>2, <2>3 DEF Op, Ops, OpInside, Call
<1> QED
  BY <1>2, <1>3, <1>4, <1>5

LEMMA IssueFrame ==
  ASSUME LoopsQuiet, Frame, Configure \/ EraseSmall \/ EraseSector \/ Program
  PROVE  Frame'
<1> DEFINE op == IF pc = "config" THEN Op("config", 0, 0) ELSE OwnOp
<1>1. Issue(pc, op) /\ pc \in {"config", "small", "erase", "program"}
  <2>1. pc \in {"config", "small", "erase", "program"}
    BY DEF Configure, EraseSmall, EraseSector, Program, Issue
  <2>2. CASE Configure
    BY <2>2 DEF Configure, Issue
  <2>3. CASE EraseSmall
    BY <2>3 DEF EraseSmall, Issue, OwnOp
  <2>4. CASE EraseSector
    BY <2>4 DEF EraseSector, Issue, OwnOp
  <2>5. CASE Program
    BY <2>5 DEF Program, Issue, OwnOp
  <2> QED
    BY <2>1, <2>2, <2>3, <2>4, <2>5
<1>2. op \in Ops /\ OpInside(op) /\ (pc \in Loops => op = OwnOp)
  BY <1>1, OwnInside DEF Frame, Loops
<1> HIDE DEF op
<1>3. /\ polling' = TRUE /\ UNCHANGED <<pc, core, calls, req, s, i, ret, buf, mem>>
      /\ dev'.busy \in BOOLEAN /\ dev'.err = dev.err /\ dev'.size = dev.size
      /\ dev'.overlay = dev.overlay /\ (dev'.op = op \/ dev'.op = dev.op)
      /\ pc \in Loops => dev'.op = op
  BY <1>1, IssueEffect
<1>4. Typed'
  <2>2. dev'.op = NoOp \/ (dev'.op \in Ops /\ OpInside(dev'.op))
    BY <1>2, <1>3 DEF Frame, Typed
  <2> QED
    BY <1>3, <2>2 DEF Frame, Typed, OpInside
<1>5. Control'
  BY <1>3 DEF Frame, Control, Flashing
<1>6. Own'
  <2>1. OwnOp' = OwnOp
    BY <1>3 DEF OwnOp, Op, SmallBase, Sector
  <2> QED
    BY <1>2, <1>3, <2>1 DEF Own
<1> QED
  BY <1>4, <1>5, <1>6 DEF Frame

LEMMA DeviceFrame ==
  ASSUME LoopsQuiet, Frame, Finish \/ Fails \/ PowerUp
  PROVE  Frame'
<1>1. /\ UNCHANGED driverVars /\ mem' \in [Pages -> Values]
      /\ dev'.busy \in BOOLEAN /\ dev'.err \in BOOLEAN
      /\ dev'.size \in {"quarter", "whole"} /\ dev'.overlay = dev.overlay
      /\ dev'.op = NoOp \/ dev'.op = dev.op
      /\ dev.op # NoOp \/ dev'.err = dev.err
  <2>1. CASE Finish
    BY <2>1, FinishEffect DEF Frame, Typed
  <2>2. CASE Fails
    BY <2>2, FailsEffect, SpoilEffect, NoOps DEF Frame, Typed
  <2>3. CASE PowerUp
    BY <2>3 DEF PowerUp, LoopsQuiet, Frame, Typed
  <2> QED
    BY <2>1, <2>2, <2>3
<1>2. Typed' /\ Control'
  BY <1>1 DEF Frame, Typed, OpInside, Control, Flashing, driverVars
<1>3. Own'
  <2>1. OwnOp' = OwnOp
    BY <1>1 DEF OwnOp, Op, SmallBase, Sector, driverVars
  <2>2. pc \in Loops /\ ~polling => dev.op = NoOp
    BY DEF LoopsQuiet
  <2> QED
    BY <1>1, <2>1, <2>2 DEF Frame, Own, driverVars
<1> QED
  BY <1>2, <1>3 DEF Frame

LEMMA ResetFrame ==
  ASSUME LoopsQuiet, Frame, Reset
  PROVE  Frame' /\ ret' = -1
<1>1. /\ pc' = "idle" /\ polling' = FALSE /\ ret' = -1 /\ s' = 0 /\ i' = 0 /\ UNCHANGED <<calls, req>>
  BY DEF Reset
<1>2. /\ mem' \in [Pages -> Values] /\ dev'.busy \in BOOLEAN /\ dev'.err \in BOOLEAN
      /\ dev'.size = dev.size /\ dev'.overlay = dev.overlay /\ (dev'.op = NoOp \/ dev'.op = dev.op)
  <2>1. CASE UNCHANGED <<dev, mem>>
    BY <2>1 DEF Frame, Typed
  <2>2. CASE Spoil /\ dev' = [dev EXCEPT !.busy = FALSE, !.wel = FALSE, !.err = FALSE, !.up = FALSE, !.op = NoOp]
    BY <2>2, SpoilEffect DEF Frame, Typed, LoopsQuiet
  <2> QED
    BY <2>1, <2>2 DEF Reset
<1>3. Typed'
  <2>1. dev'.op = NoOp \/ (dev'.op \in Ops /\ OpInside(dev'.op))
    BY <1>2 DEF Frame, Typed
  <2>2. OpInside(dev'.op) => OpInside(dev.op)'
    BY <1>1 DEF OpInside
  <2>3. /\ pc' \in Pcs /\ {calls', s', i'} \subseteq Nat /\ calls' <= MaxCalls
        /\ req' \in Requests \union {NoRequest}
    BY <1>1 DEF Frame, Typed, Pcs
  <2>5. ret' \in Int
    BY <1>1
  <2>6. polling' \in BOOLEAN
    BY <1>1
  <2>4. dev'.size \in {"quarter", "whole"} /\ dev'.overlay \in {"none", "bottom", "top"}
    BY <1>2 DEF Frame, Typed
  <2> QED
    BY <1>2, <2>1, <2>2, <2>3, <2>4, <2>5, <2>6 DEF Typed
<1>4. Control' /\ Own'
  BY <1>1 DEF Frame, Control, Flashing, Own, Loops
<1> QED
  BY <1>1, <1>3, <1>4 DEF Frame

(* The driver's own steps.                                                 *)
LEMMA MainFrame ==
  ASSUME Frame, Main \/ OtherTarget \/ InitDriver \/ SpinUntil
  PROVE  Frame' /\ pc' \notin Loops /\ UNCHANGED <<dev, mem>> /\ (pc' = "idle" => ~Returned("flash")')
<1>1. CASE Main
  <2>1. /\ pc = "idle" /\ pc' = "init" /\ calls < MaxCalls /\ calls' = calls + 1 /\ req' \in Requests
        /\ s' = 0 /\ i' = 0 /\ ret' = -1 /\ UNCHANGED <<polling, core, dev, mem>>
    BY <1>1 DEF Main, Goto
  <2>2. calls' \in Nat /\ calls' <= MaxCalls /\ calls <= calls' /\ calls' >= 1
    BY <2>1, CallsAssumption DEF Frame, Typed
  <2>3. Typed'
    <3>1. dev.op = NoOp \/ (dev.op \in Ops /\ OpInside(dev.op)')
      <4>1. dev.op \in Ops => dev.op.of.no \in 1 .. MaxCalls
        BY CallRecords DEF Ops
      <4> QED
        BY <2>1, <2>2, <4>1 DEF Frame, Typed, OpInside
    <3> QED
      BY <2>1, <2>2, <3>1 DEF Frame, Typed, Pcs, OpInside
  <2>4. Control' /\ Own'
    BY <2>1, <2>2 DEF Control, Own, Flashing, Loops
  <2> QED
    BY <2>1, <2>3, <2>4 DEF Frame, Loops
<1>2. CASE OtherTarget
  <2>1. /\ pc = "init" /\ pc' = "idle" /\ req.target # 2 /\ ret' \in Int
        /\ UNCHANGED <<polling, core, calls, req, s, i, dev, mem>>
    BY <1>2 DEF OtherTarget, Return, Codes
  <2> QED
    BY <2>1 DEF Frame, Typed, OpInside, Pcs, Control, Own, Flashing, Loops, Returned
<1>3. CASE InitDriver
  <2>1. /\ pc = "init" /\ req.target = 2 /\ UNCHANGED <<polling, core, calls, req, s, i, dev, mem>>
        /\ \/ pc' = "spin" /\ ret' = ret
           \/ pc' = "idle" /\ ret' = 19
    BY <1>3 DEF InitDriver, Return
  <2> QED
    BY <2>1 DEF Frame, Typed, OpInside, Pcs, Control, Own, Flashing, Loops, Returned
<1>4. CASE SpinUntil
  <2>1. /\ pc = "spin" /\ pc' = IF req.op = "read" THEN "read" ELSE "config"
        /\ UNCHANGED <<polling, core, calls, req, s, i, ret, dev, mem>>
    BY <1>4 DEF SpinUntil, Goto
  <2>2. req \in Requests /\ req.op \in {"read", "flash"}
    BY <2>1, RequestAssumption DEF Frame, Control
  <2> QED
    BY <2>1, <2>2 DEF Frame, Typed, OpInside, Pcs, Control, Own, Flashing, Loops, Returned
<1> QED
  BY <1>1, <1>2, <1>3, <1>4

LEMMA NextSectorFrame ==
  ASSUME Frame, NextSector
  PROVE  Frame'
<1>1. /\ pc = "sector" /\ s < req.num /\ i' = 0 /\ UNCHANGED <<polling, core, calls, req, s, ret, buf, dev, mem>>
      /\ pc' \in {"small", "erase"}
  BY DEF NextSector
<1>2. Typed'
  BY <1>1 DEF Frame, Typed, OpInside, Pcs, Loops
<1>3. Control'
  BY <1>1, Sizes DEF Frame, Control, Flashing, Loops
<1>4. Own'
  <2>1. dev.op = NoOp
    BY <1>1 DEF Frame, Own, OwnOp, Loops
  <2> QED
    BY <1>1, <2>1 DEF Frame, Own, Loops
<1> QED
  BY <1>2, <1>3, <1>4 DEF Frame

LEMMA ReadFrame ==
  ASSUME Frame, ReadChunk
  PROVE  Frame' /\ pc' = "read" /\ UNCHANGED <<dev, mem>>
<1>1. /\ pc = "read" /\ pc' = "read" /\ i' = i + ChunkPages
      /\ UNCHANGED <<polling, core, calls, req, s, ret, dev, mem>>
  BY DEF ReadChunk, Goto
<1>2. i' \in Nat
  BY <1>1, Sizes DEF Frame, Typed
<1> QED
  BY <1>1, <1>2 DEF Frame, Typed, OpInside, Pcs, Control, Own, Flashing, Loops

LEMMA FinishedFrame ==
  ASSUME Frame, Finished
  PROVE  Frame'
<1>1. /\ pc' = "idle" /\ ret' = 0 /\ UNCHANGED <<polling, core, calls, req, s, i, buf, dev, mem>>
  BY DEF Finished, Return
<1> QED
  BY <1>1 DEF Frame, Typed, OpInside, Pcs, Control, Own, Flashing, Loops

(* Where a poll leads.                                                     *)
LEMMA PollEffect ==
  ASSUME LoopsQuiet, Frame, Poll
  PROVE  /\ polling /\ ~dev.busy /\ dev.op = NoOp /\ polling' = FALSE
         /\ UNCHANGED <<core, calls, req, buf, dev, mem>>
         /\ \/ dev.err /\ pc' = "idle" /\ ret' = 96 /\ s' = s /\ i' = i
            \/ ~dev.err /\ ret' = ret /\ pc = "config" /\ pc' = "sector" /\ s' = s /\ i' = 0
            \/ ~dev.err /\ ret' = ret /\ s' = s /\ pc = "small"
                 /\ \/ i + 1 < SmallSectors /\ pc' = "small" /\ i' = i + 1
                    \/ ~(i + 1 < SmallSectors) /\ pc' = "erase" /\ i' = 0
            \/ ~dev.err /\ ret' = ret /\ s' = s /\ pc = "erase" /\ pc' = "program" /\ i' = 0
            \/ ~dev.err /\ ret' = ret /\ pc = "program"
                 /\ \/ i + 1 < SectorPages /\ pc' = "program" /\ i' = i + 1 /\ s' = s
                    \/ ~(i + 1 < SectorPages) /\ pc' = "sector" /\ i' = 0 /\ s' = s + 1
<1>1. polling /\ ~dev.busy /\ polling' = FALSE /\ UNCHANGED <<core, calls, req, buf, dev, mem>>
  BY DEF Poll, Return
<1>2. dev.op = NoOp /\ pc \in {"config", "small", "erase", "program"}
  BY <1>1 DEF LoopsQuiet
<1>3. CASE dev.err
  BY <1>1, <1>2, <1>3 DEF Poll, Return
<1>4. CASE ~dev.err
  <2>1. ret' = ret /\ pc' = After.pc /\ s' = After.s /\ i' = After.i
    BY <1>4 DEF Poll
  <2>2. CASE pc = "config"
    BY <1>1, <1>2, <1>4, <2>1, <2>2 DEF After, At
  <2>3. CASE pc = "small"
    BY <1>1, <1>2, <1>4, <2>1, <2>3 DEF After, At
  <2>4. CASE pc = "erase"
    BY <1>1, <1>2, <1>4, <2>1, <2>4 DEF After, At
  <2>5. CASE pc = "program"
    BY <1>1, <1>2, <1>4, <2>1, <2>5 DEF After, At
  <2> QED
    BY <1>2, <2>2, <2>3, <2>4, <2>5
<1> QED
  BY <1>3, <1>4

LEMMA PollFrame ==
  ASSUME LoopsQuiet, Frame, Poll
  PROVE  Frame'
<1>1. polling' = FALSE /\ dev.op = NoOp /\ UNCHANGED <<core, calls, req, buf, dev, mem>>
  BY PollEffect
<1>2. pc \in {"config", "small", "erase", "program"} /\ req \in Requests /\ req.num \in Nat
  <2>1. pc \in {"config", "small", "erase", "program"}
    BY PollEffect DEF LoopsQuiet
  <2> QED
    BY <2>1, RequestAssumption DEF Frame, Control
<1> DEFINE Stop   == dev.err /\ pc' = "idle" /\ ret' = 96 /\ s' = s /\ i' = i
           Config == pc = "config" /\ pc' = "sector" /\ ret' = ret /\ s' = s /\ i' = 0
           Small  == pc = "small" /\ pc' = "small" /\ ret' = ret /\ s' = s /\ i' = i + 1 /\ i + 1 < SmallSectors
           Smalls == pc = "small" /\ pc' = "erase" /\ ret' = ret /\ s' = s /\ i' = 0
           Erase  == pc = "erase" /\ pc' = "program" /\ ret' = ret /\ s' = s /\ i' = 0
           Page   == pc = "program" /\ pc' = "program" /\ ret' = ret /\ s' = s /\ i' = i + 1 /\ i + 1 < SectorPages
           Pages1 == pc = "program" /\ pc' = "sector" /\ ret' = ret /\ s' = s + 1 /\ i' = 0
<1>s. Stop \/ Config \/ Small \/ Smalls \/ Erase \/ Page \/ Pages1
  BY PollEffect
<1>t. /\ s \in Nat /\ i \in Nat /\ ret \in Int /\ SectorPages \in Nat \ {0}
      /\ pc \in {"small", "erase", "program"} => s < req.num
      /\ pc = "config" => s = 0
  BY Sizes DEF Frame, Typed, Control
<1>3. pc' \in Pcs /\ s' \in Nat /\ i' \in Nat /\ ret' \in Int
  <2>1. pc' \in Pcs
    BY <1>s DEF Pcs, Loops
  <2>2. ret' \in Int
    BY <1>s, <1>t
  <2>3. s' \in Nat /\ i' \in Nat
    BY <1>s, <1>t
  <2> QED
    BY <2>1, <2>2, <2>3
<1>4. Typed'
  BY <1>1, <1>3 DEF Frame, Typed, OpInside
<1>5. Control'
  <2>1. /\ pc' # "idle" => req \in Requests /\ calls >= 1 /\ req.target = 2 /\ req.op = "flash"
        /\ pc' \notin {"init", "spin", "config", "read"}
    BY <1>2, PollEffect DEF Frame, Control, Flashing, Loops
  <2>2. /\ pc' = "sector" => s' <= req.num
        /\ pc' \in {"small", "erase", "program"} => s' < req.num
        /\ pc' = "small" => i' < SmallSectors
        /\ pc' = "erase" => i' = 0
        /\ pc' = "program" => i' < SectorPages
    BY <1>s, <1>t, <1>2
  <2> QED
    BY <1>1, <2>1, <2>2 DEF Control, Flashing, Loops
<1>6. Own'
  BY <1>1, PollEffect DEF Own, Loops
<1> QED
  BY <1>4, <1>5, <1>6 DEF Frame
----------------------------------------------------------------------------
(* What the sectors of the request hold.                                   *)
Content == Before /\ SmallErased /\ Erased /\ Programmed /\ Whole

(* Small sectors are at the ends of the device.                            *)
LEMMA OverlayEnds ==
  ASSUME Typed, NEW t \in 0 .. Sectors - 1, NEW k \in Offsets, Base(t) + k \in Overlay
  PROVE  \/ t = 0 /\ k < SmallSectors
         \/ t = Sectors - 1 /\ k >= SectorPages - SmallSectors
<1>1. /\ Sectors \in Nat \ {0} /\ SectorPages \in Nat \ {0} /\ SmallSectors \in Nat \ {0}
      /\ SmallSectors < SectorPages /\ t \in Nat /\ k \in 0 .. SectorPages - 1
  BY Sizes DEF Offsets
<1>2. /\ Base(t) \in Nat /\ Base(0) = 0
      /\ Base(Sectors) \in Nat /\ Base(Sectors) = Base(Sectors - 1) + SectorPages /\ Base(Sectors - 1) \in Nat
  <2>1. Sectors - 1 \in Nat /\ (Sectors - 1) + 1 = Sectors
    BY <1>1
  <2>2. Base((Sectors - 1) + 1) = Base(Sectors - 1) + SectorPages /\ Base(Sectors - 1) \in Nat
    BY <2>1, Bases
  <2>3. Base(t) \in Nat /\ Base(Sectors) \in Nat
    BY <1>1, Bases
  <2>4. Base(0) = 0
    BY <1>1 DEF Base
  <2> QED
    BY <2>1, <2>2, <2>3, <2>4
<1>3. dev.overlay = "bottom" \/ dev.overlay = "top"
  BY DEF Overlay, Typed
<1>4. CASE dev.overlay = "bottom"
  <2>1. Base(t) + k \in 0 .. SmallSectors - 1
    BY <1>4 DEF Overlay
  <2>2. 0 < t => Base(0) + SectorPages <= Base(t)
    BY <1>1, Ordered
  <2>3. t = 0
    BY <1>1, <1>2, <2>1, <2>2
  <2> QED
    BY <1>1, <1>2, <2>1, <2>3
<1>5. CASE dev.overlay = "top"
  <2>1. Base(t) + k \in Base(Sectors) - SmallSectors .. Base(Sectors) - 1
    BY <1>5 DEF Overlay
  <2>2. t < Sectors - 1 => Base(t) + SectorPages <= Base(Sectors - 1)
    BY <1>1, Ordered
  <2>3. t = Sectors - 1
    BY <1>1, <1>2, <2>1, <2>2
  <2> QED
    BY <1>1, <1>2, <2>1, <2>3
<1> QED
  BY <1>3, <1>4, <1>5

(* The driver's test for a sector with small sectors finds them, and the   *)
(* place where it erases them is theirs.                                   *)
LEMMA OverlayFound ==
  ASSUME Typed, Sector \in 0 .. Sectors - 1, NEW k \in Offsets, Base(Sector) + k \in Overlay
  PROVE  /\ Sector % Period \in {0, Period - 1}
         /\ \E j \in 0 .. SmallSectors - 1 : Base(Sector) + k = SmallBase + j
<1>1. /\ SectorPages \in Nat \ {0} /\ SmallSectors \in Nat \ {0} /\ Period \in Nat \ {0, 1}
      /\ SmallSectors < SectorPages /\ k \in 0 .. SectorPages - 1 /\ Base(Sector) \in Nat
  BY Sizes, Bases DEF Offsets
<1>2. CASE Sector = 0 /\ k < SmallSectors
  <2>1. Sector % Period = 0 /\ 0 # Period - 1
    BY <1>1, <1>2
  <2>2. SmallBase = Base(Sector)
    BY <1>1, <2>1 DEF SmallBase
  <2>3. k \in 0 .. SmallSectors - 1
    BY <1>1, <1>2
  <2> QED
    BY <2>1, <2>2, <2>3
<1>3. CASE Sector = Sectors - 1 /\ k >= SectorPages - SmallSectors
  <2>1. Sector % Period = Period - 1
    BY <1>3, LastOfPeriod
  <2>2. SmallBase = Base(Sector) + (SectorPages - SmallSectors)
    BY <2>1 DEF SmallBase
  <2> DEFINE j == k - (SectorPages - SmallSectors)
  <2>3. j \in 0 .. SmallSectors - 1 /\ Base(Sector) + k = Base(Sector) + (SectorPages - SmallSectors) + j
    BY <1>1, <1>3
  <2> QED
    BY <2>1, <2>2, <2>3
<1> QED
  BY <1>2, <1>3, OverlayEnds

LEMMA ContentVacuous ==
  ASSUME pc' \notin Loops, ~Returned("flash")'
  PROVE  Content'
  BY DEF Content, Before, SmallErased, Erased, Programmed, Whole, Loops

(* Content depends on these parts of the state only.                       *)
LEMMA ContentSame ==
  ASSUME Content, UNCHANGED <<pc, s, i, mem, req, calls, ret>>, UNCHANGED Done,
         dev'.err = dev.err, dev'.size = dev.size, dev'.overlay = dev.overlay,
         dev'.op = dev.op \/ pc # "idle"
  PROVE  Content'
<1>1. UNCHANGED <<Overlay, Progress, SmallBase>>
  BY DEF Overlay, Progress, SmallBase, Sector
<1>2. \A t, k : /\ Good(t, k)' <=> Good(t, k)
                /\ Clean(k)' <=> Clean(k)
                /\ Pg(t, k)' = Pg(t, k)
  BY DEF Good, Clean, Pg
<1>3. Returned("flash")' <=> Returned("flash")
  BY DEF Returned
<1>4. Before'
  BY <1>2 DEF Content, Before
<1>5. SmallErased'
  BY <1>1 DEF Content, SmallErased
<1>6. Erased'
  BY <1>1, <1>2 DEF Content, Erased
<1>7. Programmed'
  BY <1>1, <1>2 DEF Content, Programmed
<1>8. Whole'
  BY <1>2, <1>3 DEF Content, Whole, Returned
<1> QED
  BY <1>4, <1>5, <1>6, <1>7, <1>8 DEF Content

LEMMA ContentIssue ==
  ASSUME LoopsQuiet, Frame, Content, Configure \/ EraseSmall \/ EraseSector \/ Program
  PROVE  Content'
<1>1. PICK op : Issue(pc, op) /\ pc \in {"config", "small", "erase", "program"}
  BY DEF Configure, EraseSmall, EraseSector, Program, Issue
<1>2. /\ ~polling /\ polling' = TRUE /\ UNCHANGED <<pc, core, calls, req, s, i, ret, buf, mem>>
      /\ dev'.busy \in BOOLEAN /\ dev'.err = dev.err /\ dev'.size = dev.size /\ dev'.overlay = dev.overlay
      /\ pc \in Loops => dev'.busy
  BY <1>1, IssueEffect
<1>3. CASE pc = "config"
  BY <1>2, <1>3, ContentVacuous DEF Returned, Loops
<1>4. CASE pc \in Loops
  <2>1. UNCHANGED Done
    BY <1>2, <1>4 DEF Done
  <2> QED
    BY <1>1, <1>2, <2>1, ContentSame DEF Loops
<1> QED
  BY <1>1, <1>3, <1>4 DEF Loops

LEMMA ContentPowerUp ==
  ASSUME LoopsQuiet, Content, PowerUp
  PROVE  Content'
<1>1. /\ UNCHANGED <<pc, polling, core, calls, req, s, i, ret, buf, mem>>
      /\ dev'.busy = dev.busy /\ dev'.err = dev.err /\ dev'.size = dev.size /\ dev'.overlay = dev.overlay
      /\ dev'.op = dev.op
  BY DEF PowerUp, LoopsQuiet, driverVars
<1>2. UNCHANGED Done
  BY <1>1 DEF Done
<1> QED
  BY <1>1, <1>2, ContentSame

LEMMA ContentFails ==
  ASSUME LoopsQuiet, Frame, Content, Fails
  PROVE  Content'
<1>1. dev.op \in Ops /\ UNCHANGED driverVars /\ dev'.err = TRUE
  BY FailsEffect DEF Frame
<1>2. ~Returned("flash")'
  BY <1>1, NoOps DEF Content, Whole, Returned, driverVars
<1> QED
  BY <1>1, <1>2 DEF Content, Before, SmallErased, Erased, Programmed, Whole

(* What an operation of the sector in progress may change.                 *)
LEMMA OwnTouched ==
  ASSUME Typed, Control, pc \in {"small", "erase", "program"}, NEW p \in Touched(OwnOp)
  PROVE  \E k \in Offsets : p = Pg(s, k)
<1>1. CASE pc = "small"
  <2>1. p = SmallBase + i
    BY <1>1 DEF OwnOp, Touched, Op
  <2>2. i \in 0 .. SmallSectors - 1
    BY <1>1, Sizes DEF Control, Typed
  <2> QED
    BY <1>1, <2>1, <2>2, SmallPage
<1>2. CASE pc = "erase"
  <2>1. p \in Base(Sector) .. Base(Sector) - 1 + (IF dev.size = "whole" THEN SectorPages ELSE QuarterPages)
    BY <1>2 DEF OwnOp, Touched, Op
  <2>2. Base(Sector) \in Nat /\ QuarterPages < SectorPages /\ QuarterPages \in Nat /\ SectorPages \in Nat
    BY <1>2, Sectored, Sizes
  <2>3. p - Base(Sector) \in Offsets /\ Base(Sector) + (p - Base(Sector)) = p
    BY <2>1, <2>2 DEF Offsets
  <2> QED
    BY <1>2, <2>3, SectorPage
<1>3. CASE pc = "program"
  <2>1. p = Base(Sector) + i
    BY <1>3 DEF OwnOp, Touched, Op
  <2>2. i \in Offsets
    BY <1>3, Sizes DEF Control, Typed, Offsets
  <2> QED
    BY <1>3, <2>1, <2>2, SectorPage
<1> QED
  BY <1>1, <1>2, <1>3

LEMMA PgApart ==
  ASSUME Typed, Control, pc \in {"small", "erase", "program"},
         NEW t \in Nat, NEW k \in Offsets, NEW l \in Offsets, Pg(t, k) = Pg(s, l)
  PROVE  t = s /\ k = l
<1>1. req.first \in Nat /\ s \in Nat
  BY Sectored
<1>2. req.first + t \in Nat /\ req.first + s \in Nat
  BY <1>1
<1>3. req.first + t = req.first + s /\ k = l
  BY <1>2, Apart DEF Pg
<1> QED
  BY <1>1, <1>3

(* The end of an operation of the loops.                                   *)
LEMMA OwnFinish ==
  ASSUME LoopsQuiet, Frame, Content, Finish, pc \in Loops
  PROVE  /\ pc \in {"small", "erase", "program"} /\ dev.op = OwnOp /\ UNCHANGED driverVars
         /\ ~Done /\ Progress = i /\ Done' /\ Progress' = i + 1
         /\ dev'.err = dev.err /\ dev'.size = dev.size /\ dev'.overlay = dev.overlay
         /\ UNCHANGED <<Overlay, SmallBase>>
         /\ \A p \in Pages : mem'[p] = IF p \in Touched(OwnOp) THEN Written(OwnOp, p) ELSE mem[p]
<1>1. /\ dev.op \in Ops /\ dev.busy /\ UNCHANGED driverVars /\ dev'.busy = FALSE
      /\ dev'.err = dev.err /\ dev'.overlay = dev.overlay
      /\ dev.op.kind # "config" => dev'.size = dev.size
      /\ \A p \in Pages : mem'[p] = IF p \in Touched(dev.op) THEN Written(dev.op, p) ELSE mem[p]
  BY FinishEffect DEF Frame
<1>2. dev.op = OwnOp /\ OwnOp # NoOp /\ polling
  BY <1>1, NoOps DEF Frame, Own, LoopsQuiet
<1>3. pc \in {"small", "erase", "program"}
  BY <1>2 DEF OwnOp, Loops
<1>4. dev.op.kind = pc
  BY <1>2, <1>3, OwnInside DEF Frame
<1>5. dev'.size = dev.size
  BY <1>1, <1>3, <1>4
<1>6. ~Done /\ Progress = i /\ Done' /\ Progress' = i + 1
  BY <1>1, <1>2 DEF Done, Progress, driverVars
<1>7. UNCHANGED <<Overlay, SmallBase>>
  BY <1>1 DEF Overlay, SmallBase, Sector, driverVars
<1> HIDE DEF OwnOp
<1> QED
  BY <1>1, <1>2, <1>3, <1>5, <1>6, <1>7

LEMMA ContentFinish ==
  ASSUME LoopsQuiet, Frame, Content, Finish
  PROVE  Content'
<1>1. CASE pc \notin Loops
  <2>1. dev.op \in Ops /\ UNCHANGED driverVars
    BY FinishEffect DEF Frame
  <2>2. ~Returned("flash")'
    BY <2>1, NoOps DEF Content, Whole, Returned, driverVars
  <2> QED
    BY <1>1, <2>1, <2>2, ContentVacuous DEF driverVars
<1>2. CASE pc \in Loops
  <2>1. /\ pc \in {"small", "erase", "program"} /\ UNCHANGED driverVars
        /\ ~Done /\ Progress = i /\ Done' /\ Progress' = i + 1
        /\ dev'.err = dev.err /\ dev'.size = dev.size
        /\ UNCHANGED <<Overlay, SmallBase>>
        /\ \A p \in Pages : mem'[p] = IF p \in Touched(OwnOp) THEN Written(OwnOp, p) ELSE mem[p]
    BY <1>2, OwnFinish
  <2>2. /\ UNCHANGED <<pc, calls, req, s, i>> /\ s \in Nat /\ i \in Nat
        /\ pc' # "idle" /\ Typed /\ Control /\ \A k : Pg(s, k)' = Pg(s, k)
    BY <2>1 DEF driverVars, Frame, Typed, Pg
  <2>3. \A t, k : Pg(t, k)' = Pg(t, k) /\ (Clean(k)' <=> Clean(k))
    BY <2>1, <2>2 DEF Pg, Clean
  <2>4. ASSUME NEW t \in Nat, NEW k \in Offsets, t # s, Good(t, k), Pg(t, k) \in Pages
        PROVE  Good(t, k)'
    <3>1. Pg(t, k) \notin Touched(OwnOp)
      BY <2>1, <2>2, <2>4, OwnTouched, PgApart
    <3>2. mem'[Pg(t, k)] = mem[Pg(t, k)]
      BY <2>1, <2>4, <3>1
    <3> QED
      BY <2>2, <2>3, <2>4, <3>2 DEF Good
  <2>5. Before'
    <3> SUFFICES ASSUME ~dev.err, NEW t \in 0 .. s - 1, NEW k \in Offsets PROVE Good(t, k)'
      BY <2>1, <2>2 DEF Before
    <3>1. Good(t, k) /\ t \in Nat /\ t # s
      BY <1>2, <2>2 DEF Content, Before
    <3>2. Pg(t, k) \in Pages
      <4>1. /\ req.first \in Nat /\ req.num \in Nat /\ s \in 0 .. req.num - 1 /\ req.first + req.num <= Sectors
        BY <2>1, <2>2, Sectored
      <4>2. req.first + t \in 0 .. Sectors - 1
        BY <2>2, <4>1, Sizes
      <4> QED
        BY <4>2, OnDevice DEF Pg
    <3> QED
      BY <2>4, <3>1, <3>2
  <2>6. SmallErased'
    <3> SUFFICES ASSUME pc = "small", ~dev.err, NEW j \in 0 .. i, SmallBase + j \in Overlay
                 PROVE  mem'[SmallBase + j] = Blank
      BY <2>1, <2>2 DEF SmallErased
    <3>1. j \in 0 .. SmallSectors - 1 /\ i < SmallSectors
      BY <2>2, Sizes DEF Control
    <3>2. SmallBase + j \in Pages
      <4>1. PICK k \in Offsets : SmallBase + j = Pg(s, k)
        BY <2>2, <3>1, SmallPage
      <4> QED
        BY <2>1, <2>2, <4>1, SectorPage
    <3>3. \A p : Written(OwnOp, p) = Blank
      BY DEF Written, OwnOp, Op
    <3>4. CASE j = i
      <4>1. SmallBase + i \in Touched(OwnOp)
        BY <3>4 DEF Touched, OwnOp, Op
      <4> QED
        BY <2>1, <3>2, <3>3, <3>4, <4>1
    <3>5. CASE j \in 0 .. i - 1
      <4>1. mem[SmallBase + j] = Blank
        BY <2>1, <3>5 DEF Content, SmallErased
      <4> QED
        BY <2>1, <3>2, <3>3, <4>1
    <3> QED
      BY <2>2, <3>4, <3>5
  <2>7. Erased'
    <3> SUFFICES ASSUME pc = "erase", ~dev.err, NEW k \in Offsets, Pg(s, k) \in Overlay \/ Clean(k)
                 PROVE  mem'[Pg(s, k)] = Blank
      BY <2>1, <2>2, <2>3 DEF Erased
    <3>1. Pg(s, k) \in Pages /\ Pg(s, k) = Base(Sector) + k /\ Base(Sector) \in Nat
      BY <2>2, SectorPage, Sectored
    <3>2. \A p : Written(OwnOp, p) = Blank
      BY DEF Written, OwnOp, Op
    <3>3. CASE Pg(s, k) \in Overlay
      <4>1. mem[Pg(s, k)] = Blank
        BY <3>3 DEF Content, Erased
      <4> QED
        BY <2>1, <3>1, <3>2, <4>1
    <3>4. CASE Pg(s, k) \notin Overlay
      <4> DEFINE n == IF dev.size = "whole" THEN SectorPages ELSE QuarterPages
      <4>1. Touched(OwnOp) = (Base(Sector) .. Base(Sector) - 1 + n) \ Overlay
        BY DEF Touched, OwnOp, Op
      <4>2. n \in Nat /\ k < n /\ k \in Nat
        BY <3>4, Sizes DEF Clean, Offsets
      <4> HIDE DEF n
      <4>3. Base(Sector) + k \in Base(Sector) .. Base(Sector) - 1 + n
        BY <3>1, <4>2
      <4> QED
        BY <2>1, <3>1, <3>2, <3>4, <4>1, <4>3
    <3> QED
      BY <3>3, <3>4
  <2>8. Programmed'
    <3> SUFFICES ASSUME pc = "program", ~dev.err, NEW k \in Offsets
                 PROVE  IF k < i + 1 THEN Good(s, k)' ELSE Clean(k) => mem'[Pg(s, k)] = Blank
      BY <2>1, <2>2, <2>3 DEF Programmed
    <3>1. i \in Offsets /\ k \in Nat
      BY <2>2, Sizes DEF Control, Offsets
    <3>2. Pg(s, k) \in Pages /\ Pg(s, i) \in Pages /\ Pg(s, i) = Base(Sector) + i
      BY <2>2, <3>1, SectorPage
    <3>3. IF k < i THEN Good(s, k) ELSE Clean(k) => mem[Pg(s, k)] = Blank
      BY <2>1 DEF Content, Programmed
    <3>4. Touched(OwnOp) = {Pg(s, i)}
      BY <3>2 DEF Touched, OwnOp, Op
    <3>5. CASE k = i
      <4>1. mem'[Pg(s, i)] = Over(mem[Pg(s, i)], Data(calls, s * SectorPages + i))
        <5>1. mem'[Pg(s, i)] = Written(OwnOp, Pg(s, i))
          BY <2>1, <3>2, <3>4
        <5> QED
          BY <5>1 DEF Written, OwnOp, Op
      <4>2. Clean(k) => mem[Pg(s, i)] = Blank
        BY <3>1, <3>3, <3>5
      <4>3. \/ mem'[Pg(s, i)] = Data(calls, s * SectorPages + i)
            \/ ~Clean(k) /\ mem'[Pg(s, i)] = Mixed
        BY <4>1, <4>2 DEF Over
      <4>4. Good(s, k)'
        BY <2>2, <2>3, <3>5, <4>3 DEF Good
      <4> QED
        BY <3>1, <3>5, <4>4
    <3>6. CASE k # i
      <4>1. Pg(s, k) \notin Touched(OwnOp)
        BY <2>1, <2>2, <3>1, <3>4, <3>6, PgApart
      <4>2. mem'[Pg(s, k)] = mem[Pg(s, k)]
        BY <2>1, <3>2, <4>1
      <4>3. Good(s, k) => Good(s, k)'
        BY <2>2, <2>3, <4>2 DEF Good
      <4>4. k < i + 1 <=> k < i
        BY <3>1, <3>6, <2>2
      <4> QED
        BY <3>3, <4>2, <4>3, <4>4
    <3> QED
      BY <3>5, <3>6
  <2>9. Whole'
    BY <2>2 DEF Whole, Returned
  <2> QED
    BY <2>5, <2>6, <2>7, <2>8, <2>9 DEF Content
<1> QED
  BY <1>1, <1>2

LEMMA ContentNext ==
  ASSUME LoopsQuiet, Frame, Content, NextSector
  PROVE  Content'
<1>1. /\ pc = "sector" /\ s < req.num /\ i' = 0 /\ UNCHANGED <<polling, core, calls, req, s, ret, buf, dev, mem>>
      /\ pc' = IF Sector % Period \in {0, Period - 1} THEN "small" ELSE "erase"
  BY DEF NextSector
<1>2. ~polling
  BY <1>1 DEF LoopsQuiet
<1>3. ~Done' /\ Progress' = 0 /\ Overlay' = Overlay
  BY <1>1, <1>2 DEF Done, Progress, Overlay
<1>4. \A t, k : /\ Pg(t, k)' = Pg(t, k)
                /\ Good(t, k)' <=> Good(t, k)
  BY <1>1 DEF Good, Clean, Pg
<1>5. Before'
  BY <1>1, <1>4 DEF Content, Before, Loops
<1>6. SmallErased'
  BY <1>3 DEF SmallErased
<1>7. Erased'
  <2> SUFFICES ASSUME pc' = "erase", NEW k \in Offsets, Pg(s, k) \in Overlay PROVE FALSE
    BY <1>1, <1>3, <1>4 DEF Erased
  <2>1. req.first \in Nat /\ req.num \in Nat /\ req.first + req.num <= Sectors /\ s \in Nat
    BY <1>1, RequestAssumption DEF Frame, Typed, Control, Flashing, Loops
  <2>2. Sector \in 0 .. Sectors - 1
    BY <1>1, <2>1, Sizes DEF Sector
  <2>3. Base(Sector) + k \in Overlay
    BY DEF Pg, Sector
  <2>4. Sector % Period \in {0, Period - 1}
    BY <2>2, <2>3, OverlayFound DEF Frame
  <2> QED
    BY <1>1, <2>4
<1>8. Programmed' /\ Whole'
  BY <1>1 DEF Programmed, Whole, Returned
<1> QED
  BY <1>5, <1>6, <1>7, <1>8 DEF Content

LEMMA ContentPoll ==
  ASSUME LoopsQuiet, Frame, Content, Poll
  PROVE  Content'
<1>1. /\ polling /\ ~dev.busy /\ polling' = FALSE /\ UNCHANGED <<core, calls, req, buf, dev, mem>>
  BY PollEffect
<1>2. Done /\ Progress = i + 1 /\ ~Done' /\ Progress' = i' /\ Overlay' = Overlay
  BY <1>1 DEF Done, Progress, Overlay
<1>3. /\ \A t, k : /\ Pg(t, k)' = Pg(t, k)
                   /\ Good(t, k)' <=> Good(t, k)
      /\ \A k : Clean(k)' <=> Clean(k)
  BY <1>1 DEF Good, Clean, Pg
<1>4. s \in Nat /\ i \in Nat /\ Typed /\ Control
  BY DEF Frame, Typed
<1>5. CASE dev.err
  BY <1>5, PollEffect, ContentVacuous DEF Returned, Loops
<1>6. CASE ~dev.err /\ pc = "config"
  <2>1. pc' = "sector" /\ s' = 0
    BY <1>6, PollEffect DEF Frame, Control
  <2> QED
    BY <2>1 DEF Content, Before, SmallErased, Erased, Programmed, Whole, Returned
<1>7. CASE ~dev.err /\ pc = "small" /\ i + 1 < SmallSectors
  <2>1. pc' = "small" /\ i' = i + 1 /\ s' = s
    BY <1>7, PollEffect
  <2>2. SmallBase' = SmallBase
    BY <1>1, <2>1 DEF SmallBase, Sector
  <2>3. Before'
    BY <1>1, <1>3, <1>7, <2>1 DEF Content, Before, Loops
  <2>4. SmallErased'
    BY <1>1, <1>2, <1>7, <2>1, <2>2 DEF Content, SmallErased
  <2> QED
    BY <2>1, <2>3, <2>4 DEF Content, Erased, Programmed, Whole, Returned
<1>8. CASE ~dev.err /\ pc = "small" /\ ~(i + 1 < SmallSectors)
  <2>1. pc' = "erase" /\ s' = s
    BY <1>8, PollEffect
  <2>2. Before'
    BY <1>1, <1>3, <1>8, <2>1 DEF Content, Before, Loops
  <2>3. Erased'
    <3> SUFFICES ASSUME NEW k \in Offsets, Pg(s, k) \in Overlay PROVE mem[Pg(s, k)] = Blank
      BY <1>1, <1>2, <1>3, <2>1 DEF Erased
    <3>1. Pg(s, k) = Base(Sector) + k /\ Sector \in 0 .. Sectors - 1
      BY <1>4, <1>8, SectorPage, Sectored
    <3>2. PICK j \in 0 .. SmallSectors - 1 : Pg(s, k) = SmallBase + j
      BY <1>4, <3>1, OverlayFound
    <3>3. j \in 0 .. Progress - 1
      BY <1>2, <1>4, <1>8, Sizes
    <3> QED
      BY <1>8, <3>2, <3>3 DEF Content, SmallErased
  <2> QED
    BY <2>1, <2>2, <2>3 DEF Content, SmallErased, Programmed, Whole, Returned
<1>9. CASE ~dev.err /\ pc = "erase"
  <2>1. pc' = "program" /\ s' = s /\ i' = 0
    BY <1>9, PollEffect
  <2>2. Before'
    BY <1>1, <1>3, <1>9, <2>1 DEF Content, Before, Loops
  <2>3. Programmed'
    <3> SUFFICES ASSUME NEW k \in Offsets, Clean(k) PROVE mem[Pg(s, k)] = Blank
      BY <1>1, <1>2, <1>3, <2>1, Sizes DEF Programmed, Offsets
    <3> QED
      BY <1>2, <1>9 DEF Content, Erased
  <2> QED
    BY <2>1, <2>2, <2>3 DEF Content, SmallErased, Erased, Whole, Returned
<1>10. CASE ~dev.err /\ pc = "program" /\ i + 1 < SectorPages
  <2>1. pc' = "program" /\ s' = s /\ i' = i + 1
    BY <1>10, PollEffect
  <2>2. Before'
    BY <1>1, <1>3, <1>10, <2>1 DEF Content, Before, Loops
  <2>3. Programmed'
    BY <1>1, <1>2, <1>3, <1>10, <2>1 DEF Content, Programmed
  <2> QED
    BY <2>1, <2>2, <2>3 DEF Content, SmallErased, Erased, Whole, Returned
<1>11. CASE ~dev.err /\ pc = "program" /\ ~(i + 1 < SectorPages)
  <2>1. pc' = "sector" /\ s' = s + 1
    BY <1>11, PollEffect
  <2>2. Before'
    <3> SUFFICES ASSUME NEW t \in 0 .. s, NEW k \in Offsets PROVE Good(t, k)
      BY <1>1, <1>3, <1>4, <2>1 DEF Before
    <3>1. CASE t = s
      <4>1. k < Progress
        BY <1>2, <1>4, <1>11, Sizes DEF Offsets
      <4> QED
        BY <1>11, <3>1, <4>1 DEF Content, Programmed
    <3>2. CASE t \in 0 .. s - 1
      BY <1>11, <3>2 DEF Content, Before, Loops
    <3> QED
      BY <1>4, <3>1, <3>2
  <2> QED
    BY <2>1, <2>2 DEF Content, SmallErased, Erased, Programmed, Whole, Returned
<1>12. pc \in {"config", "small", "erase", "program"}
  BY <1>1 DEF LoopsQuiet
<1> QED
  BY <1>5, <1>6, <1>7, <1>8, <1>9, <1>10, <1>11, <1>12

(* A call that succeeds has gone through all sectors.                      *)
LEMMA ContentFinished ==
  ASSUME LoopsQuiet, Frame, Content, Finished
  PROVE  Content'
<1>1. /\ pc' = "idle" /\ ret' = 0 /\ UNCHANGED <<polling, core, calls, req, s, i, buf, dev, mem>>
      /\ (pc = "sector" /\ s >= req.num) \/ pc = "read"
  BY DEF Finished, Return
<1>2. CASE pc = "read"
  <2>1. req.op = "read"
    BY <1>2 DEF Frame, Control
  <2> QED
    BY <1>1, <2>1, ContentVacuous DEF Returned, Loops
<1>3. CASE pc = "sector" /\ s >= req.num
  <2>1. ~polling /\ dev.op = NoOp /\ ~dev.err /\ req \in Requests
    BY <1>3 DEF LoopsQuiet, Frame, Own, OwnOp, Loops, Control
  <2>2. \A t, k : Good(t, k)' <=> Good(t, k)
    BY <1>1 DEF Good, Clean, Pg
  <2>3. s = req.num
    <3>1. s <= req.num /\ s \in Nat /\ req.num \in Nat
      BY <1>3, <2>1, RequestAssumption DEF Frame, Typed, Control
    <3> QED
      BY <1>3, <3>1
  <2>4. \A t \in 0 .. req.num - 1, k \in Offsets : Good(t, k)
    BY <1>3, <2>1, <2>3 DEF Content, Before, Loops
  <2>5. Whole'
    BY <1>1, <2>1, <2>2, <2>4 DEF Whole
  <2> QED
    BY <1>1, <2>5 DEF Content, Before, SmallErased, Erased, Programmed, Loops
<1> QED
  BY <1>1, <1>2, <1>3

----------------------------------------------------------------------------
Inside == LoopsQuiet /\ Frame /\ Content

LEMMA InsideInit == Init => Frame /\ Content
<1> SUFFICES ASSUME Init PROVE Frame /\ Content
  OBVIOUS
<1>1. PICK z \in EraseSizes, u \in BOOLEAN, o \in {"none", "bottom", "top"} :
        dev = [busy |-> FALSE, wel |-> FALSE, err |-> FALSE, up |-> u, size |-> z, overlay |-> o, op |-> NoOp]
  BY DEF Init
<1>2. /\ pc = "idle" /\ polling = FALSE /\ calls = 0 /\ req = NoRequest /\ s = 0 /\ i = 0 /\ ret = -1
      /\ mem \in [Pages -> Values]
  BY DEF Init, Values
<1>3. z \in {"quarter", "whole"} /\ MaxCalls \in Nat
  BY EraseAssumption, CallsAssumption
<1>4. Typed
  <2>1. {polling, dev.busy, dev.err} \subseteq BOOLEAN
    BY <1>1, <1>2
  <2>2. /\ dev.size \in {"quarter", "whole"} /\ dev.overlay \in {"none", "bottom", "top"} /\ dev.op = NoOp
        /\ pc \in Pcs /\ {calls, s, i} \subseteq Nat /\ calls <= MaxCalls /\ ret \in Int
    BY <1>1, <1>2, <1>3 DEF Pcs
  <2> QED
    BY <1>2, <2>1, <2>2 DEF Typed
<1>5. Control /\ Own
  BY <1>2 DEF Control, Own, Flashing, Loops
<1>6. Content
  BY <1>2 DEF Content, Before, SmallErased, Erased, Programmed, Whole, Returned, Loops
<1> QED
  BY <1>4, <1>5, <1>6 DEF Frame

LEMMA FrameNext ==
  ASSUME LoopsQuiet, Frame, [Next]_vars
  PROVE  Frame'
<1>1. CASE UNCHANGED vars
  BY <1>1 DEF Frame, Typed, OpInside, Control, Flashing, Own, OwnOp, Op, SmallBase, Sector, vars, driverVars
<1>2. CASE Next
  BY <1>2, MainFrame, IssueFrame, NextSectorFrame, PollFrame, ReadFrame, FinishedFrame, DeviceFrame, ResetFrame
     DEF Next, Driver, Device
<1> QED
  BY <1>1, <1>2

LEMMA ContentStep ==
  ASSUME Inside, [Next]_vars
  PROVE  Content'
<1> USE DEF Inside
<1>1. CASE Main \/ OtherTarget \/ InitDriver \/ SpinUntil
  <2>1. pc' \notin Loops /\ ~Returned("flash")'
    BY <1>1, MainFrame DEF Returned
  <2> QED
    BY <2>1, ContentVacuous
<1>2. CASE ReadChunk
  BY <1>2, ReadFrame, ContentVacuous DEF Returned, Loops
<1>3. CASE Reset
  <2>1. pc' = "idle" /\ ret' = -1
    BY <1>3 DEF Reset
  <2> QED
    BY <2>1, ContentVacuous DEF Returned, Loops
<1>4. CASE UNCHANGED vars
  <2>1. UNCHANGED Done
    BY <1>4 DEF Done, vars, driverVars
  <2> QED
    BY <1>4, <2>1, ContentSame DEF vars, driverVars
<1>5. CASE Configure \/ EraseSmall \/ EraseSector \/ Program
  BY <1>5, ContentIssue
<1>6. CASE NextSector \/ Poll \/ Finished
  BY <1>6, ContentNext, ContentPoll, ContentFinished
<1>7. CASE Finish \/ Fails \/ PowerUp
  BY <1>7, ContentFinish, ContentFails, ContentPowerUp
<1> QED
  BY <1>1, <1>2, <1>3, <1>4, <1>5, <1>6, <1>7 DEF Next, Driver, Device

LEMMA InsideInvariant == Spec => []Inside
<1>1. Init => Frame /\ Content
  BY InsideInit
<1>2. LoopsQuiet /\ Frame /\ Content /\ [Next]_vars => Frame' /\ Content'
  BY FrameNext, ContentStep DEF Inside
<1> QED
  BY <1>1, <1>2, LoopsInvariant, PTL DEF Spec, Inside

(* Pages of the request in terms of its sectors.                           *)
LEMMA WholeRight == Frame /\ Whole => FlashRight
<1> SUFFICES ASSUME Frame, Whole, Returned("flash"), NEW p \in PagesOf(req)
             PROVE  \/ mem[p] = Data(calls, p - Base(req.first))
                    \/ dev.size = "quarter" /\ mem[p] = Mixed /\ p % SectorPages >= QuarterPages
  BY DEF FlashRight
<1>1. req \in Requests /\ \A t \in 0 .. req.num - 1, k \in Offsets : Good(t, k)
  BY DEF Whole
<1>2. req.first \in Nat /\ req.num \in Nat
  BY <1>1, RequestAssumption
<1>3. PICK t \in 0 .. req.num - 1, k \in Offsets :
        p = Base(req.first + t) + k /\ p % SectorPages = k /\ p - Base(req.first) = t * SectorPages + k
  BY <1>2, Split DEF PagesOf
<1>4. Good(t, k) /\ p = Pg(t, k)
  BY <1>1, <1>3 DEF Pg
<1>5. ~Clean(k) => dev.size = "quarter" /\ k >= QuarterPages
  BY Sizes DEF Clean, Frame, Typed, Offsets
<1> QED
  BY <1>3, <1>4, <1>5 DEF Good

(* A flash call that reports success has left its image in every page of   *)
(* its sectors: for every geometry, overlay, erase size, former contents,  *)
(* and history of failed and cut-off calls.                                *)
THEOREM FlashedRight == Spec => []FlashRight
<1>1. Inside => FlashRight
  BY WholeRight DEF Inside, Content
<1> QED
  BY <1>1, InsideInvariant, PTL

----------------------------------------------------------------------------
(* Reads.  Nothing is in the buffer before the first chunk.                *)
(* Pages read so far hold what the device does, unless it is still busy.   *)
ReadSoFar ==
  pc = "read" \/ Returned("read") =>
    \A p \in Pages :
      buf[p] \in IF p < i /\ p < req.num
                   THEN {Garbage} \union IF dev.op = NoOp THEN {mem[req.first + p]} ELSE {}
                   ELSE {Blank}
ReadDone == Returned("read") => i >= req.num

(* Garbage comes first: a device that is busy has been so all along.       *)
GarbageFirst ==
  pc = "read" \/ Returned("read") =>
    /\ \A p \in Pages, q \in Pages : q < p /\ buf[p] = Garbage => buf[q] = Garbage
    /\ pc = "read" /\ dev.busy => \A q \in Pages : q < i /\ q < req.num => buf[q] = Garbage

NoneRead == pc \in {"init", "spin"} => buf = [p \in Pages |-> Blank]
Reads    == NoneRead /\ ReadSoFar /\ GarbageFirst /\ ReadDone

(* Reads cares for the buffer only while a read goes on or has succeeded.  *)
LEMMA ReadsVacuous ==
  ASSUME pc' \notin {"init", "spin", "read"}, ~Returned("read")'
  PROVE  Reads'
  BY DEF Reads, NoneRead, ReadSoFar, GarbageFirst, ReadDone

(* What the device works on is not in the buffer.                          *)
LEMMA ReadsDevice ==
  ASSUME LoopsQuiet, Frame, Reads, Finish \/ Fails \/ PowerUp \/ UNCHANGED vars
  PROVE  Reads'
<1>1. /\ UNCHANGED driverVars
      /\ dev.op = NoOp => dev'.op = NoOp /\ UNCHANGED mem
      /\ dev'.busy => dev.busy
  <2>1. CASE Finish \/ Fails
    BY <2>1, FinishEffect, FailsEffect, NoOps DEF Frame
  <2>2. CASE PowerUp \/ UNCHANGED vars
    BY <2>2 DEF PowerUp, vars, LoopsQuiet
  <2> QED
    BY <2>1, <2>2
<1>2. UNCHANGED <<pc, i, req, ret, buf, calls>> /\ (Returned("read")' <=> Returned("read"))
  BY <1>1 DEF driverVars, Returned
<1>3. NoneRead' /\ ReadDone'
  BY <1>2 DEF Reads, NoneRead, ReadDone
<1>4. ReadSoFar'
  BY <1>1, <1>2 DEF Reads, ReadSoFar
<1>5. GarbageFirst'
  BY <1>1, <1>2 DEF Reads, GarbageFirst
<1> QED
  BY <1>3, <1>4, <1>5 DEF Reads

LEMMA ReadsChunk ==
  ASSUME LoopsQuiet, Frame, Reads, ReadChunk
  PROVE  Reads'
<1>1. /\ pc = "read" /\ pc' = "read" /\ i < req.num /\ i' = i + ChunkPages
      /\ UNCHANGED <<polling, core, calls, req, s, ret, dev, mem>>
      /\ \A p \in Pages : buf'[p] = IF p \notin i .. i + Length - 1 THEN buf[p]
                                    ELSE IF dev.busy THEN Garbage ELSE mem[req.first + p]
  BY DEF ReadChunk, Goto
<1>2. i \in Nat /\ req.num \in Nat /\ ChunkPages \in Nat \ {0} /\ Pages \subseteq Nat
  BY <1>1, Sizes, RequestAssumption DEF Frame, Typed, Control, Pages
<1>3. ~dev.busy => dev.op = NoOp
  BY DEF LoopsQuiet
<1>4. ReadSoFar'
  <2> SUFFICES ASSUME NEW p \in Pages
               PROVE  buf'[p] \in IF p < i + ChunkPages /\ p < req.num
                                    THEN {Garbage} \union IF dev.op = NoOp THEN {mem[req.first + p]} ELSE {}
                                    ELSE {Blank}
    BY <1>1 DEF ReadSoFar
  <2>1. p \in Nat
    BY <1>2
  <2>2. buf[p] \in IF p < i /\ p < req.num
                     THEN {Garbage} \union IF dev.op = NoOp THEN {mem[req.first + p]} ELSE {}
                     ELSE {Blank}
    BY <1>1 DEF Reads, ReadSoFar
  <2>3. p \in i .. i + Length - 1 <=> ~(p < i) /\ p < i + ChunkPages /\ p < req.num
    BY <1>1, <1>2, <2>1 DEF Length
  <2>4. p < i => p < i + ChunkPages
    BY <1>2, <2>1
  <2>5. buf'[p] = IF p \notin i .. i + Length - 1 THEN buf[p]
                  ELSE IF dev.busy THEN Garbage ELSE mem[req.first + p]
    BY <1>1
  <2> QED
    BY <1>3, <2>2, <2>3, <2>4, <2>5
<1>5. NoneRead' /\ ReadDone'
  BY <1>1 DEF NoneRead, ReadDone, Returned
<1>6. GarbageFirst'
  <2>1. /\ \A p \in Pages, q \in Pages : q < p /\ buf[p] = Garbage => buf[q] = Garbage
        /\ dev.busy => \A q \in Pages : q < i /\ q < req.num => buf[q] = Garbage
    BY <1>1 DEF Reads, GarbageFirst
  <2>2. \A p \in Pages : p \in i .. i + Length - 1 <=> ~(p < i) /\ p < i + ChunkPages /\ p < req.num
    BY <1>1, <1>2 DEF Length
  <2>3. \A p \in Pages : ~(p < i /\ p < req.num) => buf[p] # Garbage
    <3> SUFFICES ASSUME NEW p \in Pages, ~(p < i /\ p < req.num) PROVE buf[p] # Garbage
      OBVIOUS
    <3>1. buf[p] \in IF p < i /\ p < req.num
                       THEN {Garbage} \union IF dev.op = NoOp THEN {mem[req.first + p]} ELSE {}
                       ELSE {Blank}
      BY <1>1 DEF Reads, ReadSoFar
    <3> QED
      BY <3>1 DEF Blank, Garbage
  <2>4. CASE dev.busy
    <3>1. \A q \in Pages : q < i + ChunkPages /\ q < req.num => buf'[q] = Garbage
      BY <1>1, <1>2, <2>1, <2>2, <2>4
    <3>2. \A p \in Pages : buf'[p] = Garbage => p < i + ChunkPages /\ p < req.num
      BY <1>1, <1>2, <2>2, <2>3
    <3>3. \A p \in Pages, q \in Pages : q < p /\ buf'[p] = Garbage => buf'[q] = Garbage
      BY <1>2, <3>1, <3>2
    <3> QED
      BY <1>1, <3>1, <3>3 DEF GarbageFirst
  <2>5. CASE ~dev.busy
    <3>1. \A p \in Pages : p < req.num => mem[req.first + p] # Garbage
      <4>1. \A p \in Pages : p < req.num => req.first + p \in Pages
        <5>1. req \in Requests /\ req.target = 2 /\ req.op = "read"
          BY <1>1 DEF Frame, Control
        <5>2. req.first \in Nat /\ req.num \in Nat /\ req.first + req.num <= Sectors * SectorPages
          BY <5>1, RequestAssumption
        <5>3. Sectors * SectorPages \in Nat
          BY Sizes
        <5> QED
          BY <5>2, <5>3 DEF Pages
      <4>2. \A v \in Values : v # Garbage
        <5>1. ASSUME NEW c \in 1 .. MaxCalls, NEW p \in Pages PROVE Data(c, p) # Garbage
          <6>1. c - 1 \in Nat /\ p \in Nat /\ Sectors \in Nat /\ SectorPages \in Nat
            BY Sizes, CallsAssumption DEF Pages
          <6>2. (c - 1) * Sectors \in Nat
            BY <6>1
          <6>3. (c - 1) * Sectors * SectorPages \in Nat
            BY <6>1, <6>2
          <6> QED
            BY <6>1, <6>3 DEF Data, Garbage
        <5> QED
          BY <5>1 DEF Values, Garbage, Blank, Mixed, Old
      <4> QED
        BY <4>1, <4>2 DEF Frame, Typed
    <3>2. \A p \in Pages : buf'[p] = Garbage => buf[p] = Garbage /\ p < i
      BY <1>1, <1>2, <2>2, <2>3, <2>5, <3>1
    <3>3. \A q \in Pages : q < i => buf'[q] = buf[q]
      BY <1>1, <1>2, <2>2
    <3>4. \A p \in Pages, q \in Pages : q < p /\ buf'[p] = Garbage => buf'[q] = Garbage
      BY <1>2, <2>1, <3>2, <3>3
    <3> QED
      BY <1>1, <2>5, <3>4 DEF GarbageFirst
  <2> QED
    BY <2>4, <2>5
<1> QED
  BY <1>4, <1>5, <1>6 DEF Reads

LEMMA ReadsStep ==
  ASSUME Inside, Reads, [Next]_vars
  PROVE  Reads'
<1> USE DEF Inside
<1>1. CASE Main
  <2>1. pc' = "init" /\ buf' = [p \in Pages |-> Blank]
    BY <1>1 DEF Main, Goto
  <2> QED
    BY <2>1 DEF Reads, NoneRead, ReadSoFar, GarbageFirst, ReadDone, Returned
<1>2. CASE OtherTarget
  BY <1>2, ReadsVacuous DEF OtherTarget, Return, Returned
<1>3. CASE InitDriver
  <2>1. pc = "init" /\ UNCHANGED buf /\ (pc' = "spin" \/ (pc' = "idle" /\ ret' = 19))
    BY <1>3 DEF InitDriver, Return
  <2> QED
    BY <2>1 DEF Reads, NoneRead, ReadSoFar, GarbageFirst, ReadDone, Returned
<1>4. CASE SpinUntil
  <2>1. pc = "spin" /\ pc' \in {"read", "config"} /\ UNCHANGED <<buf, i>>
    BY <1>4 DEF SpinUntil, Goto
  <2>2. i = 0
    BY <2>1 DEF Frame, Control
  <2>3. \A p \in Pages : ~(p < 0)
    BY DEF Pages
  <2> QED
    BY <2>1, <2>2, <2>3 DEF Reads, NoneRead, ReadSoFar, GarbageFirst, ReadDone, Returned
<1>5. CASE Configure \/ EraseSmall \/ EraseSector \/ Program \/ NextSector
  <2>1. pc' \in Loops \union {"config"}
    BY <1>5 DEF Configure, EraseSmall, EraseSector, Program, Issue, NextSector, Loops
  <2> QED
    BY <2>1, ReadsVacuous DEF Returned, Loops
<1>6. CASE Poll
  <2>1. pc' \in Loops \/ (pc' = "idle" /\ ret' = 96)
    BY <1>6, PollEffect DEF Loops
  <2> QED
    BY <2>1, ReadsVacuous DEF Returned, Loops
<1>7. CASE Finished
  <2>1. /\ pc' = "idle" /\ UNCHANGED <<polling, core, calls, req, s, i, buf, dev, mem>>
        /\ \/ pc = "sector"
           \/ pc = "read" /\ i >= req.num
    BY <1>7 DEF Finished, Return
  <2>2. CASE pc = "sector"
    <3>1. req.op = "flash"
      BY <2>2 DEF Frame, Control, Flashing, Loops
    <3> QED
      BY <2>1, <3>1, ReadsVacuous DEF Returned
  <2>3. CASE pc = "read" /\ i >= req.num
    BY <2>1, <2>3 DEF Reads, NoneRead, ReadSoFar, GarbageFirst, ReadDone
  <2> QED
    BY <2>1, <2>2, <2>3
<1>8. CASE Reset
  <2>1. pc' = "idle" /\ ret' = -1
    BY <1>8 DEF Reset
  <2> QED
    BY <2>1, ReadsVacuous DEF Returned
<1> QED
  BY <1>1, <1>2, <1>3, <1>4, <1>5, <1>6, <1>7, <1>8, ReadsChunk, ReadsDevice DEF Next, Driver, Device

(* A read that has returned holds the device's pages and nothing past      *)
(* them, and what it read too early comes first: for every alignment,      *)
(* length and chunk size.                                                  *)
THEOREM ReadsRight == Spec => []ReadRight
<1>1. Init => Reads
  BY DEF Init, Reads, NoneRead, ReadSoFar, GarbageFirst, ReadDone, Returned
<1>2. Inside /\ Frame /\ Reads => ReadRight
  <2> SUFFICES ASSUME Frame, Reads, Returned("read"), NEW p \in Pages
               PROVE  /\ buf[p] \in IF p < req.num THEN {mem[req.first + p], Garbage} ELSE {Blank}
                      /\ buf[p] = Garbage => \A q \in 0 .. p : buf[q] = Garbage
    BY DEF ReadRight
  <2>1. buf[p] \in IF p < i /\ p < req.num
                     THEN {Garbage} \union IF dev.op = NoOp THEN {mem[req.first + p]} ELSE {}
                     ELSE {Blank}
    BY DEF Reads, ReadSoFar
  <2>2. i >= req.num /\ i \in Nat /\ p \in Nat
    BY DEF Reads, ReadDone, Frame, Typed, Pages
  <2>3. req.num \in Nat
    BY RequestAssumption DEF Frame, Typed, NoRequest
  <2>4. p < req.num => p < i
    BY <2>2, <2>3
  <2>5. buf[p] = Garbage => \A q \in 0 .. p : buf[q] = Garbage
    <3> SUFFICES ASSUME buf[p] = Garbage, NEW q \in 0 .. p PROVE buf[q] = Garbage
      OBVIOUS
    <3>1. q \in Pages /\ (q < p \/ q = p)
      BY <2>2, Sizes DEF Pages
    <3> QED
      BY <3>1 DEF Reads, GarbageFirst
  <2> QED
    BY <2>1, <2>4, <2>5
<1>3. Inside => Frame
  BY DEF Inside
<1> QED
  BY <1>1, <1>2, <1>3, ReadsStep, InsideInvariant, PTL DEF Spec

----------------------------------------------------------------------------
(* The abstract disk: each step of the driver and of the device is one of  *)
(* its steps, or none.                                                     *)
LateCall == IF dev.op.of = Current THEN NoCall ELSE dev.op.of
Success  == Returned("flash") /\ dev.size = "whole"

LEMMA CurrentCall ==
  ASSUME Frame
  PROVE  /\ Current \in FlashCalls \union {NoCall}
         /\ Current # NoCall <=> pc # "idle" /\ req.op = "flash" /\ req.target = 2
         /\ Current # NoCall => Current = Call(calls, req)
         /\ pc = "idle" => Current = NoCall
         /\ Flashing => Current = Call(calls, req) /\ Current # NoCall
<1>1. CASE pc # "idle" /\ req.op = "flash" /\ req.target = 2
  <2>1. Current = Call(calls, req)
    BY <1>1 DEF Current
  <2>2. Call(calls, req) \in FlashCalls
    <3>1. calls \in 1 .. MaxCalls /\ req \in Requests
      BY <1>1, CallsAssumption DEF Frame, Typed, Control
    <3> QED
      BY <1>1, <3>1 DEF FlashCalls
  <2>3. Current # NoCall
    BY <2>1, <2>2, CallRecords
  <2> QED
    BY <1>1, <2>1, <2>2, <2>3
<1>2. CASE ~(pc # "idle" /\ req.op = "flash" /\ req.target = 2)
  <2>1. Current = NoCall
    BY <1>2 DEF Current, NoCall
  <2> QED
    BY <1>2, <2>1 DEF Frame, Control, Flashing, Loops
<1> QED
  BY <1>1, <1>2

LEMMA OpCall ==
  ASSUME Frame
  PROVE  /\ dev.op = NoOp => LateCall = NoCall
         /\ dev.op # NoOp => dev.op.of \in FlashCalls /\ dev.op.of # NoCall
         /\ Current = NoCall => LateCall = dev.op.of
<1>1. dev.op = NoOp => LateCall = NoCall
  BY NoOps DEF LateCall
<1>2. dev.op # NoOp => dev.op.of \in FlashCalls
  BY DEF Frame, Typed, Ops
<1> QED
  BY <1>1, <1>2, CallRecords DEF LateCall

LEMMA AsStutter ==
  ASSUME UNCHANGED <<mem, Current, LateCall, Success>>
  PROVE  UNCHANGED DiskAbove!vars
  BY DEF DiskAbove!vars, LateCall, Success, NoCall

LEMMA AsFail ==
  ASSUME Current # NoCall, Current' = NoCall, ~Success', LateCall' \in {NoCall, LateCall, Current},
         mem' \in [Pages -> Values],
         \A p \in Pages : mem'[p] = mem[p] \/ p \in PagesOf(Current)
                            \/ (LateCall # NoCall /\ p \in PagesOf(LateCall))
  PROVE  DiskAbove!Fail
  BY DEF DiskAbove!Fail, DiskAbove!ChangesOnly, LateCall, Success, NoCall

LEMMA AsWork ==
  ASSUME UNCHANGED <<Current, LateCall, Success>>, Current # NoCall, mem' \in [Pages -> Values],
         \A p \in Pages : mem'[p] = mem[p] \/ p \in PagesOf(Current)
  PROVE  DiskAbove!Work
  BY DEF DiskAbove!Work, DiskAbove!ChangesOnly, LateCall, Success, NoCall

LEMMA AsLateWork ==
  ASSUME UNCHANGED <<Current, Success>>, LateCall # NoCall, LateCall' = NoCall, mem' \in [Pages -> Values],
         \A p \in Pages : mem'[p] = mem[p] \/ p \in PagesOf(LateCall)
  PROVE  DiskAbove!LateWork
  BY DEF DiskAbove!LateWork, DiskAbove!ChangesOnly, LateCall, Success, NoCall

LEMMA AsBegin ==
  ASSUME Current = NoCall, ~Success', UNCHANGED <<mem, LateCall>>
  PROVE  DiskAbove!Begin(Current')
  BY DEF DiskAbove!Begin, LateCall, Success, NoCall

LEMMA AsSucceed ==
  ASSUME Current # NoCall, Current' = NoCall, Success', LateCall = NoCall, LateCall' = NoCall, UNCHANGED mem,
         \A p \in PagesOf(Current) : mem[p] = Data(Current.no, p - Base(Current.first))
  PROVE  DiskAbove!Succeed
  BY DEF DiskAbove!Succeed, LateCall, Success, NoCall

----------------------------------------------------------------------------
LEMMA DiskMain ==
  ASSUME Frame, Frame', Main
  PROVE  DiskAbove!Next
<1>1. /\ pc = "idle" /\ pc' = "init" /\ calls' = calls + 1 /\ calls \in Nat /\ UNCHANGED <<dev, mem>>
      /\ calls < MaxCalls /\ req' \in Requests
  BY DEF Main, Goto, Frame, Typed
<1>2. Current = NoCall /\ LateCall = dev.op.of /\ ~Success'
  BY <1>1, CurrentCall, OpCall DEF Success, Returned
<1>3. Current' \in FlashCalls \union {NoCall} /\ (Current' # NoCall => Current' = Call(calls, req)')
  <2>1. CASE req'.op = "flash" /\ req'.target = 2
    <3>1. Current' = Call(calls, req)'
      BY <1>1, <2>1 DEF Current, Call
    <3>2. calls + 1 \in 1 .. MaxCalls
      BY <1>1, CallsAssumption
    <3>3. Call(calls + 1, req') \in FlashCalls
      BY <1>1, <2>1, <3>2 DEF FlashCalls
    <3> QED
      BY <1>1, <3>1, <3>3 DEF Call
  <2>2. CASE ~(req'.op = "flash" /\ req'.target = 2)
    BY <2>2 DEF Current, NoCall, NoOp, NoRequest, Call
  <2> QED
    BY <2>1, <2>2
<1>4. dev.op.of = NoCall \/ dev.op.of # Current'
  <2>1. CASE dev.op = NoOp
    BY <2>1, NoOps
  <2>2. CASE dev.op # NoOp
    <3>1. dev.op.of.no <= calls /\ dev.op.of.no \in Nat
      <4>1. dev.op.of.no <= calls /\ dev.op.of \in FlashCalls
        BY <2>2, OpCall DEF Frame, Typed, OpInside
      <4> QED
        BY <4>1, CallRecords, CallsAssumption
    <3>2. Current' # NoCall => Current'.no = calls + 1
      BY <1>1, <1>3 DEF Call
    <3> QED
      BY <1>1, <2>2, <3>1, <3>2, OpCall
  <2> QED
    BY <2>1, <2>2
<1>5. LateCall' = LateCall
  BY <1>1, <1>2, <1>4 DEF LateCall
<1>6. DiskAbove!Begin(Current')
  BY <1>1, <1>2, <1>5, AsBegin
<1>7. Current' \in {Call(n, r) : n \in 1 .. MaxCalls, r \in {q \in Requests : q.op = "flash"}} \union {NoCall}
  BY <1>3 DEF FlashCalls
<1> QED
  BY <1>6, <1>7 DEF DiskAbove!Next, NoCall

(* The call goes on, and the device is not touched.                        *)
LEMMA DiskGoesOn ==
  ASSUME Frame, pc # "idle", pc' # "idle", UNCHANGED <<calls, req, mem>>,
         dev'.op = dev.op \/ (dev.op = NoOp /\ dev'.op.of = Current /\ Current # NoCall)
  PROVE  UNCHANGED DiskAbove!vars
<1>1. Current' = Current
  BY DEF Current, Call, NoOp, NoRequest
<1>2. ~Success /\ ~Success'
  BY DEF Success, Returned
<1>3. LateCall' = LateCall
  BY <1>1, NoOps DEF LateCall
<1>4. Success' = Success
  BY <1>2 DEF Success
<1> QED
  BY <1>1, <1>3, <1>4, AsStutter

(* The call ends without a success, and the device is not touched.         *)
LEMMA DiskGivesUp ==
  ASSUME Frame, Frame', pc # "idle", pc' = "idle", ~Success', UNCHANGED <<dev, mem>>
  PROVE  DiskAbove!Fail \/ UNCHANGED DiskAbove!vars
<1>1. Current' = NoCall /\ LateCall' = dev'.op.of
  <2>1. Current' = NoCall
    BY DEF Current, NoCall, NoOp, NoRequest, Call
  <2>2. NoCall' = NoCall
    BY DEF NoCall, NoOp, NoRequest, Call
  <2> QED
    BY <2>1, <2>2 DEF LateCall
<1>2. mem' \in [Pages -> Values]
  BY DEF Frame, Typed
<1>3. CASE Current # NoCall
  <2>1. LateCall' \in {NoCall, LateCall, Current}
    BY <1>1 DEF LateCall
  <2> QED
    BY <1>1, <1>2, <1>3, <2>1, AsFail
<1>4. CASE Current = NoCall
  <2>1. ~Success
    BY DEF Success, Returned
  <2>2. Success' = Success
    BY <2>1 DEF Success
  <2> QED
    BY <1>1, <1>4, <2>2, OpCall, AsStutter
<1> QED
  BY <1>3, <1>4

LEMMA DiskFinished ==
  ASSUME Inside, Frame', Content', Finished
  PROVE  DiskAbove!Next \/ UNCHANGED DiskAbove!vars
<1> USE DEF Inside
<1>1. /\ pc' = "idle" /\ ret' = 0 /\ UNCHANGED <<polling, core, calls, req, s, i, buf, dev, mem>>
      /\ pc \in {"sector", "read"}
  BY DEF Finished, Return
<1>2. CASE Success'
  <2>1. req.op = "flash" /\ req.target = 2 /\ pc = "sector"
    BY <1>1, <1>2 DEF Success, Returned, Frame, Control
  <2>2. Current = Call(calls, req) /\ Current # NoCall /\ Current' = NoCall
    <3>1. Current = Call(calls, req) /\ Current # NoCall
      BY <2>1, CurrentCall DEF Flashing, Loops
    <3>2. Current' = NoCall
      BY <1>1 DEF Current, NoCall, NoOp, NoRequest, Call
    <3> QED
      BY <3>1, <3>2
  <2>3. dev.op = NoOp /\ LateCall = NoCall /\ LateCall' = NoCall
    <3>1. dev.op = NoOp
      BY <2>1 DEF Frame, Own, OwnOp, Loops
    <3> QED
      BY <1>1, <2>2, <3>1, NoOps, OpCall DEF LateCall
  <2>4. FlashRight' /\ Returned("flash")' /\ dev.size = "whole"
    <3>1. FlashRight'
      BY WholeRight, PTL DEF Content
    <3> QED
      BY <1>1, <1>2, <3>1 DEF Success
  <2>5. \A p \in PagesOf(req) : mem[p] = Data(calls, p - Base(req.first))
    BY <1>1, <2>4 DEF FlashRight, PagesOf, Base, Data
  <2>6. \A p \in PagesOf(Current) : mem[p] = Data(Current.no, p - Base(Current.first))
    BY <2>2, <2>5 DEF PagesOf, Call
  <2>7. DiskAbove!Succeed
    BY <1>1, <1>2, <2>2, <2>3, <2>6, AsSucceed
  <2> QED
    BY <2>7 DEF DiskAbove!Next
<1>3. CASE ~Success'
  BY <1>1, <1>3, DiskGivesUp DEF DiskAbove!Next
<1> QED
  BY <1>2, <1>3

(* What the device works on belongs to the call in progress, or to one     *)
(* that was cut off.                                                       *)
LEMMA DiskDevice ==
  ASSUME Inside, Frame', Finish \/ Fails
  PROVE  DiskAbove!Next
<1> USE DEF Inside
<1>1. /\ dev.op \in Ops /\ OpInside(dev.op) /\ UNCHANGED driverVars /\ dev'.op = NoOp
      /\ \A p \in Pages : mem'[p] = mem[p] \/ p \in Touched(dev.op)
  BY FinishEffect, FailsEffect, SpoilEffect DEF Frame
<1>2. \A p \in Pages : mem'[p] = mem[p] \/ p \in PagesOf(dev.op.of)
  BY <1>1, TouchedInside
<1>3. Current' = Current /\ LateCall' = NoCall /\ mem' \in [Pages -> Values]
  <2>1. Current' = Current
    BY <1>1 DEF Current, Call, NoOp, NoRequest, driverVars
  <2>2. LateCall' = NoCall
    BY <1>1, NoOps DEF LateCall
  <2> QED
    BY <2>1, <2>2 DEF Frame, Typed
<1>4. dev.op # NoOp /\ dev.op.of # NoCall
  BY <1>1, NoOps, OpCall
<1>5. Success' = Success
  <2>1. ~Returned("flash") /\ ~Returned("flash")'
    BY <1>1, <1>4 DEF Content, Whole, Returned, driverVars
  <2> QED
    BY <2>1 DEF Success
<1>6. CASE dev.op.of = Current
  <2>1. LateCall' = LateCall
    BY <1>3, <1>6 DEF LateCall
  <2> QED
    BY <1>2, <1>3, <1>4, <1>5, <1>6, <2>1, AsWork DEF DiskAbove!Next
<1>7. CASE dev.op.of # Current
  <2>1. LateCall = dev.op.of
    BY <1>7 DEF LateCall
  <2> QED
    BY <1>2, <1>3, <1>4, <1>5, <2>1, AsLateWork DEF DiskAbove!Next
<1> QED
  BY <1>6, <1>7

LEMMA DiskReset ==
  ASSUME Inside, Frame', Reset
  PROVE  DiskAbove!Next \/ UNCHANGED DiskAbove!vars
<1> USE DEF Inside
<1>1. pc # "idle" /\ pc' = "idle" /\ ret' = -1 /\ UNCHANGED <<calls, req>>
  BY DEF Reset
<1>2. ~Success /\ ~Success'
  BY <1>1 DEF Success, Returned
<1>3. Success' = Success
  BY <1>2 DEF Success
<1>4. CASE UNCHANGED <<dev, mem>>
  BY <1>1, <1>2, <1>4, DiskGivesUp DEF DiskAbove!Next
<1>5. CASE Spoil /\ dev'.op = NoOp
  <2>1. Current' = NoCall /\ LateCall' = NoCall /\ mem' \in [Pages -> Values]
    <3>1. Current' = NoCall
      BY <1>1 DEF Current, NoCall, NoOp, NoRequest, Call
    <3>2. LateCall' = NoCall
      BY <1>5, NoOps DEF LateCall
    <3> QED
      BY <3>1, <3>2 DEF Frame, Typed
  <2>2. \A p \in Pages : mem'[p] = mem[p] \/ (dev.op # NoOp /\ p \in PagesOf(dev.op.of))
    <3>1. dev.op = NoOp => Touched(dev.op) = {}
      BY DEF Touched, NoOp
    <3>2. dev.op # NoOp => Touched(dev.op) \subseteq PagesOf(dev.op.of)
      BY TouchedInside DEF Frame, Typed
    <3> QED
      BY <1>5, <3>1, <3>2, SpoilEffect DEF Frame
  <2>3. \A p \in Pages : \/ mem'[p] = mem[p] \/ p \in PagesOf(Current)
                         \/ (LateCall # NoCall /\ p \in PagesOf(LateCall))
    BY <2>2, OpCall DEF LateCall
  <2>4. CASE Current # NoCall
    BY <1>2, <2>1, <2>3, <2>4, AsFail DEF DiskAbove!Next
  <2>5. CASE Current = NoCall /\ dev.op = NoOp
    <3>1. UNCHANGED mem
      <4>1. \A p \in Pages : mem'[p] = mem[p]
        BY <2>2, <2>5
      <4> QED
        BY <2>1, <4>1 DEF Frame, Typed
    <3> QED
      BY <1>3, <2>1, <2>5, <3>1, OpCall, AsStutter
  <2>6. CASE Current = NoCall /\ dev.op # NoOp
    <3>1. LateCall = dev.op.of /\ dev.op.of # NoCall
      BY <2>6, OpCall
    <3> QED
      BY <1>3, <2>1, <2>2, <2>6, <3>1, AsLateWork DEF DiskAbove!Next
  <2> QED
    BY <2>4, <2>5, <2>6
<1>6. UNCHANGED <<dev, mem>> \/ (Spoil /\ dev'.op = NoOp)
  BY DEF Reset, LoopsQuiet
<1> QED
  BY <1>4, <1>5, <1>6

LEMMA DiskStep ==
  ASSUME Inside, Inside', [Next]_vars
  PROVE  DiskAbove!Next \/ UNCHANGED DiskAbove!vars
<1> USE DEF Inside
<1>1. CASE Main
  BY <1>1, DiskMain
<1>2. CASE OtherTarget \/ InitDriver
  <2>1. /\ pc = "init" /\ (pc' = "spin" \/ (pc' = "idle" /\ ~Returned("flash")'))
        /\ UNCHANGED <<calls, req, dev, mem>>
    <3>1. CASE OtherTarget
      BY <3>1 DEF OtherTarget, Return, Returned
    <3>2. CASE InitDriver
      BY <3>2 DEF InitDriver, Return, Returned
    <3> QED
      BY <1>2, <3>1, <3>2
  <2>2. CASE pc' = "spin"
    BY <2>1, <2>2, DiskGoesOn
  <2>3. CASE pc' = "idle" /\ ~Returned("flash")'
    BY <2>1, <2>3, DiskGivesUp DEF Success, DiskAbove!Next
  <2> QED
    BY <2>1, <2>2, <2>3
<1>3. CASE SpinUntil \/ NextSector \/ ReadChunk
  <2>1. pc # "idle" /\ pc' # "idle" /\ UNCHANGED <<calls, req, dev, mem>>
    BY <1>3 DEF SpinUntil, NextSector, ReadChunk, Goto
  <2> QED
    BY <2>1, DiskGoesOn
<1>4. CASE Configure \/ EraseSmall \/ EraseSector \/ Program
  <2>1. PICK op : Issue(pc, op) /\ op.of = Call(calls, req) /\ pc \in {"config", "small", "erase", "program"}
    BY <1>4 DEF Configure, EraseSmall, EraseSector, Program, Issue, Op
  <2>2. /\ UNCHANGED <<pc, calls, req, mem>>
        /\ (dev'.op = op /\ dev.op = NoOp) \/ dev'.op = dev.op
    BY <2>1, IssueEffect
  <2>3. Current = Call(calls, req) /\ Current # NoCall
    BY <2>1, CurrentCall DEF Flashing, Loops
  <2> QED
    BY <2>1, <2>2, <2>3, DiskGoesOn
<1>5. CASE Poll
  <2>1. /\ UNCHANGED <<calls, req, dev, mem>> /\ pc # "idle"
        /\ (pc' = "idle" /\ ret' = 96) \/ pc' # "idle"
    BY <1>5, PollEffect DEF LoopsQuiet
  <2>2. CASE pc' # "idle"
    BY <2>1, <2>2, DiskGoesOn
  <2>3. CASE pc' = "idle" /\ ret' = 96
    BY <2>1, <2>3, DiskGivesUp DEF Success, Returned, DiskAbove!Next
  <2> QED
    BY <2>1, <2>2, <2>3
<1>6. CASE PowerUp \/ UNCHANGED vars
  <2>1. UNCHANGED <<pc, calls, req, ret, mem>> /\ dev'.op = dev.op /\ dev'.size = dev.size
    BY <1>6 DEF PowerUp, vars, driverVars, LoopsQuiet
  <2>2. Current' = Current
    BY <2>1 DEF Current, Call, NoOp, NoRequest
  <2>3. LateCall' = LateCall /\ Success' = Success
    BY <2>1, <2>2 DEF LateCall, Success, Returned
  <2> QED
    BY <2>1, <2>2, <2>3, AsStutter
<1> QED
  BY <1>1, <1>2, <1>3, <1>4, <1>5, <1>6, DiskFinished, DiskDevice, DiskReset DEF Next, Driver, Device

(* The driver with its device implements the abstract disk: it changes     *)
(* only what its calls name, and reports success only for a whole image    *)
(* that nothing can change any more.                                       *)
THEOREM ImplementsDisk == Spec => DiskSpec
<1>1. Inside /\ Init => DiskAbove!Init
  <2> SUFFICES ASSUME Frame, Init PROVE DiskAbove!Init
    BY DEF Inside
  <2>1. pc = "idle" /\ ret = -1 /\ dev.op = NoOp
    BY DEF Init
  <2> QED
    BY <2>1 DEF DiskAbove!Init, Current, Returned, NoOp, Frame, Typed
<1>2. Inside /\ Inside' /\ [Next]_vars => [DiskAbove!Next]_(DiskAbove!vars)
  BY DiskStep
<1> QED
  BY <1>1, <1>2, InsideInvariant, PTL DEF Spec, DiskSpec, DiskAbove!Spec
=============================================================================
