------------------------------- MODULE Eeprom -------------------------------
(***************************************************************************)
(* The EEPROM driver (sw/lib/hal/i2c_24fc1025.c), the I2C host controller  *)
(* under it, and the 24FC1025 on the bus.                                  *)
(*                                                                         *)
(* An access is cut into chunks that end at multiples of the FIFO depth.   *)
(* For each chunk the driver waits until all FIFOs are empty, disables the *)
(* controller, queues the whole transfer, and enables it again.            *)
(*                                                                         *)
(* A byte of the device is named by its address at the start, a byte of    *)
(* the buffer that a write takes from by its offset: see Src.  The calls   *)
(* into the controller's library succeed: their arguments are valid.       *)
(***************************************************************************)
EXTENDS Integers, Sequences

CONSTANTS
  Depth,      (* I2C_PARAM_FIFO_DEPTH: 64.                                  *)
  BlockLen,   (* Bytes of each of the device's two blocks: 64 KiB.          *)
  Requests,   (* The calls callers make: [op, addr, len] records.           *)
  MaxCalls,   (* Bound on the calls of a behaviour.                         *)
  MaxSpan     (* Bound on what is looked at of the caller's memory.         *)

ASSUME DepthAssumption   == Depth \in Nat /\ Depth % 2 = 0 /\ Depth >= 8
ASSUME BlockAssumption   == BlockLen \in Nat \ {0} /\ BlockLen % Depth = 0
ASSUME SpanAssumption    == MaxSpan \in Nat
ASSUME RequestAssumption ==
  \A r \in Requests : /\ r.op \in {"read", "write"} /\ {r.addr, r.len} \subseteq Nat
                      /\ r.addr + r.len <= 2 * BlockLen

VARIABLES
  pc, call, calls,
  offs,     (* Bytes of the call that chunks so far cover.                  *)
  chunk,    (* The chunk in progress: its buffer offset, addr and len.      *)
  fmt,      (* The format FIFO: [flag, byte] entries.                       *)
  rx,       (* The receive FIFO.                                            *)
  enabled,  (* The controller works off the format FIFO.                    *)
  dst,      (* The caller's buffer and its surroundings, by offset.         *)
  dev       (* The device: its address bytes, page buffer and memory.       *)

callVars == <<call, calls, offs>>
vars     == <<pc, callVars, chunk, fmt, rx, enabled, dst, dev>>

Unset == -1
Cells == 0 .. 2 * BlockLen - 1

Src(j) == 2 * BlockLen + j

Init ==
  /\ pc = "idle" /\ calls = 0
  /\ call = [op |-> "read", addr |-> 0, len |-> 0] /\ offs = 0
  /\ chunk = [buf |-> 0, addr |-> 0, len |-> 0]
  /\ fmt = <<>> /\ rx = <<>> /\ enabled = TRUE
  /\ dst = [a \in 0 .. MaxSpan |-> Unset]
  /\ dev = [bytes |-> <<>>, ptr |-> 0, page |-> <<>>, mem |-> [a \in Cells |-> a]]

Goto(from, to) == pc = from /\ pc' = to

----------------------------------------------------------------------------
(* __i2c_24fc1025_access: cut the call into chunks.                        *)

Call ==
  /\ Goto("idle", "cut")
  /\ calls < MaxCalls /\ calls' = calls + 1
  /\ call' \in Requests
  /\ offs' = 0
  /\ dst'  = [a \in DOMAIN dst |-> Unset]
  /\ UNCHANGED <<chunk, fmt, rx, enabled, dev>>

Misaligned == call.addr % Depth # 0

(* Up to the next multiple of the FIFO depth, whatever the length.         *)
FirstLen == Depth - (call.addr % Depth)
NextLen  == IF call.len - offs < Depth THEN call.len - offs ELSE Depth

CutTo(len, next) ==
  /\ Goto("cut", "wait")
  /\ chunk' = [buf |-> offs, addr |-> call.addr + offs, len |-> len]
  /\ offs'  = next
  /\ UNCHANGED <<call, calls, fmt, rx, enabled, dst, dev>>

ToAlign  == offs = 0 /\ Misaligned
CutFirst == ToAlign /\ CutTo(FirstLen, FirstLen)
CutNext  == ~ToAlign /\ offs < call.len /\ CutTo(NextLen, offs + Depth)

Return ==
  /\ Goto("cut", "idle")
  /\ ~ToAlign /\ offs >= call.len
  /\ UNCHANGED <<callVars, chunk, fmt, rx, enabled, dst, dev>>

----------------------------------------------------------------------------
(* __i2c_24fc1025_access_chunk.                                            *)

(* Poll until all FIFOs are empty, then disable the controller.            *)
WaitEmpty     == fmt = <<>> /\ rx = <<>>

StaysEnabled == enabled
Disabled     == FALSE

Disable ==
  /\ Goto("wait", "address")
  /\ WaitEmpty
  /\ enabled' = Disabled
  /\ UNCHANGED <<callVars, chunk, fmt, rx, dst, dev>>

(* The control byte has eight bits; (addr & 0x10000) >> 1 sets the 16th.   *)
BlockBit(a) == (a \div BlockLen) % 2
Ctrl(a)     == (160 + BlockBit(a) * 32768) % 256

Entry(flag, byte) == [flag |-> flag, byte |-> byte]

(* An address byte for each half; the model's blocks are Depth bytes high. *)
Address(last) ==
  << Entry("start", Ctrl(chunk.addr)),
     Entry("tx", (chunk.addr % BlockLen) \div Depth),
     Entry(last, chunk.addr % Depth) >>

QueueAddress ==
  /\ Goto("address", "queue")
  /\ fmt' = fmt \o Address(IF call.op = "read" THEN "txStop" ELSE "tx")
  /\ UNCHANGED <<callVars, chunk, rx, enabled, dst, dev>>

QueueRead ==
  /\ Goto("queue", "receive") /\ call.op = "read"
  /\ fmt' = fmt \o << Entry("start", Ctrl(chunk.addr) + 1), Entry("rx", chunk.len) >>
  /\ enabled' = TRUE
  /\ UNCHANGED <<callVars, chunk, rx, dst, dev>>

(* Poll until the chunk has come in, then take it.                         *)
ReceivedSome == rx # <<>>
ReceivedMore == Len(rx) > chunk.len
Received     == Len(rx) >= chunk.len

Receive ==
  /\ Goto("receive", "cut")
  /\ Received
  /\ dst' = [a \in DOMAIN dst |->
               LET i == a - chunk.buf + 1
               IN  IF i \in DOMAIN rx \intersect (1 .. chunk.len) THEN rx[i] ELSE dst[a]]
  /\ rx'  = SubSeq(rx, chunk.len + 1, Len(rx))
  /\ UNCHANGED <<callVars, chunk, fmt, enabled, dev>>

(* Half of the FIFO's depth, then the last byte, without a stop; then what *)
(* is left of the length, from past the end of the chunk on.               *)
HalfWhole == Depth
Half      == Depth \div 2
Body == IF chunk.len - 1 < Half THEN chunk.len - 1 ELSE Half

QueueWrite ==
  /\ Goto("queue", IF chunk.len > Half THEN "wait" ELSE "cut") /\ call.op = "write"
  /\ fmt' = fmt \o [b \in 1 .. Body |-> Entry("tx", Src(chunk.buf + b - 1))] \o
              << Entry("tx", Src(chunk.buf + chunk.len - 1)) >>
  /\ enabled' = TRUE
  /\ chunk' = IF chunk.len > Half
                THEN [buf |-> chunk.buf + chunk.len, addr |-> chunk.addr + chunk.len,
                      len |-> chunk.len - Half]
                ELSE chunk
  /\ UNCHANGED <<callVars, rx, dst, dev>>

----------------------------------------------------------------------------
(* The controller works off an entry; the device takes part.  A page is   *)
(* programmed at a stop, and dropped at a start that comes instead.        *)

OnStart(d, byte) ==
  [d EXCEPT !.page = <<>>, !.bytes = IF byte % 2 = 0 THEN <<(byte \div 8) % 2>> ELSE @]

OnByte(d, byte) ==
  IF Len(d.bytes) < 3
    THEN LET bs == Append(d.bytes, byte)
         IN  [d EXCEPT !.bytes = bs,
                       !.ptr = IF Len(bs) = 3 THEN bs[1] * BlockLen + bs[2] * Depth + bs[3] ELSE @]
    ELSE [d EXCEPT !.page = Append(@, byte)]

OnStop(d) ==
  [d EXCEPT !.page = <<>>,
            !.mem = [a \in Cells |-> IF a - d.ptr \in 0 .. Len(d.page) - 1
                                       THEN d.page[a - d.ptr + 1] ELSE @[a]]]

(* The entry of a read stays until its last byte is in.                    *)
Step ==
  /\ enabled /\ fmt # <<>> /\ Head(fmt).flag # "rx"
  /\ fmt' = Tail(fmt)
  /\ dev' = LET e == Head(fmt)
            IN  CASE e.flag = "start"  -> OnStart(dev, e.byte)
                  [] e.flag = "tx"     -> OnByte(dev, e.byte)
                  [] e.flag = "txStop" -> OnStop(OnByte(dev, e.byte))
  /\ UNCHANGED <<pc, callVars, chunk, rx, enabled, dst>>

StepRead ==
  /\ enabled /\ fmt # <<>> /\ Head(fmt).flag = "rx"
  /\ rx'  = Append(rx, dev.mem[dev.ptr])
  /\ dev' = [dev EXCEPT !.ptr = (@ + 1) % (2 * BlockLen)]
  /\ fmt' = IF Head(fmt).byte = 1 THEN Tail(fmt)
                                  ELSE [fmt EXCEPT ![1].byte = @ - 1]
  /\ UNCHANGED <<pc, callVars, chunk, enabled, dst>>

Transfer == Step \/ StepRead

----------------------------------------------------------------------------
Driver ==
  CutFirst \/ CutNext \/ Return \/ Disable \/ QueueAddress \/ QueueRead \/ Receive \/ QueueWrite

Next == Call \/ Driver \/ Transfer
Spec == Init /\ [][Next]_vars

(* The hart runs, and the controller works while it is enabled.            *)
FairSpec == Spec /\ WF_vars(Driver) /\ WF_vars(Transfer)

----------------------------------------------------------------------------
(* Every variable keeps its type; in particular neither FIFO is ever asked *)
(* to hold more than its depth, as the waiting and the split into halves    *)
(* are for.                                                                 *)
TypeOK ==
  /\ pc \in {"idle", "cut", "wait", "address", "queue", "receive"}
  /\ chunk.len \in 1 .. Depth \/ calls = 0 \/ pc \in {"idle", "cut"}
  /\ Len(rx) <= Depth /\ Len(fmt) <= Depth
  /\ dev.ptr \in 0 .. 2 * BlockLen - 1

(* A read that has returned left in the caller's buffer what the device    *)
(* holds there, whatever the alignment, the length and the calls before;   *)
(* this is about the lower block, the only one that is reached.  It stores *)
(* nothing beyond its length but what fills the first FIFO unit: that much *)
(* the caller must own, and the boot ROM's 16-byte records do not          *)
(* (gpt.c:32).                                                             *)
ReadRight ==
  /\ pc = "idle" /\ call.op = "read" /\ call.addr + call.len <= BlockLen
       => \A j \in DOMAIN dst : j < call.len => dst[j] = dev.mem[call.addr + j]
  /\ \A j \in DOMAIN dst : dst[j] # Unset => j < call.len \/ (Misaligned /\ j < FirstLen)

(* Nothing goes out on the bus while a transfer is still being queued: the  *)
(* controller would run dry within it, the stall that disabling it is to    *)
(* prevent (line 52).                                                       *)
NoStall == [][Len(fmt') < Len(fmt) => pc \notin {"address", "queue"}]_vars

(* Every call returns: the controller always works off what is queued and   *)
(* the FIFO always receives what is waited for.                             *)
CallEnds == pc = "cut" ~> pc = "idle"

(* Of lines 55-56: "followed by block and chip selects.  We overflow        *)
(* addresses to that device's upper block first".  The device is addressed  *)
(* where the chunk is, in either block.  Violated.                          *)
BlockSelected == pc = "receive" /\ rx # <<>> => dev.ptr - Len(rx) = chunk.addr

=============================================================================
