------------------------------- MODULE SdCard -------------------------------
(***************************************************************************)
(* The SD card driver (sw/lib/hal/spi_sdcard.c) and the card behind its    *)
(* SPI port.  The driver is called to initialise the card, to read bytes   *)
(* at any alignment, and to write whole blocks; it talks to the card in    *)
(* commands, polled response bytes, tokens and data blocks.                *)
(*                                                                         *)
(* The byte at device address a is identified with a, so a caller's buffer *)
(* shows from where on the disk each of its bytes came.  CRC16 detects     *)
(* every damaged block.                                                    *)
(***************************************************************************)
EXTENDS Integers

CONSTANTS
  BlockLen,    (* Bytes in a block: 512.                                    *)
  Depth,       (* Bytes the receive FIFO holds: 4 * SPI_HOST_PARAM_RX_DEPTH.*)
  CmdPolls,    (* Polls for a response: 8.                                  *)
  BusyPolls,   (* __spi_sdcard_r1b_timeout                                  *)
  TokenPolls,  (* __spi_sdcard_data_timeout                                 *)
  Requests,    (* The calls callers make: [op, addr, len] records.          *)
  MaxCalls,    (* Bound on the calls of a behaviour.                        *)
  MaxNaps,     (* Bound on the ACMD41 a card answers before it is ready.    *)
  MaxSpan,     (* Bound on what is looked at of buffer and disk.            *)
  Masks,       (* What 1 << 40 in int arithmetic can leave of the mask.     *)
  Faults       (* What cards do wrong: a subset of FaultKinds.              *)

FaultKinds == {"reject", "token", "crc", "resp", "noecho", "fast"}

ASSUME PollAssumption   == {CmdPolls, BusyPolls, TokenPolls} \subseteq Nat \ {0}
ASSUME BlockAssumption  == BlockLen \in Nat \ {0} /\ Depth \in Nat \ {0}
ASSUME BoundAssumption  == {MaxSpan, MaxCalls, MaxNaps} \subseteq Nat
ASSUME FaultAssumption  == Faults \subseteq FaultKinds /\ Masks \subseteq {"r1", "all"}
ASSUME RequestAssumption ==      (* An "init" has no length: its 1 stands for work to do. *)
  /\ Requests \subseteq [op : {"init", "read", "write"}, addr : Nat, len : Nat]
  /\ \A r \in Requests : r.op = "init" => r.len = 1

Free  == 255    (* A byte of the idle line.                                 *)
Token == 254    (* Start of a data block.                                   *)
Unset == -1     (* A byte of the buffer no one has written.                 *)
Noise == -2     (* A damaged block, and each byte of it.                    *)

VARIABLES
  pc, call, calls, ret,
  cmd,     (* The command in progress.                                      *)
  left,    (* timeout: polls left.                                          *)
  rx,      (* The byte polled last.                                         *)
  b,       (* Index of the block in transfer.                               *)
  offs,    (* Bytes of the block received so far.                           *)
  got,     (* The block that comes in: its number, or Noise.                *)
  dst,     (* The caller's buffer and its surroundings, by offset.          *)
  cs,      (* Our chip select is asserted.                                  *)
  card,
  disk,    (* By block: the index in its source of what was written, Unset. *)
  quiet    (* The card was quiet when the call began.                       *)

driver == <<call, calls, cmd, b, offs, got>>
vars   == <<pc, ret, left, rx, dst, cs, card, disk, quiet, driver>>

----------------------------------------------------------------------------
(* __spi_sdcard_read: how a request falls into blocks.                     *)
FirstOffs == call.addr % BlockLen
PteOffs   == (call.addr + call.len) % BlockLen
LastLenRaw == PteOffs
LastLen   == IF PteOffs = 0 THEN BlockLen ELSE PteOffs
Blocks    == IF call.op = "read" THEN (call.len + FirstOffs + BlockLen - 1) \div BlockLen
                                 ELSE call.len
Block     == IF call.op = "read" THEN call.addr \div BlockLen ELSE call.addr

Offsets == -BlockLen .. MaxSpan

Quiet(c) == c.mode \in {"off", "idle", "ready"} /\ ~c.busy /\ c.owes = Unset

Init ==
  /\ pc = "down" /\ ret = "none"
  /\ call = [op |-> "init", addr |-> 0, len |-> 1] /\ calls = 0
  /\ cmd = "none" /\ left = 0 /\ rx = Free /\ b = 0 /\ offs = 0 /\ got = Noise
  /\ dst  = [i \in Offsets |-> Unset]
  /\ cs   = FALSE
  /\ card = [mode |-> "off", owes |-> Unset, busy |-> FALSE, many |-> FALSE,
             next |-> 0, naps |-> 0, echo |-> FALSE, len |-> 0]
  /\ disk = [n \in 0 .. MaxSpan |-> Unset]
  /\ quiet = TRUE

Goto(from, to) == pc = from /\ pc' = to

Return(r) ==
  /\ ret' = r
  /\ pc'  = IF call.op = "init" /\ r # "ok" THEN "down" ELSE "idle"

First(op) == IF op = "init" THEN "CMD0" ELSE op

(* A caller initialises the card before it uses it, and may go on using it *)
(* after an error: the zero-stage loader does.                             *)
Call ==
  /\ calls < MaxCalls
  /\ calls' = calls + 1
  /\ \E r \in Requests :
       /\ pc = "idle" \/ (pc = "down" /\ r.op = "init")
       /\ call' = r
       /\ IF r.len = 0 THEN pc' = pc /\ ret' = "ok" ELSE pc' = "send" /\ ret' = "none"
       /\ cmd' = First(r.op)
  /\ b'     = 0
  /\ dst'   = [i \in Offsets |-> Unset]
  /\ disk'  = [n \in DOMAIN disk |-> Unset]
  /\ quiet' = Quiet(card)
  /\ UNCHANGED <<left, rx, offs, got, cs, card>>

----------------------------------------------------------------------------
(* The card.                                                               *)

Owing(c, r1) == [c EXCEPT !.owes = r1]
May(fault, S) == IF fault \in Faults THEN S ELSE {}

(* The states a command can leave the card in.  A card that is busy hears  *)
(* nothing, one that waits for blocks only CMD0 and the stop token, and    *)
(* one that is sending blocks only CMD0 and CMD12.                         *)
Hears(c) ==
  IF \/ c.busy \/ cmd = "none"
     \/ c.mode = "recv" /\ cmd \notin {"CMD0", "stop"}
    THEN {c}
  ELSE IF c.mode \in {"stream", "stale"} /\ cmd \notin {"CMD0", "CMD12"}
    THEN {[c EXCEPT !.mode = "stale"]}
  ELSE CASE cmd = "CMD0"   -> {[Owing(c, 1) EXCEPT !.mode = "idle", !.naps = 0]}
         [] cmd = "CMD8"   -> {[Owing(c, 1) EXCEPT !.echo = TRUE]}
                              \union May("noecho", {[Owing(c, 1) EXCEPT !.echo = FALSE]})
         [] cmd = "CMD55"  -> {Owing(c, 1)}
         [] cmd = "ACMD41" -> {[Owing(c, 0) EXCEPT !.mode = "ready"]} \union
                              (IF c.naps < MaxNaps
                                 THEN {[Owing(c, 1) EXCEPT !.naps = @ + 1]} ELSE {})
         [] cmd = "CMD58"  -> {Owing(c, 0)}
         [] cmd = "CMD16"  -> {[Owing(c, 0) EXCEPT !.len = BlockLen]}
                              \union May("reject", {Owing(c, 64)})
         [] cmd = "CMD12"  -> {[Owing(c, 0) EXCEPT !.mode = "ready", !.busy = TRUE]}
         [] cmd = "stop"   -> {[c EXCEPT !.mode = "ready", !.busy = TRUE]}
                              \union May("fast", {[c EXCEPT !.mode = "ready"]})
         [] cmd \in {"read", "write"} ->
              {[Owing(c, 0) EXCEPT !.mode = IF cmd = "read" THEN "stream" ELSE "recv",
                                   !.many = Blocks > 1, !.next = Block]}
              \union May("reject", {Owing(c, 64)})

(* The next byte of the card, and what it makes of the card.  A card may   *)
(* take its time over a response, being busy and a token.  Out of step     *)
(* with it, the driver takes data for bytes of the protocol.               *)
Says(byte, c) == [byte |-> byte, card |-> c]
Bytes(c) ==
  IF c.owes # Unset
    THEN {Says(Free, c), Says(c.owes, Owing(c, Unset))}
  ELSE IF c.busy
    THEN {Says(0, c), Says(Free, [c EXCEPT !.busy = FALSE])}
  ELSE CASE c.mode = "stream" -> {Says(Free, c), Says(Token, c)} \union
                                 May("token", {Says(8, [c EXCEPT !.mode = "ready"])})
         [] c.mode = "stale"  -> {Says(Free, c), Says(Token, c), Says(0, c)}
         [] OTHER             -> {Says(Free, c)}

(* What the card says to a data block: accepted, CRC error or write error. *)
Refused(c) == [c EXCEPT !.mode = IF c.many THEN @ ELSE "ready"]
DataResponse(c) ==
  CASE c.mode = "recv" ->
         {Says(229, [c EXCEPT !.busy = TRUE])}
         \union May("fast", {Says(229, c)})
         \union May("resp", {Says(235, Refused(c)), Says(237, Refused(c))})
    [] c.mode = "stale" -> {Says(Free, c), Says(229, c)}
    [] OTHER            -> {Says(IF c.busy THEN 0 ELSE Free, c)}

----------------------------------------------------------------------------
(* __spi_sdcard_cmd.                                                       *)

WithBusyWritten == {"none"}
WithBusy == {"CMD12", "stop", "none"}
Msb(byte) == byte >= 128

(* Send the command; CMD0 follows ten bytes of dummy cycles.  "none" only  *)
(* polls.                                                                  *)
Send ==
  /\ Goto("send", IF cmd = "CMD12" THEN "stuff" ELSE "poll")
  /\ cs'    = TRUE
  /\ card'  \in Hears(card)
  /\ left'  = CmdPolls
  /\ UNCHANGED <<driver, ret, rx, dst, disk, quiet>>

(* The byte after CMD12 belongs to no response.                            *)
DropStuff ==
  /\ Goto("stuff", "poll")
  /\ rx' \in {0, Free}
  /\ UNCHANGED <<driver, ret, left, dst, cs, card, disk, quiet>>

PollForever(to) ==
  \E s \in Bytes(card) : rx' = s.byte /\ card' = s.card /\ left' = left /\ to
PollOnce(to) ==
  \E s \in Bytes(card) : rx' = s.byte /\ card' = s.card /\ left' = left - 1 /\ to

(* Poll for a response until CmdPolls bytes have come in.                  *)
Poll ==
  /\ pc = "poll"
  /\ PollOnce(IF left' = 0 THEN Return("0x12")
              ELSE /\ pc' = IF Msb(rx') THEN "poll"
                            ELSE IF cmd \in WithBusy THEN "startBusy" ELSE "answered"
                   /\ ret' = ret)
  /\ UNCHANGED <<driver, dst, cs, disk, quiet>>

StartBusy ==
  /\ Goto("startBusy", "busy")
  /\ left' = BusyPolls
  /\ UNCHANGED <<driver, ret, rx, dst, cs, card, disk, quiet>>

PollBusy ==
  /\ pc = "busy"
  /\ PollOnce(IF left' = 0 THEN Return("0x13")
              ELSE pc' = (IF rx' = 0 THEN "busy" ELSE "answered") /\ ret' = ret)
  /\ UNCHANGED <<driver, dst, cs, disk, quiet>>

(* Release the chip select, unless data follows the response.              *)
Answered ==
  /\ Goto("answered", CASE cmd = "read"  -> "startToken"
                        [] cmd = "write" -> "data"
                        [] cmd = "none"  -> "written"
                        [] OTHER         -> "released")
  /\ cs' = (cmd \in {"read", "write", "none"})
  /\ UNCHANGED <<driver, ret, left, rx, dst, card, disk, quiet>>

----------------------------------------------------------------------------
(* __spi_sdcard_activate and the cmd_check calls in it.                    *)

InitStep(from, to) ==
  /\ call.op = "init" /\ pc = "released"
  /\ cmd = from /\ cmd' = to
  /\ UNCHANGED <<call, calls, left, rx, b, offs, got, dst, cs, card, disk, quiet>>

Proceed == pc' = "send" /\ ret' = ret

(* The mismatching value is the return value: a response of 0 passes.      *)
AfterCmd0 ==
  /\ InitStep("CMD0", "CMD8")
  /\ IF rx \in {0, 1} THEN Proceed ELSE Return("mismatch")

(* The mask of a five-byte response is built from 1 << 40 in int.  If all  *)
(* of it survives, so do the three bytes of buf that nothing has written.  *)
AfterCmd8 ==
  /\ InitStep("CMD8", "CMD55")
  /\ \E mask \in Masks, buf \in {"zero", "dirty"} :
       IF mask = "r1" THEN IF rx \in {0, 1} THEN Proceed ELSE Return("mismatch")
       ELSE IF rx = 1 /\ card.echo /\ buf = "zero" THEN Proceed ELSE Return("mismatch")

AfterCmd55 == InitStep("CMD55", "ACMD41") /\ Proceed

AfterAcmd41 ==
  InitStep("ACMD41", IF rx # 0 THEN "CMD55" ELSE "CMD58") /\ Proceed

AfterCmd58 == InitStep("CMD58", "CMD16") /\ Proceed

AfterCmd16 ==
  /\ InitStep("CMD16", "none")
  /\ Return(IF rx = 0 THEN "ok" ELSE "mismatch")

Activate ==
  AfterCmd0 \/ AfterCmd8 \/ AfterCmd55 \/ AfterAcmd41 \/ AfterCmd58 \/ AfterCmd16

----------------------------------------------------------------------------
(* __spi_sdcard_read_blocks.                                               *)

StartToken ==
  /\ Goto("startToken", "token")
  /\ left' = TokenPolls
  /\ UNCHANGED <<driver, ret, rx, dst, cs, card, disk, quiet>>

PollToken ==
  /\ pc = "token"
  /\ PollOnce(IF left' = 0 THEN Return("0x19")
              ELSE IF rx' \notin {Free, Token} THEN Return("0x20")
              ELSE pc' = (IF rx' = Free THEN "token" ELSE "block") /\ ret' = ret)
  /\ offs' = 0
  /\ got' \in IF pc' # "block" THEN {got} ELSE {card.next} \union
       (IF card.mode = "stale" \/ "crc" \in Faults THEN {Noise} ELSE {})
  /\ UNCHANGED <<call, calls, cmd, b, dst, cs, disk, quiet>>

FirstPart == b = 0 /\ FirstOffs # 0
LastPart  == b = Blocks - 1 /\ LastLen # BlockLen

(* Where byte j of the block in transfer belongs, and what it is.          *)
Place(j) == BlockLen * b + j - FirstOffs
Byte(j)  == IF got = Noise THEN Noise ELSE BlockLen * got + j

(* dst once bytes from .. to-1 of the block are in the caller's buffer.    *)
Stored(from, to) ==
  [i \in Offsets |-> IF \E j \in from .. to - 1 : Place(j) = i
                       THEN Byte(i + FirstOffs - BlockLen * b) ELSE dst[i]]

ChunkEnd == IF offs + Depth <= BlockLen THEN offs + Depth ELSE BlockLen

(* One FIFO of data, into the swap buffer or where it belongs.             *)
ReadChunk ==
  /\ Goto("block", IF ChunkEnd = BlockLen THEN "crc" ELSE "block")
  /\ offs' = ChunkEnd
  /\ dst'  = IF FirstPart \/ LastPart THEN dst ELSE Stored(offs, ChunkEnd)
  /\ UNCHANGED <<ret, left, rx, cs, card, disk, quiet, call, calls, cmd, b, got>>

Swap ==
  IF FirstPart /\ LastPart THEN Stored(FirstOffs, LastLen)
  ELSE IF FirstPart        THEN Stored(FirstOffs, BlockLen)
  ELSE IF LastPart         THEN Stored(0, LastLen)
  ELSE dst

(* The loops over the blocks of a transfer: go on with the next one, or    *)
(* end a multi-block transfer with its stop command, or free the bus.      *)
MoreLess == b + 2 < Blocks
More     == b + 1 < Blocks

EndBlock(again, stop) ==
  /\ b'   = b + 1
  /\ cmd' = IF More \/ Blocks = 1 THEN call.op ELSE stop
  /\ pc'  = IF More THEN again ELSE IF Blocks = 1 THEN "released" ELSE "send"
  /\ cs'  = (More \/ Blocks > 1)
  /\ ret' = ret

(* The card ends a single-block transfer by itself.                        *)
Advance(c) ==
  [c EXCEPT !.next = @ + 1, !.mode = IF c.many THEN @ ELSE "ready"]

CheckCrc ==
  /\ pc = "crc"
  /\ card' = Advance(card)
  /\ IF got = Noise
       THEN Return("0x21") /\ UNCHANGED <<dst, b, cmd, cs>>
       ELSE dst' = Swap /\ EndBlock("startToken", "CMD12")
  /\ UNCHANGED <<left, rx, disk, quiet, call, calls, offs, got>>

----------------------------------------------------------------------------
(* spi_sdcard_write_blocks.                                                *)

(* Token, data, CRC16, and the response to them, due in the very next byte.*)
WriteBlock ==
  /\ pc = "data"
  /\ \E s \in DataResponse(card) :
       /\ rx' = s.byte
       /\ IF s.byte = 229 /\ card.mode = "recv"
            THEN disk' = [disk EXCEPT ![card.next] = b] /\ card' = Advance(s.card)
            ELSE disk' = disk /\ card' = s.card
       /\ IF s.byte % 32 = 5 THEN pc' = "send" /\ cmd' = "none" /\ ret' = ret
                             ELSE Return("0x22") /\ cmd' = cmd
  /\ UNCHANGED <<call, calls, b, offs, got, left, dst, cs, quiet>>

NextBlock ==
  /\ pc = "written"
  /\ EndBlock("data", "stop")
  /\ UNCHANGED <<call, calls, left, rx, offs, got, dst, card, disk, quiet>>

(* The chip select is free: the read or write has succeeded.               *)
Done ==
  /\ pc = "released" /\ call.op # "init"
  /\ Return("ok")
  /\ UNCHANGED <<driver, left, rx, dst, cs, card, disk, quiet>>

Driver ==
  \/ Send \/ DropStuff \/ Poll \/ StartBusy \/ PollBusy \/ Answered
  \/ Activate
  \/ StartToken \/ PollToken \/ ReadChunk \/ CheckCrc
  \/ WriteBlock \/ NextBlock \/ Done

Next     == Call \/ Driver
Spec     == Init /\ [][Next]_vars
FairSpec == Spec /\ WF_vars(Driver)
----------------------------------------------------------------------------
(* A read that returns 0 has filled the caller's buffer with exactly the   *)
(* bytes it asked for, whatever its alignment, however many blocks they    *)
(* lie in, and whatever went wrong on the way.  This is promised only of   *)
(* calls that begin with a quiet card; but no read, not even one that      *)
(* fails, ever stores outside the bytes its caller asked for.              *)
ReadRight ==
  call.op = "read" =>
    /\ pc = "idle" /\ ret = "ok" /\ quiet =>
         \A i \in Offsets : i \in 0 .. call.len - 1 => dst[i] = call.addr + i
    /\ \A i \in Offsets : dst[i] # Unset => i \in 0 .. call.len - 1

(* A call that returns 0 leaves the card ready for the next command, its   *)
(* transfer closed, its busy time over and the bus released; the first one *)
(* has brought it out of the idle state and set its block length.          *)
QuietAfterSuccess ==
  pc = "idle" /\ ret = "ok" /\ quiet =>
    /\ call.len > 0 => Quiet(card) /\ ~cs
    /\ call.op = "init" => card.mode = "ready" /\ card.len = BlockLen

(* A write that returns 0 has put every block of its source in its place   *)
(* on the disk, and nothing anywhere else.                                 *)
WriteWhole ==
  pc = "idle" /\ call.op = "write" /\ ret = "ok" /\ quiet =>
    \A n \in DOMAIN disk :
      disk[n] = IF n \in Block .. Block + call.len - 1 THEN n - Block ELSE Unset

(* Every call comes back, whatever the card says, if ACMD41 has its way in *)
(* the end: all other loops count down.                                    *)
CallEnds == (pc \notin {"idle", "down"}) ~> (pc \in {"idle", "down"})

=============================================================================
