----------------------------- MODULE UartDebug -----------------------------
(***************************************************************************)
(* The debug server of the boot ROM (sw/lib/hal/uart_debug.c, over         *)
(* sw/lib/dif/uart.c) and the host that preloads and runs a program with   *)
(* it (uart_debug_elf_run_and_wait of target/sim/src/vip_cheshire_soc.sv). *)
(*                                                                         *)
(* Everything is a byte on the line: opcodes, the digits of addresses and  *)
(* lengths, data, acknowledgements, and what the program prints.  A byte   *)
(* does not say what it is; both sides know only by counting.              *)
(*                                                                         *)
(* Three assumptions on time.  The host's initial wait lasts until the ROM *)
(* polls.  The hart takes bytes faster than the line delivers them, so its *)
(* receive FIFO does not overflow.  The host is ready for an answer before *)
(* the first byte of it has come in, since the tasks of the test bench     *)
(* take no time between two bytes.                                         *)
(***************************************************************************)
EXTENDS Integers, Sequences

CONSTANTS
  Base,         (* Values of a byte: 256.                                   *)
  WordBytes,    (* Bytes of an address or a length: 8.                      *)
  CodeBytes,    (* Bytes of a return code: 4.                               *)
  Weight,       (* Of each digit: Base to the power of its position.        *)
  Read, Write, Exec, Ack, Eot, Eoc,    (* uart_debug_opcode_t               *)
  Burst,        (* UartBurstBytes: what the host writes with one command.   *)
  Images,       (* Programs: sequences of sections, each [addr, bytes].     *)
  Entry,        (* Its entry point.                                         *)
  ReadBacks,    (* What the host may read before it starts it: [addr, len]. *)
  MaxReads,     (* Bound on the number of reads.                            *)
  Memory,       (* Addresses.                                               *)
  Prints,       (* Bytes the program prints.                                *)
  MaxPrints,    (* Bound on their number.                                   *)
  Codes,        (* What it returns.                                         *)
  RxDepth       (* Bytes the receive FIFO holds.                            *)

Bytes   == 0 .. Base - 1
Opcodes == <<Read, Write, Exec, Ack, Eot, Eoc>>

ASSUME OpcodeAssumption ==
  /\ \A a \in 1 .. 6 : Opcodes[a] \in Bytes
  /\ \A a, b \in 1 .. 6 : a # b => Opcodes[a] # Opcodes[b]
ASSUME SizeAssumption ==
  /\ {Base, WordBytes, CodeBytes, Burst, RxDepth} \subseteq Nat \ {0} /\ CodeBytes <= WordBytes
  /\ {MaxReads, MaxPrints} \subseteq Nat
ASSUME WeightAssumption ==
  /\ Weight \in [0 .. WordBytes -> Nat \ {0}] /\ Weight[0] = 1
  /\ \A d \in 1 .. WordBytes : Weight[d] = Base * Weight[d - 1]

Words == 0 .. Weight[WordBytes] - 1

ASSUME ProgramAssumption ==
  /\ Codes \subseteq 0 .. Weight[CodeBytes] - 1
  /\ Entry \in Words /\ Prints \subseteq Bytes

(* The sections of a program are disjoint, and what is read is in memory.  *)
Holds(s, a) == a - s.addr \in 0 .. Len(s.bytes) - 1
At(s, a)    == s.bytes[a - s.addr + 1]
ASSUME ImageAssumption ==
  /\ Memory \subseteq Nat /\ Images \subseteq Seq([addr : Nat, bytes : Seq(Bytes)])
  /\ \A im \in Images : \A s, t \in 1 .. Len(im) :
       /\ im[s].addr + Len(im[s].bytes) \in Words
       /\ \A a \in Memory : Holds(im[s], a) /\ Holds(im[t], a) => s = t
ASSUME ReadBackAssumption ==
  /\ ReadBacks \subseteq [addr : Words, len : Words]
  /\ \A r \in ReadBacks : r.addr .. r.addr + r.len - 1 \subseteq Memory

VARIABLES
  pc,     (* Where the hart is.                                             *)
  srv,    (* The server's command and its progress: cmd, addr, len, n.      *)
  mem,
  code,   (* What the program, or the server, returns; None before that.    *)
  prints, (* Bytes printed.                                                 *)
  rx,     (* The hart's receive FIFO.                                       *)
  thr,    (* Its transmit holding register.                                 *)
  shift,  (* The byte on the line to the host.                              *)
  image,  (* The host's program.                                            *)
  host,   (* Where the host is.                                             *)
  req,    (* Its request: op, addr, and the bytes to write or their number. *)
  todo,   (* Section and offset to preload next, and reads left.            *)
  k,      (* Bytes sent or received in this phase.                          *)
  data,   (* Bytes it has read.                                             *)
  eoc,    (* uart_boot_eoc                                                  *)
  exit    (* exit_code                                                      *)

None == -1

progVars == <<mem, code, prints>>
hostVars == <<image, host, req, todo, k, data, eoc, exit>>
vars     == <<pc, srv, progVars, rx, thr, shift, hostVars>>

Digit(v, d)   == (v \div Weight[d]) % Base
Idle          == [cmd |-> Ack, addr |-> 0, len |-> 0, n |-> 0]

Init ==
  /\ pc = "init" /\ srv = Idle
  /\ mem = [a \in Memory |-> 0] /\ code = None /\ prints = 0
  /\ rx = <<>> /\ thr = None /\ shift = None
  /\ image \in Images
  /\ host = "settle" /\ req = [op |-> Ack, addr |-> 0, len |-> 0, bytes |-> <<>>]
  /\ todo = [sec |-> 1, offs |-> 0, reads |-> MaxReads]
  /\ k = 0 /\ data = <<>> /\ eoc = FALSE /\ exit = 0

----------------------------------------------------------------------------
(* The hart's UART.                                                        *)

Goto(from, to) == pc = from /\ pc' = to

(* uart_write: wait until the holding register is empty.                   *)
Put(byte) ==
  /\ thr = None
  /\ IF shift = None THEN shift' = byte /\ thr' = None ELSE thr' = byte /\ shift' = shift
  /\ UNCHANGED <<rx, hostVars>>

(* uart_read: wait until there is a byte.                                  *)
Take(byte) ==
  /\ rx # <<>> /\ byte = Head(rx) /\ rx' = Tail(rx)
  /\ UNCHANGED <<thr, shift, hostVars>>

(* uart_init clears both FIFOs; the byte on the line goes out.             *)
ClearFifos == rx' = <<>> /\ thr' = None /\ UNCHANGED <<shift, hostVars>>

----------------------------------------------------------------------------
(* boot_passive's poll loop, and uart_debug_serve.                         *)

InitUart ==
  /\ Goto("init", "check")
  /\ ClearFifos
  /\ UNCHANGED <<srv, progVars>>

CheckUart ==
  /\ \E byte \in Bytes : Take(byte) /\ Goto("check", IF byte = Ack THEN "hello" ELSE "check")
  /\ UNCHANGED <<srv, progVars>>

SayHello ==
  /\ Goto("hello", "cmd")
  /\ Put(Ack)
  /\ UNCHANGED <<srv, progVars>>

(* A byte that is no command ends the session.                             *)
TakeCmd ==
  /\ \E byte \in Bytes :
       /\ Take(byte)
       /\ srv' = [Idle EXCEPT !.cmd = byte]
       /\ IF byte \in {Read, Write, Exec} THEN Goto("cmd", "addr") /\ code' = code
                                          ELSE Goto("cmd", "returned") /\ code' = 1
  /\ UNCHANGED <<mem, prints>>

(* Digits come least significant first.                                    *)
Last     == srv.n + 1 = WordBytes
WithDigit(v, byte) == v + byte * Weight[srv.n]

TakeAddr ==
  /\ Goto("addr", IF ~Last THEN "addr" ELSE IF srv.cmd = Exec THEN "accept" ELSE "len")
  /\ \E byte \in Bytes :
       /\ Take(byte)
       /\ srv' = [srv EXCEPT !.addr = WithDigit(srv.addr, byte), !.n = IF Last THEN 0 ELSE @ + 1]
  /\ UNCHANGED progVars

TakeLen ==
  /\ Goto("len", IF Last THEN "accept" ELSE "len")
  /\ \E byte \in Bytes :
       /\ Take(byte)
       /\ srv' = [srv EXCEPT !.len = WithDigit(srv.len, byte), !.n = IF Last THEN 0 ELSE @ + 1]
  /\ UNCHANGED progVars

Accept ==
  /\ Goto("accept", IF srv.cmd = Exec THEN "start" ELSE "transfer")
  /\ Put(Ack)
  /\ UNCHANGED <<srv, progVars>>

(* uart_write_str and uart_read_str: len bytes from or to addr.            *)
MoreLoose == srv.n <= srv.len
MoreShort == srv.n + 1 < srv.len
More      == srv.n < srv.len

FirstCell == srv.addr
Cell      == srv.addr + srv.n

SendData ==
  /\ Goto("transfer", "transfer") /\ srv.cmd = Read /\ More
  /\ Put(mem[Cell])
  /\ srv' = [srv EXCEPT !.n = @ + 1]
  /\ UNCHANGED progVars

StoreData ==
  /\ Goto("transfer", "transfer") /\ srv.cmd = Write /\ More
  /\ \E byte \in Bytes : Take(byte) /\ mem' = [mem EXCEPT ![Cell] = byte]
  /\ srv' = [srv EXCEPT !.n = @ + 1]
  /\ UNCHANGED <<code, prints>>

SendEot ==
  /\ Goto("transfer", "cmd") /\ ~More
  /\ Put(Eot)
  /\ UNCHANGED <<srv, progVars>>

----------------------------------------------------------------------------
(* The program: it may set up the UART for itself, prints, and returns     *)
(* without waiting for what it has printed to go out.                      *)

ProgramSetsUp ==
  /\ Goto("start", "program")
  /\ ClearFifos
  /\ UNCHANGED <<srv, progVars>>

ProgramPrints ==
  /\ pc \in {"start", "program"} /\ pc' = "program"
  /\ prints < MaxPrints /\ prints' = prints + 1
  /\ \E byte \in Prints : Put(byte)
  /\ UNCHANGED <<srv, mem, code>>

ProgramReturns ==
  /\ pc \in {"start", "program"} /\ pc' = "eoc"
  /\ code' \in Codes
  /\ UNCHANGED <<srv, mem, prints, rx, thr, shift, hostVars>>

SendEoc ==
  /\ Goto("eoc", "ret")
  /\ Put(Eoc)
  /\ srv' = [srv EXCEPT !.n = 0]
  /\ UNCHANGED progVars

CodeDigitMsb == CodeBytes - 1 - srv.n
CodeDigit    == srv.n

SendCode ==
  /\ Goto("ret", IF srv.n + 1 < CodeBytes THEN "ret" ELSE "returned")
  /\ Put(Digit(code, CodeDigit))
  /\ srv' = [srv EXCEPT !.n = @ + 1]
  /\ UNCHANGED progVars

----------------------------------------------------------------------------
(* The host: uart_debug_elf_run_and_wait, uart_debug_elf_preload, and      *)
(* uart_debug_rw.                                                          *)

HostGoto(from, to) == host = from /\ host' = to

(* uart_write_byte                                                         *)
Send(byte) ==
  /\ Len(rx) < RxDepth
  /\ rx' = Append(rx, byte)
  /\ UNCHANGED <<pc, srv, progVars, thr, shift, image, todo, data, eoc, exit>>

Challenge ==
  /\ HostGoto("settle", "hello")
  /\ pc # "init"
  /\ Send(Ack)
  /\ UNCHANGED <<req, k>>

Request(op, addr, len, bytes) ==
  /\ HostGoto("next", "op")
  /\ req' = [op |-> op, addr |-> addr, len |-> len, bytes |-> bytes]
  /\ k' = 0 /\ data' = <<>>
  /\ UNCHANGED <<pc, srv, progVars, rx, thr, shift, image, eoc, exit>>

(* The loop over a section runs up to its length inclusive: a section of   *)
(* whole bursts ends with a write of no bytes.                             *)
BlockEnd(offs, size) == IF offs + Burst < size THEN offs + Burst ELSE size

BlockLeft(offs, size)  == offs <= size

NextBlock ==
  /\ todo.sec <= Len(image)
  /\ LET s    == image[todo.sec]
         size == Len(s.bytes)
         to   == BlockEnd(todo.offs, size)
     IN  IF BlockLeft(todo.offs, size)
           THEN /\ Request(Write, s.addr + todo.offs, to - todo.offs,
                           SubSeq(s.bytes, todo.offs + 1, to))
                /\ todo' = [todo EXCEPT !.offs = @ + Burst]
           ELSE /\ host = "next"
                /\ todo' = [todo EXCEPT !.sec = @ + 1, !.offs = 0]
                /\ UNCHANGED <<pc, srv, progVars, rx, thr, shift, image, host, req, k, data, eoc, exit>>

NextReadBack ==
  /\ todo.sec > Len(image) /\ todo.reads > 0
  /\ \E r \in ReadBacks : Request(Read, r.addr, r.len, <<>>)
  /\ todo' = [todo EXCEPT !.reads = @ - 1]

NextExec ==
  /\ todo.sec > Len(image)
  /\ Request(Exec, Entry, 0, <<>>)
  /\ UNCHANGED todo

SendOp ==
  /\ HostGoto("op", "addr")
  /\ Send(req.op)
  /\ UNCHANGED <<req, k>>

SendAddr ==
  /\ HostGoto("addr", IF k + 1 < WordBytes THEN "addr" ELSE IF req.op = Exec THEN "ack" ELSE "len")
  /\ Send(Digit(req.addr, k))
  /\ k' = (k + 1) % WordBytes
  /\ UNCHANGED req

SendLen ==
  /\ HostGoto("len", IF k + 1 < WordBytes THEN "len" ELSE "ack")
  /\ Send(Digit(req.len, k))
  /\ k' = (k + 1) % WordBytes
  /\ UNCHANGED req

SendBytes ==
  /\ HostGoto("send", IF k + 1 < req.len THEN "send" ELSE "eot")
  /\ Send(req.bytes[k + 1])
  /\ k' = k + 1
  /\ UNCHANGED req

----------------------------------------------------------------------------
(* The host's reader hands the byte that has come in to the task that      *)
(* scoops, and otherwise prints it, unless it is EOC.                      *)

Scooped(byte) ==
  /\ shift = byte /\ shift' = thr /\ thr' = None
  /\ UNCHANGED <<pc, srv, progVars, rx, image, req, todo>>

Expect(exp, byte, to) == host' = IF byte = exp THEN to ELSE "fatal"

AfterAck ==
  IF req.op = Exec THEN "running"
  ELSE IF req.len = 0 THEN "eot"
  ELSE IF req.op = Read THEN "receive" ELSE "send"

ScoopMark ==
  /\ \E byte \in Bytes :
       /\ Scooped(byte)
       /\ \/ host = "hello" /\ Expect(Ack, byte, "next")
          \/ host = "ack"   /\ Expect(Ack, byte, AfterAck)
          \/ host = "eot"   /\ Expect(Eot, byte, "next")
  /\ k' = 0
  /\ UNCHANGED <<data, eoc, exit>>

ScoopData ==
  /\ HostGoto("receive", IF k + 1 < req.len THEN "receive" ELSE "eot")
  /\ \E byte \in Bytes : Scooped(byte) /\ data' = Append(data, byte)
  /\ k' = k + 1
  /\ UNCHANGED <<eoc, exit>>

ScoopCode ==
  /\ HostGoto("code", IF k + 1 < CodeBytes THEN "code" ELSE "done")
  /\ \E byte \in Bytes : Scooped(byte) /\ exit' = exit + byte * Weight[k]
  /\ k' = k + 1
  /\ UNCHANGED <<data, eoc>>

Scooping == {"hello", "ack", "receive", "eot", "code"}

PrintLine ==
  /\ host \notin Scooping /\ ~(host = "running" /\ eoc)
  /\ \E byte \in Bytes : Scooped(byte) /\ eoc' = (eoc \/ byte = Eoc)
  /\ UNCHANGED <<host, k, data, exit>>

SeeEoc ==
  /\ HostGoto("running", "code") /\ eoc
  /\ eoc' = FALSE /\ k' = 0
  /\ UNCHANGED <<pc, srv, progVars, rx, thr, shift, image, req, todo, data, exit>>

----------------------------------------------------------------------------
Hart ==
  \/ InitUart \/ CheckUart \/ SayHello
  \/ TakeCmd \/ TakeAddr \/ TakeLen \/ Accept
  \/ SendData \/ StoreData \/ SendEot
  \/ ProgramSetsUp \/ ProgramPrints \/ ProgramReturns \/ SendEoc \/ SendCode

Host ==
  \/ Challenge \/ NextBlock \/ NextReadBack \/ NextExec
  \/ SendOp \/ SendAddr \/ SendLen \/ SendBytes
  \/ ScoopMark \/ ScoopData \/ ScoopCode \/ PrintLine \/ SeeEoc

Next == Hart \/ Host
Spec == Init /\ [][Next]_vars

----------------------------------------------------------------------------
(* No answer is ever taken for another: each byte the host scoops as a     *)
(* mark is the one it expects, although data, digits and codes may look    *)
(* like marks, and marks like them.                                        *)
NeverFatal == host # "fatal"

(* Memory holds the blocks written so far, each at its address, zeroes     *)
(* elsewhere, and of a block in transfer nothing but its own bytes; what a *)
(* read brings is what memory holds; and the program starts at its entry   *)
(* point with all of its image in place.                                   *)
InTransfer(a) ==
  /\ host \in {"op", "addr", "len", "ack", "send", "eot"}
  /\ req.op = Write /\ a - req.addr \in 0 .. req.len - 1

Requested(s, a) ==
  Holds(image[s], a) /\ (s < todo.sec \/ (s = todo.sec /\ a - image[s].addr < todo.offs))

ReadBackRight ==
  host = "next" /\ req.op = Read =>
    /\ Len(data) = req.len
    /\ \A a \in 1 .. req.len : data[a] = mem[req.addr + a - 1]

StartsWhole ==
  pc \in {"start", "program"} =>
    /\ srv.addr = Entry
    /\ \A s \in 1 .. Len(image), a \in Memory : Holds(image[s], a) => mem[a] = At(image[s], a)

MemoryExact ==
  /\ \A a \in Memory :
       /\ ~(\E s \in 1 .. Len(image) : Requested(s, a)) => mem[a] = 0
       /\ \A s \in 1 .. Len(image) : Requested(s, a) =>
            mem[a] = At(image[s], a) \/ (InTransfer(a) /\ mem[a] = 0)
  /\ ReadBackRight
  /\ StartsWhole

(* The code the host reports is the one its program returned, whatever the *)
(* program has printed, as long as that is no EOC.                         *)
ExitIsReturn ==
  host = "done" /\ Eoc \notin Prints => pc = "returned" /\ exit = code
=============================================================================
