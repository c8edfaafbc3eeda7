-------------------------- MODULE UartDebugProofs --------------------------
(***************************************************************************)
(* Theorems about UartDebug, for every program of sections that lie apart, *)
(* every block length, width of addresses and codes, depth of the receive  *)
(* FIFO, and number of reads and of bytes printed.                         *)
(*                                                                         *)
(* A byte on the line does not say what it is.  The invariant says, for    *)
(* every pair of places that the two sides can be at, what the bytes in    *)
(* the FIFO and on the line are: those that one side has sent and the      *)
(* other has not taken.  A session opens (Opening), and then goes round    *)
(* between requests (Between), through a request (Requesting) and through  *)
(* its answer (Serving), until the program runs and returns (Running).     *)
(* What the host has asked for, stored and received is counted along.      *)
(***************************************************************************)
EXTENDS UartDebug, TLAPS

ByteOrNone == Bytes \union {None}

(* Every variable keeps its type.                                          *)
Typed ==
  /\ pc \in {"init", "check", "hello", "cmd", "addr", "len", "accept", "transfer",
             "start", "program", "eoc", "ret", "returned"}
  /\ host \in {"settle", "hello", "next", "op", "addr", "len", "ack", "send", "receive",
               "eot", "running", "code", "done"}
  /\ srv \in [cmd : Bytes, addr : Nat, len : Nat, n : Nat]
  /\ mem \in [Memory -> Bytes] /\ code \in Nat \union {None} /\ prints \in Nat
  /\ rx \in Seq(Bytes) /\ thr \in ByteOrNone /\ shift \in ByteOrNone
  /\ image \in Images
  /\ req \in [op : Bytes, addr : Words, len : Words, bytes : Seq(Bytes)]
  /\ todo \in [sec : Nat \ {0}, offs : Nat, reads : Nat]
  /\ k \in Nat /\ data \in Seq(Bytes) /\ eoc \in BOOLEAN /\ exit \in Nat

Quiet == shift = None /\ thr = None

(* The challenge and its acknowledgement.                                  *)
Opening ==
  \/ host = "settle" /\ pc \in {"init", "check"} /\ rx = <<>> /\ Quiet
  \/ host = "hello" /\ pc = "check" /\ rx = <<Ack>> /\ Quiet
  \/ host = "hello" /\ pc = "hello" /\ rx = <<>> /\ Quiet
  \/ host = "hello" /\ pc = "cmd" /\ rx = <<>> /\ shift = Ack /\ thr = None

Between == host \in {"next", "op"} /\ pc = "cmd" /\ rx = <<>> /\ Quiet

(* A request is on its way: what the server has taken of it, and what is   *)
(* in the FIFO, is what the host has sent.                                 *)
ReqLen     == IF req.op = Exec THEN 1 + WordBytes ELSE 1 + WordBytes + WordBytes
ReqByte(q, j) == IF j = 1 THEN q.op
                 ELSE IF j <= 1 + WordBytes THEN Digit(q.addr, j - 2)
                 ELSE Digit(q.len, j - 2 - WordBytes)
ReqSent    == IF host = "addr" THEN 1 + k ELSE IF host = "len" THEN 1 + WordBytes + k ELSE ReqLen
ReqTaken   == IF pc = "cmd" THEN 0
              ELSE IF pc = "addr" THEN 1 + srv.n
              ELSE IF pc = "len" THEN 1 + WordBytes + srv.n ELSE ReqLen

Requesting ==
  /\ host \in {"addr", "len", "ack"} /\ pc \in {"cmd", "addr", "len", "accept"} /\ Quiet
  /\ host \in {"addr", "len"} => k < WordBytes
  /\ host = "len" \/ pc = "len" => req.op # Exec
  /\ pc \in {"addr", "len"} => srv.n < WordBytes
  /\ pc # "cmd" => srv.cmd = req.op
  /\ pc = "addr" => srv.addr = req.addr % Weight[srv.n] /\ srv.len = 0
  /\ pc = "len" => srv.addr = req.addr /\ srv.len = req.len % Weight[srv.n]
  /\ pc = "accept" => srv.addr = req.addr /\ srv.len = req.len /\ srv.n = 0
  /\ ReqTaken + Len(rx) = ReqSent
  /\ \A i \in 1 .. Len(rx) : rx[i] = ReqByte(req, ReqTaken + i)

(* A block is transferred: what the server has sent, less what is on the   *)
(* line, is what the host has received, and the other way around.          *)
DataSent   == IF host = "send" THEN k ELSE IF host = "eot" THEN req.len ELSE 0
AnsByte(q, m, j) == IF j = 1 THEN Ack
                    ELSE IF q.op = Read /\ j <= 1 + q.len THEN m[q.addr + j - 2] ELSE Eot
AnsGot     == IF host = "ack" THEN 0
              ELSE IF host = "receive" THEN 1 + k
              ELSE IF host = "eot" /\ req.op = Read THEN 1 + req.len ELSE 1
AnsSent    == (IF req.op = Read THEN 1 + srv.n ELSE 1) + (IF pc = "cmd" THEN 1 ELSE 0)

OnLine(sh, th, sent, got, a, b) ==
  /\ sent \in got .. got + 2
  /\ sh = IF sent > got THEN a ELSE None
  /\ th = IF sent > got + 1 THEN b ELSE None

Serving ==
  /\ host \in {"ack", "receive", "send", "eot"} /\ pc \in {"transfer", "cmd"}
  /\ req.op \in {Read, Write}
  /\ srv.cmd = req.op /\ srv.addr = req.addr /\ srv.len = req.len
  /\ srv.n <= req.len /\ (pc = "cmd" => srv.n = req.len)
  /\ host = "receive" => req.op = Read /\ k < req.len
  /\ host = "send" => req.op = Write /\ k < req.len
  /\ req.op = Read => rx = <<>>
  /\ req.op = Write => /\ srv.n + Len(rx) = DataSent
                       /\ \A i \in 1 .. Len(rx) : rx[i] = req.bytes[srv.n + i]
  /\ OnLine(shift, thr, AnsSent, AnsGot, AnsByte(req, mem, AnsGot + 1), AnsByte(req, mem,
            AnsGot + 2))

(* The program runs and returns.                                           *)
CodeGot == IF host = "code" THEN k ELSE IF host = "done" THEN CodeBytes ELSE 0

BeforeEoc == host \in {"ack", "running"} /\ ~eoc /\ exit = 0

EocOnLine ==
  \/ srv.n = 0 /\ shift \notin {None, Eoc} /\ thr = Eoc
  \/ srv.n = 0 /\ host = "running" /\ shift = Eoc /\ thr = None
  \/ srv.n = 1 /\ host = "running" /\ shift = Eoc /\ thr = Digit(code, 0)

CodeOnLine ==
  /\ host \in {"running", "code", "done"} /\ (eoc <=> host = "running")
  /\ exit = code % Weight[CodeGot]
  /\ OnLine(shift, thr, srv.n, CodeGot, Digit(code, CodeGot), Digit(code, CodeGot + 1))

Returning ==
  IF pc \in {"start", "program", "eoc"}
    THEN BeforeEoc /\ shift # Eoc /\ thr # Eoc
    ELSE (BeforeEoc /\ EocOnLine) \/ CodeOnLine

CodeCounts == host = "code" => k < CodeBytes

Running ==
  /\ req.op = Exec /\ host \in {"ack", "running", "code", "done"}
  /\ pc \in {"start", "program", "eoc", "ret", "returned"} /\ rx = <<>> /\ srv.addr = Entry
  /\ CodeCounts
  /\ host = "ack" => shift = Ack
  /\ pc = "start" => thr = None
  /\ shift = None => thr = None
  /\ pc = "ret" => srv.n < CodeBytes
  /\ pc = "returned" => srv.n = CodeBytes
  /\ pc \in {"eoc", "ret", "returned"} => code \in Codes
  /\ Eoc \notin Prints => Returning

Session ==
  \/ ~eoc /\ exit = 0 /\ (Opening \/ Between \/ Requesting \/ Serving)
  \/ Running

(* What the host asks for, and what it has written so far.                 *)
InSession == host \notin {"settle", "hello", "next"}

BlockFrom == todo.offs - Burst

BlockAsked ==
  /\ todo.sec <= Len(image) /\ BlockFrom >= 0 /\ BlockFrom <= Len(image[todo.sec].bytes)
  /\ req.addr = image[todo.sec].addr + BlockFrom
  /\ req.len = BlockEnd(BlockFrom, Len(image[todo.sec].bytes)) - BlockFrom
  /\ \A i \in 1 .. req.len : req.bytes[i] = image[todo.sec].bytes[BlockFrom + i]

Asked ==
  /\ todo.sec <= Len(image) + 1
  /\ InSession => req.op \in {Read, Write, Exec}
  /\ host = "op" => k = 0
  /\ req.op = Exec => req.addr = Entry /\ req.len = 0 /\ todo.sec > Len(image)
  /\ req.op = Read => req.addr .. req.addr + req.len - 1 \subseteq Memory /\ todo.sec > Len(image)
  /\ req.op = Write /\ InSession => BlockAsked
  /\ req.op = Write => Len(req.bytes) = req.len

Stored == IF host \in {"send", "eot"} THEN srv.n ELSE 0

(* Still to be stored.                                                     *)
Pending(a) == InTransfer(a) /\ a - req.addr >= Stored

Written ==
  \A a \in Memory :
    /\ (\A s \in 1 .. Len(image) : ~Requested(s, a)) => mem[a] = 0
    /\ \A s \in 1 .. Len(image) : Requested(s, a) =>
         mem[a] = IF Pending(a) THEN 0 ELSE At(image[s], a)

DataGot == IF host = "receive" THEN k ELSE req.len

Received ==
  req.op = Read /\ host \in {"receive", "eot", "next"} =>
    /\ Len(data) = DataGot
    /\ \A i \in 1 .. DataGot : data[i] = mem[req.addr + i - 1]

Blank ==
  /\ req.op = Read /\ host \in {"op", "addr", "len", "ack"} => data = <<>>
  /\ host \in {"settle", "hello"} => req.op # Read

IInv == Typed /\ Session /\ Asked /\ Written /\ Received /\ Blank
----------------------------------------------------------------------------
(* Constants, digits and sequences.                                        *)

LEMMA Sizes ==
  /\ Base \in Nat \ {0} /\ WordBytes \in Nat \ {0} /\ CodeBytes \in Nat \ {0} /\ CodeBytes <= WordBytes
  /\ Burst \in Nat \ {0} /\ RxDepth \in Nat \ {0} /\ MaxReads \in Nat
  BY SizeAssumption

LEMMA Marks ==
  /\ Read \in Bytes /\ Write \in Bytes /\ Exec \in Bytes /\ Ack \in Bytes /\ Eot \in Bytes /\ Eoc \in Bytes
  /\ Read # Write /\ Read # Exec /\ Write # Exec /\ Ack \notin {Read, Write, Exec, Eot, Eoc}
<1>1. Read \in Bytes /\ Write \in Bytes /\ Exec \in Bytes /\ Ack \in Bytes /\ Eot \in Bytes /\ Eoc \in Bytes
  BY OpcodeAssumption DEF Opcodes
<1>2. Read # Write /\ Read # Exec /\ Write # Exec
  BY OpcodeAssumption DEF Opcodes
<1>3. Ack \notin {Read, Write, Exec, Eot, Eoc}
  BY OpcodeAssumption DEF Opcodes
<1> QED
  BY <1>1, <1>2, <1>3

LEMMA Plain == None \notin Bytes /\ Bytes \subseteq Nat /\ 0 \in Bytes /\ 1 \in Nat
  BY Sizes DEF Bytes, None

LEMMA Weights ==
  /\ \A d \in 0 .. WordBytes : Weight[d] \in Nat \ {0}
  /\ Weight[0] = 1
  /\ \A d \in 0 .. WordBytes - 1 : Weight[d + 1] = Base * Weight[d]
<1>1. \A d \in 0 .. WordBytes - 1 : d + 1 \in 1 .. WordBytes /\ (d + 1) - 1 = d
  BY Sizes
<1> QED
  BY <1>1, WeightAssumption

LEMMA Mixed ==
  \A v, w \in Nat, b \in Nat :
    w > 0 /\ b > 0 => v % (b * w) = (v % w) + (((v \div w) % b) * w)
  OBVIOUS

LEMMA Whole == \A v, w \in Nat : v < w => v % w = v
  OBVIOUS

LEMMA Remainder == \A v, w \in Nat : w > 0 => v % w \in 0 .. w - 1 /\ v \div w \in Nat
  OBVIOUS

(* A number is the sum of its digits, each with its weight.                *)
LEMMA Digits ==
  /\ \A v \in Nat, d \in 0 .. WordBytes : Digit(v, d) \in Bytes
  /\ \A v \in Nat, d \in 0 .. WordBytes : v % Weight[d] \in Nat
  /\ \A v \in Nat : v % Weight[0] = 0
  /\ \A v \in Nat, d \in 0 .. WordBytes - 1 :
       v % Weight[d + 1] = (v % Weight[d]) + (Digit(v, d) * Weight[d])
  /\ \A v \in Words : v % Weight[WordBytes] = v
  /\ \A c \in Codes : c \in Nat /\ c % Weight[CodeBytes] = c
<1>1. \A v \in Nat, d \in 0 .. WordBytes : Digit(v, d) \in Bytes
  <2> TAKE v \in Nat, d \in 0 .. WordBytes
  <2>1. v \div Weight[d] \in Nat
    BY Weights, Remainder
  <2>2. (v \div Weight[d]) % Base \in 0 .. Base - 1
    BY <2>1, Sizes, Remainder
  <2> QED
    BY <2>2 DEF Digit, Bytes
<1>2. \A v \in Nat, d \in 0 .. WordBytes : v % Weight[d] \in Nat
  <2> TAKE v \in Nat, d \in 0 .. WordBytes
  <2> QED
    BY Weights, Remainder
<1>3. \A v \in Nat : v % Weight[0] = 0
  BY Weights
<1>4. \A v \in Nat, d \in 0 .. WordBytes - 1 :
        v % Weight[d + 1] = (v % Weight[d]) + (Digit(v, d) * Weight[d])
  <2> TAKE v \in Nat, d \in 0 .. WordBytes - 1
  <2>1. Weight[d] \in Nat /\ Weight[d] > 0 /\ Weight[d + 1] = Base * Weight[d]
    BY Weights, Sizes
  <2>2. \A w \in Nat : w > 0 => v % (Base * w) = (v % w) + (((v \div w) % Base) * w)
    BY Sizes, Mixed
  <2> QED
    BY <2>1, <2>2 DEF Digit
<1>5. \A v \in Words : v % Weight[WordBytes] = v
  BY Sizes, Weights, Whole DEF Words
<1>6. \A c \in Codes : c \in Nat /\ c % Weight[CodeBytes] = c
  BY Sizes, Weights, Whole, ProgramAssumption
<1> QED
  BY <1>1, <1>2, <1>3, <1>4, <1>5, <1>6

LEMMA Taken ==
  ASSUME NEW s \in Seq(Bytes), s # <<>>
  PROVE  /\ Head(s) = s[1] /\ s[1] \in Bytes /\ Tail(s) \in Seq(Bytes)
         /\ Len(s) \in Nat \ {0} /\ Len(Tail(s)) = Len(s) - 1
         /\ \A i \in 1 .. Len(Tail(s)) : Tail(s)[i] = s[i + 1]
  OBVIOUS

LEMMA Appended ==
  ASSUME NEW s \in Seq(Bytes), NEW x \in Bytes
  PROVE  /\ Append(s, x) \in Seq(Bytes)
         /\ Len(s) \in Nat /\ Len(Append(s, x)) = Len(s) + 1
         /\ \A i \in 1 .. Len(s) + 1 : Append(s, x)[i] = IF i = Len(s) + 1 THEN x ELSE s[i]
  OBVIOUS

LEMMA Empty == \A s \in Seq(Bytes) : Len(s) = 0 <=> s = <<>>
  OBVIOUS

----------------------------------------------------------------------------
(* The opening.                                                            *)

LEMMA InitUartSession == Typed /\ Session /\ InitUart => Session'
  BY
    DEF Typed, Session, InitUart, Goto, ClearFifos, hostVars, Opening, Between, Requesting, Serving, Running, Quiet

LEMMA CheckUartSession == Typed /\ Session /\ CheckUart => Session'
  BY Taken, Empty
    DEF Typed, Session, CheckUart, Goto, Take, hostVars, Opening, Between, Requesting, Serving, Running, Quiet

LEMMA SayHelloSession == Typed /\ Session /\ SayHello => Session'
  BY Plain, Marks
    DEF Typed, Session, SayHello, Goto, Put, hostVars, Opening, Between, Requesting, Serving, Running, Quiet

LEMMA ChallengeSession == Typed /\ Session /\ Challenge => Session'
  BY Plain, Marks
    DEF Typed, Session, Challenge, HostGoto, Send, Opening, Between, Requesting, Serving, Running, Quiet

----------------------------------------------------------------------------
(* A request.                                                              *)

(* Types, field by field.                                                  *)
LEMMA Kinds ==
  Typed =>
         /\ srv.cmd \in Bytes /\ srv.addr \in Nat /\ srv.len \in Nat /\ srv.n \in Nat
         /\ req.op \in Bytes /\ req.addr \in Nat /\ req.len \in Nat /\ req.bytes \in Seq(Bytes)
         /\ req.addr \in Words /\ req.len \in Words
         /\ todo.sec \in Nat \ {0} /\ todo.offs \in Nat /\ todo.reads \in Nat
         /\ k \in Nat /\ exit \in Nat /\ rx \in Seq(Bytes) /\ data \in Seq(Bytes)
  BY DEF Typed, Words

(* A byte that the server finds while it is waiting for a command is part  *)
(* of a request.                                                           *)
LEMMA ByteIsRequest ==
  Typed /\ Session /\ pc \in {"cmd", "addr", "len"} /\ rx # <<>> => Requesting /\ ~eoc /\ exit = 0
<1> SUFFICES ASSUME Typed, Session, pc \in {"cmd", "addr", "len"}, rx # <<>>
             PROVE  Requesting /\ ~eoc /\ exit = 0
  OBVIOUS
<1>1. ~Opening /\ ~Between /\ ~Running
  BY DEF Opening, Between, Running
<1>2. ASSUME Serving PROVE FALSE
  <2>1. pc = "cmd" /\ req.op = Write /\ srv.n = req.len /\ srv.n + Len(rx) = DataSent
    BY <1>2 DEF Serving
  <2>2. DataSent <= req.len /\ req.len \in Nat /\ Len(rx) \in Nat /\ DataSent \in Int
    BY <1>2 DEF Serving, DataSent, Typed, Words
  <2>3. Len(rx) = 0
    BY <2>1, <2>2
  <2> QED
    BY <2>3, Empty DEF Typed
<1> QED
  BY <1>1, <1>2 DEF Session

(* The byte is the next one of the request.                                *)
LEMMA NextByte ==
  ASSUME Typed, Requesting, rx # <<>>
  PROVE  /\ Head(rx) = ReqByte(req, ReqTaken + 1) /\ Tail(rx) \in Seq(Bytes)
         /\ Len(Tail(rx)) + 1 = Len(rx) /\ Len(rx) \in Nat /\ ReqTaken \in Nat /\ ReqTaken + 1 <= ReqSent
         /\ \A i \in 1 .. Len(Tail(rx)) : Tail(rx)[i] = ReqByte(req, ReqTaken + 1 + i)
<1>0. ReqTaken + Len(rx) = ReqSent
  BY DEF Requesting
<1>1. ReqTaken \in Nat /\ ReqSent \in Nat
  <2>1. k \in Nat /\ srv.n \in Nat /\ WordBytes \in Nat
    BY Sizes, Kinds
  <2>2. ReqLen \in Nat
    BY <2>1 DEF ReqLen
  <2> QED
    BY <2>1, <2>2 DEF ReqTaken, ReqSent
<1>2. \A i \in 1 .. Len(rx) : rx[i] = ReqByte(req, ReqTaken + i)
  BY DEF Requesting
<1>3. rx \in Seq(Bytes)
  BY DEF Typed
<1>4. /\ Head(rx) = rx[1] /\ Tail(rx) \in Seq(Bytes) /\ Len(rx) \in Nat \ {0}
      /\ Len(Tail(rx)) = Len(rx) - 1 /\ \A i \in 1 .. Len(Tail(rx)) : Tail(rx)[i] = rx[i + 1]
  BY <1>3, Taken
<1>5. \A i \in 1 .. Len(Tail(rx)) : i + 1 \in 1 .. Len(rx) /\ ReqTaken + (i + 1) = ReqTaken + 1 + i
  BY <1>1, <1>4
<1> QED
  BY <1>0, <1>1, <1>2, <1>4, <1>5

LEMMA StreamTaken ==
  ASSUME Typed, Requesting, rx # <<>>, rx' = Tail(rx), UNCHANGED <<host, req, k>>,
         ReqTaken' = ReqTaken + 1
  PROVE  /\ ReqTaken' + Len(rx') = ReqSent'
         /\ \A i \in 1 .. Len(rx') : rx'[i] = ReqByte(req', ReqTaken' + i)
<1>1. ReqSent' = ReqSent
  BY DEF ReqSent, ReqLen
<1>2. ReqTaken + Len(rx) = ReqSent
  BY DEF Requesting
<1> QED
  BY <1>1, <1>2, NextByte

LEMMA TakeCmdSession == Typed /\ Session /\ Asked /\ TakeCmd => Session'
<1> SUFFICES ASSUME Typed, Session, Asked, TakeCmd PROVE Session'
  OBVIOUS
<1>1. Requesting /\ ~eoc /\ exit = 0 /\ pc = "cmd" /\ rx # <<>>
  BY ByteIsRequest DEF TakeCmd, Take, Goto
<1>2. ReqTaken = 0
  BY <1>1 DEF ReqTaken
<1>3. Head(rx) = req.op /\ req.op \in {Read, Write, Exec}
  BY <1>1, <1>2, NextByte DEF ReqByte, Asked, InSession, Requesting
<1>4. pc' = "addr" /\ srv' = [Idle EXCEPT !.cmd = req.op] /\ rx' = Tail(rx)
  BY <1>3 DEF TakeCmd, Take, Goto
<1>5. srv'.cmd = req.op /\ srv'.addr = 0 /\ srv'.len = 0 /\ srv'.n = 0
  BY <1>4 DEF Idle
<1>6. UNCHANGED <<host, req, k, shift, thr, eoc, exit>>
  BY DEF TakeCmd, Take, hostVars
<1>7. ReqTaken' = 1
  BY <1>4, <1>5 DEF ReqTaken
<1>8. /\ ReqTaken' + Len(rx') = ReqSent'
      /\ \A i \in 1 .. Len(rx') : rx'[i] = ReqByte(req', ReqTaken' + i)
  BY <1>1, <1>2, <1>4, <1>6, <1>7, StreamTaken
<1>9. Requesting'
  <2>1. srv'.addr = req.addr % Weight[srv'.n]
    BY <1>5, Digits, Kinds
  <2>2. srv'.n < WordBytes
    BY <1>5, Sizes
  <2>3. /\ host' \in {"addr", "len", "ack"} /\ Quiet' /\ (host' \in {"addr", "len"} => k' < WordBytes)
        /\ (host' = "len" => req'.op # Exec)
    BY <1>1, <1>6 DEF Requesting, Quiet
  <2> QED
    BY <1>4, <1>5, <1>6, <1>8, <2>1, <2>2, <2>3 DEF Requesting
<1> QED
  BY <1>1, <1>6, <1>9 DEF Session

LEMMA TakeAddrSession == Typed /\ Session /\ Asked /\ TakeAddr => Session'
<1> SUFFICES ASSUME Typed, Session, Asked, TakeAddr PROVE Session'
  OBVIOUS
<1>1. Requesting /\ ~eoc /\ exit = 0 /\ pc = "addr" /\ rx # <<>>
  BY ByteIsRequest DEF TakeAddr, Take, Goto
<1>2. /\ ReqTaken = 1 + srv.n /\ srv.n \in 0 .. WordBytes - 1 /\ srv.cmd = req.op
      /\ srv.addr = req.addr % Weight[srv.n] /\ srv.len = 0
  BY <1>1, Kinds, Sizes DEF ReqTaken, Requesting
<1>3. Head(rx) = Digit(req.addr, srv.n)
  <2>1. Head(rx) = ReqByte(req, 2 + srv.n)
    BY <1>1, <1>2, NextByte
  <2> QED
    BY <1>2, <2>1, Sizes DEF ReqByte
<1>4. /\ pc' = IF ~Last THEN "addr" ELSE IF srv.cmd = Exec THEN "accept" ELSE "len"
      /\ srv' = [srv EXCEPT !.addr = srv.addr + Digit(req.addr, srv.n) * Weight[srv.n],
                            !.n = IF Last THEN 0 ELSE @ + 1]
      /\ rx' = Tail(rx)
  BY <1>3 DEF TakeAddr, Take, Goto, WithDigit
<1>5. /\ srv'.cmd = req.op /\ srv'.len = 0 /\ srv'.n = IF Last THEN 0 ELSE srv.n + 1
      /\ srv'.addr = req.addr % Weight[srv.n + 1]
  BY <1>2, <1>4, Digits, Kinds DEF Typed
<1>6. UNCHANGED <<host, req, k, shift, thr, eoc, exit>>
  BY DEF TakeAddr, Take, hostVars
<1>7. ReqTaken' = ReqTaken + 1
  BY <1>2, <1>4, <1>5, <1>6, Sizes DEF ReqTaken, ReqLen, Last
<1>8. /\ ReqTaken' + Len(rx') = ReqSent'
      /\ \A i \in 1 .. Len(rx') : rx'[i] = ReqByte(req', ReqTaken' + i)
  BY <1>1, <1>2, <1>4, <1>6, <1>7, StreamTaken
<1>9. Requesting'
  <2>1. /\ host' \in {"addr", "len", "ack"} /\ Quiet' /\ (host' \in {"addr", "len"} => k' < WordBytes)
        /\ (host' = "len" => req'.op # Exec)
    BY <1>1, <1>6 DEF Requesting, Quiet
  <2>2. CASE Last
    <3>1. srv'.addr = req.addr /\ srv'.n = 0
      BY <1>2, <1>5, <2>2, Digits, Kinds DEF Last
    <3>2. req.len % Weight[0] = 0 /\ (req.op = Exec => req.len = 0)
      BY Digits, Kinds DEF Asked
    <3> QED
      BY <1>2, <1>4, <1>5, <1>6, <1>8, <2>1, <2>2, <3>1, <3>2, Sizes DEF Requesting
  <2>3. CASE ~Last
    BY <1>2, <1>4, <1>5, <1>6, <1>8, <2>1, <2>3, Sizes DEF Requesting, Last
  <2> QED
    BY <2>2, <2>3
<1> QED
  BY <1>1, <1>6, <1>9 DEF Session

LEMMA TakeLenSession == Typed /\ Session /\ Asked /\ TakeLen => Session'
<1> SUFFICES ASSUME Typed, Session, Asked, TakeLen PROVE Session'
  OBVIOUS
<1>1. Requesting /\ ~eoc /\ exit = 0 /\ pc = "len" /\ rx # <<>>
  BY ByteIsRequest DEF TakeLen, Take, Goto
<1>2. /\ ReqTaken = 1 + WordBytes + srv.n /\ srv.n \in 0 .. WordBytes - 1 /\ srv.cmd = req.op
      /\ srv.addr = req.addr /\ srv.len = req.len % Weight[srv.n] /\ req.op # Exec
  BY <1>1, Kinds, Sizes DEF ReqTaken, Requesting
<1>3. Head(rx) = Digit(req.len, srv.n)
  <2>0. ReqTaken + 1 = 2 + WordBytes + srv.n
    BY <1>2, Sizes
  <2>1. Head(rx) = ReqByte(req, ReqTaken + 1)
    BY <1>1, NextByte
  <2> QED
    BY <1>2, <2>0, <2>1, Sizes DEF ReqByte
<1>4. /\ pc' = IF Last THEN "accept" ELSE "len"
      /\ srv' = [srv EXCEPT !.len = srv.len + Digit(req.len, srv.n) * Weight[srv.n],
                            !.n = IF Last THEN 0 ELSE @ + 1]
      /\ rx' = Tail(rx)
  BY <1>3 DEF TakeLen, Take, Goto, WithDigit
<1>5. /\ srv'.cmd = req.op /\ srv'.addr = req.addr /\ srv'.n = IF Last THEN 0 ELSE srv.n + 1
      /\ srv'.len = req.len % Weight[srv.n + 1]
  BY <1>2, <1>4, Digits, Kinds DEF Typed
<1>6. UNCHANGED <<host, req, k, shift, thr, eoc, exit>>
  BY DEF TakeLen, Take, hostVars
<1>7. ReqTaken' = ReqTaken + 1
  <2>1. CASE Last
    <3>1. ReqTaken' = 1 + WordBytes + WordBytes
      BY <1>2, <1>4, <1>6, <2>1 DEF ReqTaken, ReqLen
    <3> QED
      BY <1>2, <2>1, <3>1, Sizes DEF Last
  <2>2. CASE ~Last
    <3>1. ReqTaken' = 1 + WordBytes + (srv.n + 1)
      BY <1>4, <1>5, <2>2 DEF ReqTaken
    <3> QED
      BY <1>2, <3>1, Sizes
  <2> QED
    BY <2>1, <2>2
<1>8. /\ ReqTaken' + Len(rx') = ReqSent'
      /\ \A i \in 1 .. Len(rx') : rx'[i] = ReqByte(req', ReqTaken' + i)
  BY <1>1, <1>2, <1>4, <1>6, <1>7, StreamTaken
<1>9. Requesting'
  <2>1. /\ host' \in {"addr", "len", "ack"} /\ Quiet' /\ (host' \in {"addr", "len"} => k' < WordBytes)
        /\ req'.op # Exec
    BY <1>1, <1>2, <1>6 DEF Requesting, Quiet
  <2>2. CASE Last
    <3>1. srv'.len = req.len /\ srv'.n = 0
      BY <1>2, <1>5, <2>2, Digits, Kinds DEF Last
    <3> QED
      BY <1>2, <1>4, <1>5, <1>6, <1>8, <2>1, <2>2, <3>1, Sizes DEF Requesting
  <2>3. CASE ~Last
    BY <1>2, <1>4, <1>5, <1>6, <1>8, <2>1, <2>3, Sizes DEF Requesting, Last
  <2> QED
    BY <2>2, <2>3
<1> QED
  BY <1>1, <1>6, <1>9 DEF Session

----------------------------------------------------------------------------
(* What the host sends of a request.                                       *)

LEMMA SendOpSession == Typed /\ Session /\ Asked /\ SendOp => Session'
<1> SUFFICES ASSUME Typed, Session, Asked, SendOp PROVE Session'
  OBVIOUS
<1>1. Between /\ ~eoc /\ exit = 0
  BY DEF Session, SendOp, HostGoto, Opening, Requesting, Serving, Running
<1>2. host' = "addr" /\ rx' = <<req.op>> /\ UNCHANGED <<pc, srv, thr, shift, eoc, exit, req, k>>
  BY <1>1 DEF SendOp, Send, HostGoto, Between
<1>3. k = 0
  BY DEF SendOp, HostGoto, Asked
<1>4. Requesting'
  <2>1. ReqSent' = 1 /\ ReqTaken' = 0 /\ Len(rx') = 1 /\ rx'[1] = ReqByte(req', 1)
    BY <1>1, <1>2, <1>3 DEF ReqSent, ReqTaken, Between, ReqByte
  <2>2. \A i \in 1 .. Len(rx') : rx'[i] = ReqByte(req', ReqTaken' + i)
    BY <2>1
  <2> QED
    BY <1>1, <1>2, <1>3, <2>1, <2>2, Sizes DEF Requesting, Between, Quiet
<1> QED
  BY <1>1, <1>2, <1>4 DEF Session

(* A byte sent goes to the end of the stream.                              *)
LEMMA StreamSent ==
  ASSUME Typed, Requesting, NEW x \in Bytes, rx' = Append(rx, x), x = ReqByte(req, ReqSent + 1),
         UNCHANGED <<pc, srv, req>>, ReqSent' = ReqSent + 1
  PROVE  /\ ReqTaken' + Len(rx') = ReqSent'
         /\ \A i \in 1 .. Len(rx') : rx'[i] = ReqByte(req', ReqTaken' + i)
<1>1. ReqTaken' = ReqTaken /\ ReqTaken \in Nat
  <2>1. k \in Nat /\ srv.n \in Nat /\ WordBytes \in Nat
    BY Sizes, Kinds
  <2>2. ReqLen \in Nat /\ ReqLen' = ReqLen
    BY <2>1 DEF ReqLen
  <2> QED
    BY <2>1, <2>2 DEF ReqTaken
<1>2. ReqTaken + Len(rx) = ReqSent /\ \A i \in 1 .. Len(rx) : rx[i] = ReqByte(req, ReqTaken + i)
  BY DEF Requesting
<1>3. /\ Len(rx) \in Nat /\ Len(rx') = Len(rx) + 1
      /\ \A i \in 1 .. Len(rx) + 1 : rx'[i] = IF i = Len(rx) + 1 THEN x ELSE rx[i]
  <2>1. rx \in Seq(Bytes)
    BY Kinds
  <2> QED
    BY <2>1, Appended
<1>4. ReqTaken' + Len(rx') = ReqSent'
  BY <1>1, <1>2, <1>3
<1>5. ASSUME NEW i \in 1 .. Len(rx') PROVE rx'[i] = ReqByte(req', ReqTaken' + i)
  <2>1. CASE i = Len(rx) + 1
    BY <1>1, <1>2, <1>3, <2>1
  <2>2. CASE i # Len(rx) + 1
    BY <1>1, <1>2, <1>3, <2>2
  <2> QED
    BY <2>1, <2>2
<1> QED
  BY <1>4, <1>5

LEMMA Wrap == \A n, w \in Nat : n < w => (n + 1) % w = IF n + 1 < w THEN n + 1 ELSE 0
  OBVIOUS

LEMMA SendAddrSession == Typed /\ Session /\ Asked /\ SendAddr => Session'
<1> SUFFICES ASSUME Typed, Session, Asked, SendAddr PROVE Session'
  OBVIOUS
<1>1. Requesting /\ ~eoc /\ exit = 0 /\ host = "addr"
  BY DEF Session, SendAddr, HostGoto, Opening, Between, Serving, Running
<1>2. /\ host' = IF k + 1 < WordBytes THEN "addr" ELSE IF req.op = Exec THEN "ack" ELSE "len"
      /\ k' = (k + 1) % WordBytes
      /\ rx' = Append(rx, Digit(req.addr, k)) /\ UNCHANGED <<pc, srv, thr, shift, eoc, exit, req>>
  BY DEF SendAddr, Send, HostGoto
<1>3. k \in 0 .. WordBytes - 1 /\ ReqSent = 1 + k
  BY <1>1, Kinds, Sizes DEF Requesting, ReqSent
<1>4. k' = IF k + 1 < WordBytes THEN k + 1 ELSE 0
  <2>1. k \in Nat /\ WordBytes \in Nat /\ k < WordBytes
    BY <1>3, Sizes
  <2>2. (k + 1) % WordBytes = IF k + 1 < WordBytes THEN k + 1 ELSE 0
    BY <2>1, Wrap, Zenon
  <2> QED
    BY <1>2, <2>2, Zenon
<1>5. Digit(req.addr, k) \in Bytes /\ Digit(req.addr, k) = ReqByte(req, ReqSent + 1)
  <2>0. k \in 0 .. WordBytes /\ req.addr \in Nat
    BY <1>3, Kinds, Sizes
  <2>1. Digit(req.addr, k) \in Bytes
    BY <2>0, Digits, Zenon
  <2>2. ReqSent + 1 # 1 /\ ReqSent + 1 <= 1 + WordBytes /\ (ReqSent + 1) - 2 = k
    BY <1>3, Sizes
  <2>3. ReqByte(req, ReqSent + 1) = Digit(req.addr, (ReqSent + 1) - 2)
    BY <2>2, Zenon DEF ReqByte
  <2> QED
    BY <2>1, <2>2, <2>3, Zenon
<1>6. ReqSent' = ReqSent + 1
  BY <1>2, <1>3, <1>4, Sizes DEF ReqSent, ReqLen
<1>7. /\ ReqTaken' + Len(rx') = ReqSent'
      /\ \A i \in 1 .. Len(rx') : rx'[i] = ReqByte(req', ReqTaken' + i)
  BY <1>1, <1>2, <1>5, <1>6, StreamSent
<1>8. Requesting'
  BY <1>1, <1>2, <1>4, <1>7, Sizes DEF Requesting, Quiet
<1> QED
  BY <1>1, <1>2, <1>8 DEF Session

LEMMA SendLenSession == Typed /\ Session /\ Asked /\ SendLen => Session'
<1> SUFFICES ASSUME Typed, Session, Asked, SendLen PROVE Session'
  OBVIOUS
<1>1. Requesting /\ ~eoc /\ exit = 0 /\ host = "len"
  BY DEF Session, SendLen, HostGoto, Opening, Between, Serving, Running
<1>2. /\ host' = IF k + 1 < WordBytes THEN "len" ELSE "ack"
      /\ k' = (k + 1) % WordBytes
      /\ rx' = Append(rx, Digit(req.len, k)) /\ UNCHANGED <<pc, srv, thr, shift, eoc, exit, req>>
  BY DEF SendLen, Send, HostGoto
<1>3. k \in 0 .. WordBytes - 1 /\ ReqSent = 1 + WordBytes + k /\ req.op # Exec
  BY <1>1, Kinds, Sizes DEF Requesting, ReqSent
<1>4. k' = IF k + 1 < WordBytes THEN k + 1 ELSE 0
  <2>1. k \in Nat /\ WordBytes \in Nat /\ k < WordBytes
    BY <1>3, Sizes
  <2>2. (k + 1) % WordBytes = IF k + 1 < WordBytes THEN k + 1 ELSE 0
    BY <2>1, Wrap, Zenon
  <2> QED
    BY <1>2, <2>2, Zenon
<1>5. Digit(req.len, k) \in Bytes /\ Digit(req.len, k) = ReqByte(req, ReqSent + 1)
  <2>0. k \in 0 .. WordBytes /\ req.len \in Nat
    BY <1>3, Kinds, Sizes
  <2>1. Digit(req.len, k) \in Bytes
    BY <2>0, Digits, Zenon
  <2>2. ReqSent + 1 # 1 /\ ~(ReqSent + 1 <= 1 + WordBytes) /\ (ReqSent + 1) - 2 - WordBytes = k
    BY <1>3, Sizes
  <2>3. ReqByte(req, ReqSent + 1) = Digit(req.len, (ReqSent + 1) - 2 - WordBytes)
    BY <2>2, Zenon DEF ReqByte
  <2> QED
    BY <2>1, <2>2, <2>3, Zenon
<1>6. ReqSent' = ReqSent + 1
  <2>1. CASE k + 1 < WordBytes
    <3>1. ReqSent' = 1 + WordBytes + (k + 1)
      BY <1>2, <1>4, <2>1 DEF ReqSent
    <3> QED
      BY <1>3, <3>1, Sizes
  <2>2. CASE ~(k + 1 < WordBytes)
    <3>1. ReqSent' = 1 + WordBytes + WordBytes
      BY <1>2, <1>3, <2>2 DEF ReqSent, ReqLen
    <3> QED
      BY <1>3, <2>2, <3>1, Sizes
  <2> QED
    BY <2>1, <2>2
<1>7. /\ ReqTaken' + Len(rx') = ReqSent'
      /\ \A i \in 1 .. Len(rx') : rx'[i] = ReqByte(req', ReqTaken' + i)
  BY <1>1, <1>2, <1>5, <1>6, StreamSent
<1>8. Requesting'
  BY <1>1, <1>2, <1>3, <1>4, <1>7, Sizes DEF Requesting, Quiet
<1> QED
  BY <1>1, <1>2, <1>8 DEF Session

----------------------------------------------------------------------------
(* The line from the server to the host.                                   *)

LEMMA PutSent ==
  ASSUME NEW sent \in Nat, NEW got \in Nat, NEW a, NEW b, a # None, b # None,
         OnLine(shift, thr, sent, got, a, b), NEW x, Put(x), x = IF sent = got THEN a ELSE b
  PROVE  OnLine(shift', thr', sent + 1, got, a, b)
<1>1. thr = None /\ sent \in {got, got + 1}
  BY DEF Put, OnLine
<1>2. CASE sent = got
  BY <1>1, <1>2 DEF Put, OnLine
<1>3. CASE sent = got + 1
  BY <1>1, <1>3 DEF Put, OnLine
<1> QED
  BY <1>1, <1>2, <1>3

LEMMA ScoopGot ==
  ASSUME NEW sent \in Nat, NEW got \in Nat, NEW a, NEW b, NEW c,
         OnLine(shift, thr, sent, got, a, b), shift # None, shift' = thr, thr' = None
  PROVE  shift = a /\ sent >= got + 1 /\ OnLine(shift', thr', sent, got + 1, b, c)
BY DEF OnLine

LEMMA AnsKind ==
  ASSUME Typed, Asked, req.op \in {Read, Write}
  PROVE  /\ \A j \in Nat \ {0} : AnsByte(req, mem, j) \in Bytes /\ AnsByte(req, mem, j) # None
         /\ AnsGot \in Nat /\ AnsSent \in Nat
<1>1. ASSUME NEW j \in Nat \ {0} PROVE AnsByte(req, mem, j) \in Bytes
  <2>1. CASE j = 1
    BY <2>1, Marks DEF AnsByte
  <2>2. CASE j # 1 /\ req.op = Read /\ j <= 1 + req.len
    <3>0. req.addr \in Nat /\ req.len \in Nat
      BY Kinds
    <3>1. req.addr + j - 2 \in req.addr .. req.addr + req.len - 1
      BY <2>2, <3>0
    <3>2. req.addr + j - 2 \in Memory
      BY <2>2, <3>1 DEF Asked
    <3>3. mem[req.addr + j - 2] \in Bytes
      BY <3>2 DEF Typed
    <3> QED
      BY <2>2, <3>3 DEF AnsByte
  <2>3. CASE ~(req.op = Read /\ j <= 1 + req.len)
    BY <2>1, <2>3, Marks DEF AnsByte
  <2> QED
    BY <2>1, <2>2, <2>3
<1>2. srv.n \in Nat /\ k \in Nat /\ req.len \in Nat
  BY Kinds
<1>3. AnsGot \in Nat
  BY <1>2 DEF AnsGot
<1>4. AnsSent \in Nat
  BY <1>2 DEF AnsSent
<1> QED
  BY <1>1, <1>3, <1>4, Plain

LEMMA AcceptSession == Typed /\ Session /\ Asked /\ Accept => Session'
<1> SUFFICES ASSUME Typed, Session, Asked, Accept PROVE Session'
  OBVIOUS
<1>1. Requesting /\ ~eoc /\ exit = 0 /\ pc = "accept"
  BY DEF Session, Accept, Goto, Opening, Between, Serving, Running
<1>2. host = "ack" /\ rx = <<>>
  <2>1. ReqTaken = ReqLen /\ ReqTaken + Len(rx) = ReqSent
    BY <1>1 DEF ReqTaken, Requesting
  <2>2. Len(rx) \in Nat /\ k \in Nat
    BY Kinds
  <2>3. host = "ack"
    <3>1. CASE host = "addr"
      <4>0. ReqLen >= 1 + WordBytes
        BY Sizes DEF ReqLen
      <4>1. ReqSent = 1 + k /\ k < WordBytes /\ ReqLen \in {1 + WordBytes, 1 + WordBytes + WordBytes}
        BY <1>1, <3>1 DEF ReqSent, ReqLen, Requesting
      <4> QED
        BY <2>1, <2>2, <4>0, <4>1, Sizes
    <3>2. CASE host = "len"
      <4>1. ReqSent = 1 + WordBytes + k /\ k < WordBytes /\ ReqLen = 1 + WordBytes + WordBytes
        BY <1>1, <3>2 DEF ReqSent, ReqLen, Requesting
      <4> QED
        BY <2>1, <2>2, <4>1, Sizes
    <3> QED
      BY <1>1, <3>1, <3>2 DEF Requesting
  <2>4. ReqLen \in Nat /\ ReqSent = ReqLen
    BY <2>3, Sizes DEF ReqLen, ReqSent
  <2>5. Len(rx) = 0
    BY <2>1, <2>2, <2>4
  <2> QED
    BY <2>3, <2>5, Kinds, Empty
<1>3. srv.cmd = req.op /\ srv.addr = req.addr /\ srv.len = req.len /\ srv.n = 0
  BY <1>1 DEF Requesting
<1>4. /\ pc' = IF srv.cmd = Exec THEN "start" ELSE "transfer"
      /\ shift' = Ack /\ thr' = None /\ UNCHANGED <<srv, rx, host, req, k, eoc, exit, mem>>
  BY <1>1 DEF Accept, Goto, Put, Requesting, Quiet, hostVars, progVars
<1>5. CASE req.op = Exec
  <2>1. Running'
    BY <1>2, <1>1, <1>3, <1>4, <1>5, Marks, Plain
      DEF Running, CodeCounts, Asked, Returning, BeforeEoc
  <2> QED
    BY <2>1 DEF Session
<1>6. CASE req.op # Exec
  <2>1. req.op \in {Read, Write}
    BY <1>2, <1>6 DEF Asked, InSession
  <2>2. AnsSent' = 1 /\ AnsGot' = 0 /\ DataSent' = 0 /\ AnsByte(req, mem, 1) = Ack
    BY <1>2, <1>3, <1>4, <1>6 DEF AnsSent, AnsGot, DataSent, AnsByte
  <2>3. OnLine(shift', thr', AnsSent', AnsGot', AnsByte(req', mem', AnsGot' + 1), AnsByte(req',
               mem', AnsGot' + 2))
    BY <1>4, <2>2 DEF OnLine
  <2>4. Serving'
    BY <1>2, <1>3, <1>4, <1>6, <2>1, <2>2, <2>3, Kinds DEF Serving
  <2> QED
    BY <1>1, <1>4, <2>4 DEF Session
<1> QED
  BY <1>5, <1>6

LEMMA SendDataSession == Typed /\ Session /\ Asked /\ SendData => Session'
<1> SUFFICES ASSUME Typed, Session, Asked, SendData PROVE Session'
  OBVIOUS
<1>1. Serving /\ ~eoc /\ exit = 0 /\ pc = "transfer" /\ req.op = Read /\ srv.n < req.len
  BY DEF Session, SendData, Goto, More, Opening, Between, Requesting, Serving, Running
<1>2. /\ pc' = "transfer" /\ srv' = [srv EXCEPT !.n = @ + 1] /\ Put(mem[srv.addr + srv.n])
      /\ UNCHANGED <<rx, host, req, k, eoc, exit, mem>>
  BY DEF SendData, Goto, Put, Cell, hostVars, progVars
<1>3. /\ srv'.cmd = srv.cmd /\ srv'.addr = srv.addr /\ srv'.len = srv.len /\ srv'.n = srv.n + 1
  BY <1>2, Kinds DEF Typed
<1>4. AnsSent = 1 + srv.n /\ AnsSent' = AnsSent + 1 /\ AnsGot' = AnsGot
  BY <1>1, <1>2, <1>3, Kinds DEF AnsSent, AnsGot
<1>5. mem[srv.addr + srv.n] = AnsByte(req, mem, AnsSent + 1)
  <2>1. AnsSent + 1 # 1 /\ AnsSent + 1 <= 1 + req.len /\ req.addr + (AnsSent + 1) - 2 = srv.addr + srv.n
    <3>1. srv.n \in Nat /\ req.len \in Nat /\ req.addr \in Nat /\ srv.addr = req.addr
      BY <1>1, Kinds DEF Serving
    <3> QED
      BY <1>1, <1>4, <3>1
  <2> QED
    BY <1>1, <2>1 DEF AnsByte
<1>6. OnLine(shift', thr', AnsSent', AnsGot', AnsByte(req', mem', AnsGot' + 1), AnsByte(req', mem',
             AnsGot' + 2))
  <2> DEFINE a == AnsByte(req, mem, AnsGot + 1)
             b == AnsByte(req, mem, AnsGot + 2)
  <2>1. AnsGot \in Nat /\ AnsSent \in Nat /\ a # None /\ b # None
    BY <1>1, AnsKind DEF Serving
  <2>2. OnLine(shift, thr, AnsSent, AnsGot, a, b)
    BY <1>1 DEF Serving
  <2>3. AnsSent \in {AnsGot, AnsGot + 1}
    BY <1>2, <2>1, <2>2 DEF OnLine, Put
  <2>4. mem[srv.addr + srv.n] = IF AnsSent = AnsGot THEN a ELSE b
    BY <1>5, <2>1, <2>3
  <2> HIDE DEF a, b
  <2>5. OnLine(shift', thr', AnsSent + 1, AnsGot, a, b)
    BY <1>2, <2>1, <2>2, <2>4, PutSent
  <2> QED
    BY <1>2, <1>4, <2>5 DEF a, b
<1>7. Serving'
  BY <1>1, <1>2, <1>3, <1>6, Kinds, Marks DEF Serving
<1> QED
  BY <1>1, <1>2, <1>7 DEF Session

LEMMA SendEotSession == Typed /\ Session /\ Asked /\ SendEot => Session'
<1> SUFFICES ASSUME Typed, Session, Asked, SendEot PROVE Session'
  OBVIOUS
<1>1. Serving /\ ~eoc /\ exit = 0 /\ pc = "transfer" /\ srv.n = req.len
  BY Kinds DEF Session, SendEot, Goto, More, Opening, Between, Requesting, Serving, Running
<1>2. pc' = "cmd" /\ Put(Eot) /\ UNCHANGED <<srv, rx, host, req, k, eoc, exit, mem>>
  BY DEF SendEot, Goto, Put, hostVars, progVars
<1>4. /\ AnsSent = (IF req.op = Read THEN 1 + req.len ELSE 1) /\ AnsSent' = AnsSent + 1 /\ AnsGot' = AnsGot
      /\ DataSent' = DataSent
  BY <1>1, <1>2, Kinds DEF AnsSent, AnsGot, DataSent
<1>5. Eot = AnsByte(req, mem, AnsSent + 1)
  <2>1. AnsSent + 1 # 1 /\ (req.op = Read => ~(AnsSent + 1 <= 1 + req.len))
    BY <1>1, <1>4, Kinds DEF Serving
  <2> QED
    BY <1>1, <2>1 DEF AnsByte
<1>6. OnLine(shift', thr', AnsSent', AnsGot', AnsByte(req', mem', AnsGot' + 1), AnsByte(req', mem',
             AnsGot' + 2))
  <2> DEFINE a == AnsByte(req, mem, AnsGot + 1)
             b == AnsByte(req, mem, AnsGot + 2)
  <2>1. AnsGot \in Nat /\ AnsSent \in Nat /\ a # None /\ b # None
    BY <1>1, AnsKind DEF Serving
  <2>2. OnLine(shift, thr, AnsSent, AnsGot, a, b)
    BY <1>1 DEF Serving
  <2>3. AnsSent \in {AnsGot, AnsGot + 1}
    BY <1>2, <2>1, <2>2 DEF OnLine, Put
  <2>4. Eot = IF AnsSent = AnsGot THEN a ELSE b
    BY <1>5, <2>1, <2>3
  <2> HIDE DEF a, b
  <2>5. OnLine(shift', thr', AnsSent + 1, AnsGot, a, b)
    BY <1>2, <2>1, <2>2, <2>4, PutSent
  <2> QED
    BY <1>2, <1>4, <2>5 DEF a, b
<1>7. Serving'
  BY <1>1, <1>2, <1>4, <1>6 DEF Serving
<1> QED
  BY <1>1, <1>2, <1>7 DEF Session


LEMMA StoreDataSession == Typed /\ Session /\ Asked /\ StoreData => Session'
<1> SUFFICES ASSUME Typed, Session, Asked, StoreData PROVE Session'
  OBVIOUS
<1>1. Serving /\ ~eoc /\ exit = 0 /\ pc = "transfer" /\ req.op = Write /\ srv.n < req.len /\ rx # <<>>
  BY DEF Session, StoreData, Goto, Take, More, Opening, Between, Requesting, Serving, Running
<1>2. /\ pc' = "transfer" /\ srv' = [srv EXCEPT !.n = @ + 1] /\ rx' = Tail(rx)
      /\ UNCHANGED <<host, req, k, eoc, exit, shift, thr>>
  BY DEF StoreData, Goto, Take, hostVars
<1>3. /\ srv'.cmd = srv.cmd /\ srv'.addr = srv.addr /\ srv'.len = srv.len /\ srv'.n = srv.n + 1
  BY <1>2, Kinds DEF Typed
<1>4. AnsSent' = AnsSent /\ AnsGot' = AnsGot /\ DataSent' = DataSent
  BY <1>1, <1>2, Marks DEF AnsSent, AnsGot, DataSent
<1>5. \A j : AnsByte(req', mem', j) = AnsByte(req, mem, j)
  BY <1>1, <1>2, Marks DEF AnsByte
<1>6. OnLine(shift', thr', AnsSent', AnsGot', AnsByte(req', mem', AnsGot' + 1), AnsByte(req', mem',
             AnsGot' + 2))
  BY <1>1, <1>2, <1>4, <1>5 DEF Serving
<1>7. srv'.n + Len(rx') = DataSent' /\ \A i \in 1 .. Len(rx') : rx'[i] = req'.bytes[srv'.n + i]
  <2>1. rx \in Seq(Bytes) /\ srv.n \in Nat
    BY Kinds
  <2>2. /\ Len(rx) \in Nat \ {0} /\ Len(Tail(rx)) = Len(rx) - 1
        /\ \A i \in 1 .. Len(Tail(rx)) : Tail(rx)[i] = rx[i + 1]
    BY <1>1, <2>1, Taken
  <2>3. srv.n + Len(rx) = DataSent /\ \A i \in 1 .. Len(rx) : rx[i] = req.bytes[srv.n + i]
    BY <1>1 DEF Serving
  <2>4. \A i \in 1 .. Len(Tail(rx)) : i + 1 \in 1 .. Len(rx) /\ srv.n + (i + 1) = srv.n + 1 + i
    BY <2>1, <2>2
  <2>5. srv'.n + Len(rx') = DataSent'
    BY <1>2, <1>3, <1>4, <2>1, <2>2, <2>3
  <2>6. ASSUME NEW i \in 1 .. Len(Tail(rx)) PROVE Tail(rx)[i] = req.bytes[srv.n + 1 + i]
    <3>1. Tail(rx)[i] = rx[i + 1] /\ rx[i + 1] = req.bytes[srv.n + (i + 1)]
      BY <2>2, <2>3, <2>4
    <3> QED
      BY <2>4, <3>1
  <2> QED
    BY <1>2, <1>3, <2>5, <2>6
<1>8. Serving'
  <2>1. srv.n \in Nat /\ req.len \in Nat /\ srv'.n <= req.len
    BY <1>1, <1>3, Kinds
  <2>2. host' \in {"ack", "receive", "send", "eot"} /\ (host' = "receive" => req'.op = Read /\ k' < req'.len)
        /\ (host' = "send" => req'.op = Write /\ k' < req'.len)
    BY <1>1, <1>2 DEF Serving
  <2>3. srv'.cmd = req'.op /\ srv'.addr = req'.addr /\ srv'.len = req'.len /\ req'.op = Write
    BY <1>1, <1>2, <1>3 DEF Serving
  <2> QED
    BY <1>2, <1>6, <1>7, <2>1, <2>2, <2>3, Marks DEF Serving
<1> QED
  BY <1>1, <1>2, <1>8 DEF Session

LEMMA SendBytesSession == Typed /\ Session /\ Asked /\ SendBytes => Session'
<1> SUFFICES ASSUME Typed, Session, Asked, SendBytes PROVE Session'
  OBVIOUS
<1>1. Serving /\ ~eoc /\ exit = 0 /\ host = "send" /\ req.op = Write /\ k < req.len
  BY DEF Session, SendBytes, HostGoto, Opening, Between, Requesting, Serving, Running
<1>2. /\ host' = IF k + 1 < req.len THEN "send" ELSE "eot"
      /\ rx' = Append(rx, req.bytes[k + 1]) /\ k' = k + 1
      /\ UNCHANGED <<pc, srv, mem, thr, shift, eoc, exit, req>>
  BY DEF SendBytes, Send, HostGoto, progVars
<1>3. DataSent = k /\ DataSent' = k + 1 /\ AnsGot' = AnsGot /\ AnsSent' = AnsSent
  <2>1. k \in Nat /\ req.len \in Nat /\ (host' = "eot" => req.len = k + 1)
    BY <1>1, <1>2, Kinds
  <2> QED
    BY <1>1, <1>2, <2>1, Marks DEF DataSent, AnsGot, AnsSent
<1>4. srv.n + Len(rx) = k /\ \A i \in 1 .. Len(rx) : rx[i] = req.bytes[srv.n + i]
  BY <1>1, <1>3 DEF Serving
<1>5. srv'.n + Len(rx') = DataSent' /\ \A i \in 1 .. Len(rx') : rx'[i] = req'.bytes[srv'.n + i]
  <2>0. rx \in Seq(Bytes) /\ srv.n \in Nat /\ k \in Nat
    BY Kinds
  <2>1. req.bytes[k + 1] \in Bytes
    BY <1>1, <2>0, Kinds DEF Asked
  <2>2. /\ Len(rx) \in Nat /\ Len(rx') = Len(rx) + 1
        /\ \A i \in 1 .. Len(rx) + 1 : rx'[i] = IF i = Len(rx) + 1 THEN req.bytes[k + 1] ELSE rx[i]
    BY <1>2, <2>0, <2>1, Appended
  <2>3. srv'.n + Len(rx') = DataSent'
    <3>1. srv.n + (Len(rx) + 1) = k + 1
      BY <1>4, <2>0, <2>2
    <3> QED
      BY <1>2, <1>3, <2>2, <3>1
  <2>4. ASSUME NEW i \in 1 .. Len(rx') PROVE rx'[i] = req'.bytes[srv'.n + i]
    <3>1. CASE i = Len(rx) + 1
      <4>1. srv.n + (Len(rx) + 1) = k + 1
        BY <1>4, <2>0, <2>2
      <4> QED
        BY <1>2, <2>2, <3>1, <4>1
    <3>2. CASE i # Len(rx) + 1
      BY <1>2, <1>4, <2>2, <3>2
    <3> QED
      BY <3>1, <3>2
  <2> QED
    BY <2>3, <2>4
<1>6. OnLine(shift', thr', AnsSent', AnsGot', AnsByte(req', mem', AnsGot' + 1), AnsByte(req', mem',
             AnsGot' + 2))
  BY <1>1, <1>2, <1>3 DEF Serving
<1>7. Serving'
  BY <1>1, <1>2, <1>5, <1>6, Kinds, Marks DEF Serving
<1> QED
  BY <1>1, <1>2, <1>7 DEF Session

LEMMA ScoopDataSession == Typed /\ Session /\ Asked /\ ScoopData => Session'
<1> SUFFICES ASSUME Typed, Session, Asked, ScoopData PROVE Session'
  OBVIOUS
<1>1. Serving /\ ~eoc /\ exit = 0 /\ host = "receive" /\ req.op = Read /\ k < req.len
  BY DEF Session, ScoopData, HostGoto, Opening, Between, Requesting, Serving, Running
<1>2. /\ host' = IF k + 1 < req.len THEN "receive" ELSE "eot"
      /\ k' = k + 1 /\ shift \in Bytes /\ shift' = thr /\ thr' = None
      /\ UNCHANGED <<pc, srv, mem, rx, eoc, exit, req>>
  BY DEF ScoopData, Scooped, HostGoto, progVars
<1>3. AnsGot = 1 + k /\ AnsGot' = AnsGot + 1 /\ AnsSent' = AnsSent
  BY <1>1, <1>2, Kinds DEF AnsGot, AnsSent
<1>4. OnLine(shift', thr', AnsSent', AnsGot', AnsByte(req', mem', AnsGot' + 1), AnsByte(req', mem',
             AnsGot' + 2))
  <2>1. OnLine(shift, thr, AnsSent, AnsGot, AnsByte(req, mem, AnsGot + 1), AnsByte(req, mem,
               AnsGot + 2))
    BY <1>1 DEF Serving
  <2>2. AnsSent \in Nat /\ AnsGot \in Nat
    BY <1>1, AnsKind DEF Serving
  <2>3. \A c : OnLine(shift', thr', AnsSent, AnsGot + 1, AnsByte(req, mem, AnsGot + 2), c)
    BY <1>2, <2>1, <2>2, Plain DEF OnLine
  <2>4. AnsGot' + 1 = AnsGot + 2
    BY <1>3, <2>2
  <2> QED
    BY <1>2, <1>3, <2>3, <2>4
<1>5. Serving'
  BY <1>1, <1>2, <1>4, Kinds, Marks DEF Serving
<1> QED
  BY <1>1, <1>2, <1>5 DEF Session

(* Each mark that comes in is the one the host expects.                    *)
LEMMA MarkRight ==
  ASSUME Typed, Session, Asked, ScoopMark
  PROVE  /\ host = "hello" => Opening /\ pc = "cmd" /\ shift = Ack
         /\ host = "ack" => (Serving \/ Running) /\ shift = Ack
         /\ host = "eot" => Serving /\ pc = "cmd" /\ shift = Eot
<1>1. shift \in Bytes /\ shift # None
  BY Plain DEF ScoopMark, Scooped
<1>2. ASSUME host = "hello" PROVE Opening /\ pc = "cmd" /\ shift = Ack
  BY <1>1, <1>2 DEF Session, Opening, Between, Requesting, Serving, Running, Quiet
<1>3. ASSUME Serving PROVE /\ shift = AnsByte(req, mem, AnsGot + 1)
                           /\ AnsSent >= AnsGot + 1
  <2>1. OnLine(shift, thr, AnsSent, AnsGot, AnsByte(req, mem, AnsGot + 1), AnsByte(req, mem,
               AnsGot + 2))
    BY <1>3 DEF Serving
  <2>2. AnsSent \in Nat /\ AnsGot \in Nat
    BY <1>3, AnsKind DEF Serving
  <2> QED
    BY <1>1, <2>1, <2>2 DEF OnLine
<1>4. ASSUME host = "ack" PROVE (Serving \/ Running) /\ shift = Ack
  <2>1. Serving \/ Running
    BY <1>1, <1>4 DEF Session, Opening, Between, Requesting, Quiet
  <2>2. CASE Serving
    <3>1. AnsGot = 0
      BY <1>4 DEF AnsGot
    <3> QED
      BY <1>3, <2>2, <3>1 DEF AnsByte
  <2>3. CASE Running
    BY <1>4, <2>3 DEF Running, CodeCounts
  <2> QED
    BY <2>1, <2>2, <2>3
<1>5. ASSUME host = "eot" PROVE Serving /\ pc = "cmd" /\ shift = Eot
  <2>1. Serving
    BY <1>5 DEF Session, Opening, Between, Requesting, Running
  <2>2. srv.n \in Nat /\ req.len \in Nat /\ srv.n <= req.len
    BY <2>1, Kinds DEF Serving
  <2>3. AnsGot = IF req.op = Read THEN 1 + req.len ELSE 1
    BY <1>5 DEF AnsGot
  <2>4. pc = "cmd"
    BY <1>3, <2>1, <2>2, <2>3 DEF AnsSent, Serving
  <2>5. AnsGot + 1 # 1 /\ (req.op = Read => ~(AnsGot + 1 <= 1 + req.len))
    BY <2>2, <2>3
  <2> QED
    BY <1>3, <2>1, <2>4, <2>5 DEF AnsByte
<1> QED
  BY <1>2, <1>4, <1>5

LEMMA ScoopMarkSession == Typed /\ Session /\ Asked /\ ScoopMark => Session'
<1> SUFFICES ASSUME Typed, Session, Asked, ScoopMark PROVE Session'
  OBVIOUS
<1>1. /\ shift \in Bytes /\ shift' = thr /\ thr' = None /\ k' = 0
      /\ UNCHANGED <<pc, srv, mem, code, rx, eoc, exit, req>>
  BY DEF ScoopMark, Scooped, progVars
<1>2. CASE host = "hello"
  <2>1. Opening /\ pc = "cmd" /\ shift = Ack /\ host' = "next"
    BY <1>2, MarkRight DEF ScoopMark, Scooped, Expect
  <2>2. Between' /\ ~eoc /\ exit = 0
    BY <1>1, <1>2, <2>1 DEF Between, Opening, Quiet, Session, Running
  <2> QED
    BY <1>1, <2>2 DEF Session
<1>3. CASE host = "ack" /\ Serving
  <2>1. host' = AfterAck /\ shift = Ack
    BY <1>3, MarkRight DEF ScoopMark, Scooped, Expect
  <2>2. ~eoc /\ exit = 0 /\ req.op \in {Read, Write} /\ req.op # Exec
    BY <1>3, Marks DEF Session, Serving, Running
  <2>3. req.len \in Nat
    BY Kinds
  <2>4. /\ host' = "eot" \/ (req.op = Read /\ host' = "receive") \/ (req.op = Write /\ host' = "send")
        /\ host' = "eot" => req.len = 0
        /\ host' # "eot" => req.len > 0
    BY <2>1, <2>2, <2>3, Marks DEF AfterAck
  <2>5. AnsGot = 0 /\ AnsGot' = 1 /\ AnsSent' = AnsSent /\ DataSent = 0 /\ DataSent' = 0
    BY <1>1, <1>3, <2>2, <2>4, Marks DEF AnsGot, AnsSent, DataSent
  <2>6. OnLine(shift', thr', AnsSent', AnsGot', AnsByte(req', mem', AnsGot' + 1), AnsByte(req',
               mem', AnsGot' + 2))
    <3>1. OnLine(shift, thr, AnsSent, AnsGot, AnsByte(req, mem, AnsGot + 1), AnsByte(req, mem,
                 AnsGot + 2))
      BY <1>3 DEF Serving
    <3>2. AnsSent \in Nat
      BY <1>3, AnsKind DEF Serving
    <3>3. \A c : OnLine(shift', thr', AnsSent, 1, AnsByte(req, mem, 2), c)
      BY <1>1, <2>5, <3>1, <3>2, Plain DEF OnLine
    <3> QED
      BY <1>1, <2>5, <3>3
  <2>7. Serving'
    BY <1>1, <1>3, <2>2, <2>3, <2>4, <2>5, <2>6 DEF Serving
  <2> QED
    BY <1>1, <2>2, <2>7 DEF Session
<1>4. CASE host = "ack" /\ Running
  <2>1. host' = "running" /\ shift = Ack
    BY <1>4, MarkRight DEF ScoopMark, Scooped, Expect, AfterAck, Running
  <2>2. Eoc \notin Prints => Returning'
    BY <1>1, <1>4, <2>1, Marks, Plain
      DEF Running, CodeCounts, Returning, BeforeEoc, EocOnLine, CodeOnLine
  <2>3. Running'
    BY <1>1, <1>4, <2>1, <2>2 DEF Running, CodeCounts
  <2> QED
    BY <2>3 DEF Session
<1>5. CASE host = "eot"
  <2>1. Serving /\ pc = "cmd" /\ shift = Eot /\ host' = "next"
    BY <1>5, MarkRight DEF ScoopMark, Scooped, Expect
  <2>2. ~eoc /\ exit = 0
    BY <1>5 DEF Session, Running
  <2>3. rx = <<>>
    <3>1. srv.n \in Nat /\ Len(rx) \in Nat /\ rx \in Seq(Bytes) /\ req.len \in Nat
      BY Kinds
    <3>2. req.op = Write => srv.n + Len(rx) = req.len /\ srv.n = req.len
      BY <1>5, <2>1 DEF Serving, DataSent
    <3>3. req.op = Write => Len(rx) = 0
      BY <3>1, <3>2
    <3> QED
      BY <2>1, <3>1, <3>3, Empty DEF Serving
  <2>4. thr = None
    <3>1. OnLine(shift, thr, AnsSent, AnsGot, AnsByte(req, mem, AnsGot + 1), AnsByte(req, mem,
                 AnsGot + 2))
      BY <2>1 DEF Serving
    <3>2. AnsSent = AnsGot + 1 /\ AnsGot \in Nat
      BY <1>5, <2>1, Kinds DEF Serving, AnsSent, AnsGot
    <3> QED
      BY <3>1, <3>2 DEF OnLine
  <2>5. Between'
    BY <1>1, <2>1, <2>3, <2>4 DEF Between, Quiet
  <2> QED
    BY <1>1, <2>2, <2>5 DEF Session
<1> QED
  BY <1>2, <1>3, <1>4, <1>5, MarkRight DEF ScoopMark

----------------------------------------------------------------------------
(* Between two requests.                                                   *)

LEMMA RequestSession ==
  ASSUME Session, NEW op, NEW addr, NEW len, NEW bytes, Request(op, addr, len, bytes)
  PROVE  Session'
<1>1. Between /\ ~eoc /\ exit = 0
  BY DEF Session, Request, HostGoto, Opening, Requesting, Serving, Running
<1> QED
  BY <1>1 DEF Session, Request, HostGoto, Between, Quiet

LEMMA NextBlockSession == Typed /\ Session /\ NextBlock => Session'
<1> SUFFICES ASSUME Typed, Session, NextBlock PROVE Session'
  OBVIOUS
<1> DEFINE s    == image[todo.sec]
           size == Len(s.bytes)
           to   == BlockEnd(todo.offs, size)
<1>1. CASE Request(Write, s.addr + todo.offs, to - todo.offs, SubSeq(s.bytes, todo.offs + 1, to))
  BY <1>1, RequestSession
<1>2. CASE /\ host = "next"
           /\ UNCHANGED <<pc, srv, progVars, rx, thr, shift, image, host, req, k, data, eoc, exit>>
  BY <1>2 DEF Session, Between, Quiet, Opening, Requesting, Serving, Running
<1> QED
  BY <1>1, <1>2 DEF NextBlock

LEMMA NextReadBackSession == Session /\ NextReadBack => Session'
  BY RequestSession DEF NextReadBack

LEMMA NextExecSession == Session /\ NextExec => Session'
  BY RequestSession DEF NextExec

----------------------------------------------------------------------------
(* The program.                                                            *)

LEMMA ProgramSetsUpSession == Session /\ ProgramSetsUp => Session'
<1> SUFFICES ASSUME Session, ProgramSetsUp PROVE Session'
  OBVIOUS
<1>1. Running /\ pc = "start"
  BY DEF Session, ProgramSetsUp, Goto, Opening, Between, Requesting, Serving
<1>2. /\ pc' = "program" /\ rx' = <<>> /\ thr' = None
      /\ UNCHANGED <<srv, shift, host, req, k, eoc, exit, code>>
  BY DEF ProgramSetsUp, Goto, ClearFifos, hostVars, progVars
<1>3. Eoc \notin Prints => Returning'
  BY <1>1, <1>2, Marks, Plain DEF Running, CodeCounts, Returning, BeforeEoc
<1>4. Running'
  BY <1>1, <1>2, <1>3 DEF Running, CodeCounts
<1> QED
  BY <1>4 DEF Session

LEMMA ProgramPrintsSession == Session /\ ProgramPrints => Session'
<1> SUFFICES ASSUME Session, ProgramPrints PROVE Session'
  OBVIOUS
<1>1. Running /\ pc \in {"start", "program"}
  BY DEF Session, ProgramPrints, Opening, Between, Requesting, Serving
<1>2. PICK byte \in Prints : Put(byte)
  BY DEF ProgramPrints
<1>3. byte # None /\ (Eoc \notin Prints => byte # Eoc)
  BY ProgramAssumption, Plain
<1>4. /\ pc' = "program" /\ rx' = rx
      /\ thr = None
      /\ \/ shift = None /\ shift' = byte /\ thr' = None
         \/ shift # None /\ thr' = byte /\ shift' = shift
      /\ UNCHANGED <<srv, host, req, k, eoc, exit, code>>
  BY <1>2 DEF ProgramPrints, Put, hostVars
<1>5. Eoc \notin Prints => Returning'
  BY <1>1, <1>3, <1>4, Marks, Plain DEF Running, CodeCounts, Returning, BeforeEoc
<1>6. Running'
  BY <1>1, <1>3, <1>4, <1>5, Marks, Plain DEF Running, CodeCounts
<1> QED
  BY <1>6 DEF Session

LEMMA ProgramReturnsSession == Session /\ ProgramReturns => Session'
<1> SUFFICES ASSUME Session, ProgramReturns PROVE Session'
  OBVIOUS
<1>1. Running /\ pc \in {"start", "program"}
  BY DEF Session, ProgramReturns, Opening, Between, Requesting, Serving
<1>2. /\ pc' = "eoc" /\ code' \in Codes
      /\ UNCHANGED <<srv, rx, thr, shift, host, req, k, eoc, exit>>
  BY DEF ProgramReturns, hostVars
<1>3. Eoc \notin Prints => Returning'
  BY <1>1, <1>2 DEF Running, CodeCounts, Returning, BeforeEoc
<1>4. Running'
  BY <1>1, <1>2, <1>3 DEF Running, CodeCounts
<1> QED
  BY <1>4 DEF Session

LEMMA SendEocSession == Typed /\ Session /\ SendEoc => Session'
<1> SUFFICES ASSUME Typed, Session, SendEoc PROVE Session'
  OBVIOUS
<1>1. Running /\ pc = "eoc"
  BY DEF Session, SendEoc, Goto, Opening, Between, Requesting, Serving
<1>2. /\ pc' = "ret" /\ rx' = rx /\ srv' = [srv EXCEPT !.n = 0]
      /\ thr = None
      /\ \/ shift = None /\ shift' = Eoc /\ thr' = None
         \/ shift # None /\ thr' = Eoc /\ shift' = shift
      /\ UNCHANGED <<host, req, k, eoc, exit, code>>
  BY DEF SendEoc, Goto, Put, hostVars, progVars
<1>3. srv'.n = 0 /\ srv'.addr = srv.addr /\ srv'.n < CodeBytes
  BY <1>2, Sizes DEF Typed
<1>4. Eoc \notin Prints => Returning'
  BY <1>1, <1>2, <1>3, Marks, Plain DEF Running, CodeCounts, Returning, BeforeEoc, EocOnLine
<1>5. Running'
  BY <1>1, <1>2, <1>3, <1>4, Marks, Plain DEF Running, CodeCounts
<1> QED
  BY <1>5 DEF Session

LEMMA SendCodeSession == Typed /\ Session /\ SendCode => Session'
<1> SUFFICES ASSUME Typed, Session, SendCode PROVE Session'
  OBVIOUS
<1>1. Running /\ pc = "ret" /\ srv.n < CodeBytes /\ srv.n \in Nat /\ code \in Codes /\ code \in Nat
  BY Kinds, Digits DEF Session, SendCode, Goto, Opening, Between, Requesting, Serving, Running
<1>2. /\ pc' = (IF srv.n + 1 < CodeBytes THEN "ret" ELSE "returned") /\ rx' = rx
      /\ srv' = [srv EXCEPT !.n = @ + 1]
      /\ Put(Digit(code, srv.n))
      /\ thr = None /\ ((shift = None /\ shift' = Digit(code, srv.n) /\ thr' = None)
                        \/ (shift # None /\ thr' = Digit(code, srv.n) /\ shift' = shift))
      /\ UNCHANGED <<host, req, k, eoc, exit, code>>
  BY DEF SendCode, CodeDigit, Goto, Put, hostVars, progVars
<1>3. srv'.n = srv.n + 1 /\ srv'.addr = srv.addr
  BY <1>2, Kinds DEF Typed
<1>4. \A d \in 0 .. CodeBytes : Digit(code, d) \in Bytes /\ Digit(code, d) # None
  BY <1>1, Digits, Sizes, Plain
<1>5. ASSUME Eoc \notin Prints PROVE Returning'
  <2>1. (BeforeEoc /\ EocOnLine) \/ CodeOnLine
    BY <1>1, <1>5 DEF Running, CodeCounts, Returning
  <2>2. CASE BeforeEoc /\ EocOnLine
    <3>0. Digit(code, 0) # None
      BY <1>4, Sizes
    <3>1. srv.n = 0 /\ host = "running" /\ shift = Eoc /\ shift # None
      BY <1>2, <2>2, <3>0, Marks, Plain DEF EocOnLine
    <3>2. BeforeEoc'
      BY <1>2, <2>2 DEF BeforeEoc
    <3>3. EocOnLine'
      BY <1>2, <1>3, <3>1 DEF EocOnLine
    <3> QED
      BY <1>2, <3>2, <3>3 DEF Returning
  <2>3. CASE CodeOnLine
    <3> DEFINE a == Digit(code, CodeGot)
               b == Digit(code, CodeGot + 1)
    <3>1. OnLine(shift, thr, srv.n, CodeGot, a, b)
      BY <2>3 DEF CodeOnLine
    <3>2. CodeGot \in Nat
      BY Kinds, Sizes DEF CodeGot
    <3>3. CodeGot <= srv.n
      BY <1>1, <3>1, <3>2 DEF OnLine
    <3>4. a # None /\ b # None
      BY <1>1, <1>4, <3>2, <3>3, Sizes
    <3>5. srv.n \in {CodeGot, CodeGot + 1}
      BY <1>1, <1>2, <3>1, <3>2, <3>4 DEF OnLine
    <3>6. Digit(code, srv.n) = IF srv.n = CodeGot THEN a ELSE b
      BY <3>2, <3>5
    <3>7. CodeGot' = CodeGot
      BY <1>2 DEF CodeGot
    <3> HIDE DEF a, b
    <3>8. OnLine(shift', thr', srv.n + 1, CodeGot, a, b)
      BY <1>1, <1>2, <3>1, <3>2, <3>4, <3>6, PutSent
    <3>9. OnLine(shift, thr, srv.n, CodeGot, Digit(code, CodeGot), Digit(code, CodeGot + 1))'
      BY <1>2, <1>3, <3>7, <3>8 DEF a, b
    <3>10. CodeOnLine'
      BY <1>2, <2>3, <3>7, <3>9 DEF CodeOnLine
    <3> QED
      BY <1>2, <3>10 DEF Returning
  <2> QED
    BY <2>1, <2>2, <2>3
<1>6. Running'
  <2>1. (pc' = "ret" => srv'.n < CodeBytes) /\ (pc' = "returned" => srv'.n = CodeBytes)
    BY <1>1, <1>2, <1>3, Sizes
  <2>2. Digit(code, srv.n) # None
    BY <1>1, <1>4, Sizes
  <2>3. (host' = "ack" => shift' = Ack) /\ (shift' = None => thr' = None)
    BY <1>1, <1>2, <2>2, Marks, Plain DEF Running, CodeCounts
  <2> QED
    BY <1>1, <1>2, <1>3, <1>5, <2>1, <2>3 DEF Running, CodeCounts
<1> QED
  BY <1>6 DEF Session

----------------------------------------------------------------------------
(* What the host makes of it.                                              *)

LEMMA PrintLineSession == Typed /\ Session /\ PrintLine => Session'
<1> SUFFICES ASSUME Typed, Session, PrintLine PROVE Session'
  OBVIOUS
<1>1. /\ shift \in Bytes /\ shift # None /\ shift' = thr /\ thr' = None /\ eoc' = (eoc \/ shift = Eoc)
      /\ host \notin Scooping /\ ~(host = "running" /\ eoc)
      /\ UNCHANGED <<pc, srv, code, rx, req, host, k, exit>>
  BY Plain DEF PrintLine, Scooped, progVars
<1>2. ASSUME Serving PROVE FALSE
  <2>1. host = "send" /\ req.op = Write /\ k < req.len /\ srv.n + Len(rx) = k
    BY <1>1, <1>2 DEF Serving, Scooping, DataSent
  <2>2. pc # "cmd"
    <3>1. srv.n \in Nat /\ Len(rx) \in Nat /\ k \in Nat /\ req.len \in Nat
      BY Kinds
    <3> QED
      BY <1>2, <2>1, <3>1 DEF Serving
  <2>3. AnsSent = 1 /\ AnsGot = 1
    BY <2>1, <2>2, Marks DEF AnsSent, AnsGot
  <2> QED
    BY <1>1, <1>2, <2>3 DEF Serving, OnLine
<1>3. Running /\ host \in {"running", "done"}
  BY <1>1, <1>2 DEF Session, Opening, Between, Requesting, Quiet, Running, Scooping
<1>4. ASSUME Eoc \notin Prints PROVE Returning'
  <2>1. CASE pc \in {"start", "program", "eoc"}
    BY <1>1, <1>3, <1>4, <2>1, Marks, Plain DEF Running, CodeCounts, Returning, BeforeEoc
  <2>2. CASE pc \notin {"start", "program", "eoc"} /\ BeforeEoc /\ EocOnLine
    <3>1. CASE shift # Eoc
      BY <1>1, <1>3, <2>2, <3>1 DEF Returning, BeforeEoc, EocOnLine
    <3>2. CASE shift = Eoc
      <4>1. host' = "running" /\ eoc' /\ CodeGot' = 0 /\ exit' = 0
        BY <1>1, <1>3, <2>2, <3>2 DEF BeforeEoc, CodeGot
      <4>2. code \in Nat
        BY <1>3, <2>2, Digits DEF Running, CodeCounts
      <4>3. exit' = code' % Weight[CodeGot']
        BY <1>1, <4>1, <4>2, Digits
      <4>4. \/ srv.n = 0 /\ thr = None
            \/ srv.n = 1 /\ thr = Digit(code, 0)
        BY <2>2, <3>2 DEF EocOnLine
      <4>5. OnLine(shift', thr', srv'.n, CodeGot', Digit(code', CodeGot'), Digit(code',
                   CodeGot' + 1))
        BY <1>1, <4>1, <4>4 DEF OnLine
      <4>6. CodeOnLine'
        BY <1>1, <4>1, <4>3, <4>5 DEF CodeOnLine
      <4> QED
        BY <1>1, <2>2, <4>6 DEF Returning
    <3> QED
      BY <3>1, <3>2
  <2>3. CASE pc \notin {"start", "program", "eoc"} /\ CodeOnLine
    <3>1. host = "done"
      BY <1>1, <1>3, <2>3 DEF CodeOnLine
    <3>2. srv.n \in Nat /\ srv.n <= CodeBytes /\ CodeGot = CodeBytes
      BY <1>3, <2>3, <3>1, Kinds, Sizes DEF Running, CodeGot
    <3> QED
      BY <1>1, <2>3, <3>2, Sizes DEF CodeOnLine, OnLine
  <2> QED
    BY <1>3, <1>4, <2>1, <2>2, <2>3 DEF Running, CodeCounts, Returning
<1>5. Running'
  BY <1>1, <1>3, <1>4 DEF Running, CodeCounts
<1> QED
  BY <1>5 DEF Session

LEMMA SeeEocSession == Typed /\ Session /\ SeeEoc => Session'
<1> SUFFICES ASSUME Typed, Session, SeeEoc PROVE Session'
  OBVIOUS
<1>1. /\ host = "running" /\ host' = "code" /\ eoc /\ eoc' = FALSE /\ k' = 0
      /\ UNCHANGED <<pc, srv, code, rx, thr, shift, req, exit>>
  BY DEF SeeEoc, HostGoto, progVars
<1>2. Running
  BY <1>1 DEF Session
<1>3. ASSUME Eoc \notin Prints PROVE Returning'
  <2>1. CodeOnLine /\ pc \notin {"start", "program", "eoc"}
    BY <1>1, <1>2, <1>3 DEF Running, CodeCounts, Returning, BeforeEoc
  <2>2. CodeGot = 0 /\ CodeGot' = 0
    BY <1>1 DEF CodeGot
  <2>3. CodeOnLine'
    BY <1>1, <2>1, <2>2, Sizes DEF CodeOnLine
  <2> QED
    BY <1>1, <2>1, <2>3 DEF Returning
<1>4. Running'
  BY <1>1, <1>2, <1>3, Sizes DEF Running, CodeCounts
<1> QED
  BY <1>4 DEF Session

LEMMA ScoopCodeSession == Typed /\ Session /\ ScoopCode => Session'
<1> SUFFICES ASSUME Typed, Session, ScoopCode PROVE Session'
  OBVIOUS
<1>1. /\ host = "code" /\ host' = (IF k + 1 < CodeBytes THEN "code" ELSE "done") /\ k' = k + 1
      /\ shift \in Bytes /\ shift # None /\ shift' = thr /\ thr' = None /\ exit' = exit + shift * Weight[k]
      /\ UNCHANGED <<pc, srv, code, rx, req, eoc>>
  BY Plain DEF ScoopCode, Scooped, HostGoto, progVars
<1>2. Running
  BY <1>1 DEF Session, Opening, Between, Requesting, Serving
<1>3. ASSUME Eoc \notin Prints PROVE Returning'
  <2>1. CodeOnLine /\ pc \in {"ret", "returned"} /\ code \in Nat
    BY <1>1, <1>2, <1>3, Digits DEF Running, CodeCounts, Returning, BeforeEoc
  <2>2. k \in Nat /\ srv.n \in Nat /\ k < CodeBytes /\ CodeGot = k
    BY <1>1, <1>2, <2>1, Kinds DEF CodeOnLine, CodeGot, Running, CodeCounts
  <2>3. CodeGot' = k + 1
    BY <1>1, <2>2, Sizes DEF CodeGot
  <2>4. OnLine(shift, thr, srv.n, k, Digit(code, k), Digit(code, k + 1)) /\ exit = code % Weight[k]
    BY <2>1, <2>2 DEF CodeOnLine
  <2>5. shift = Digit(code, k) /\ \A c : OnLine(shift', thr', srv.n, k + 1, Digit(code, k + 1), c)
    BY <1>1, <2>2, <2>4 DEF OnLine
  <2>6. exit' = code % Weight[k + 1]
    BY <1>1, <2>1, <2>2, <2>4, <2>5, Digits, Sizes
  <2>7. (OnLine(shift, thr, srv.n, CodeGot, Digit(code, CodeGot), Digit(code, CodeGot + 1)))'
    BY <1>1, <2>3, <2>5
  <2>8. CodeOnLine'
    BY <1>1, <2>1, <2>2, <2>3, <2>6, <2>7 DEF CodeOnLine
  <2> QED
    BY <1>1, <2>1, <2>8 DEF Returning
<1>4. Running'
  BY <1>1, <1>2, <1>3 DEF Running, CodeCounts
<1> QED
  BY <1>4 DEF Session

----------------------------------------------------------------------------
(* No step leaves the protocol.                                            *)
LEMMA SessionStep == Typed /\ Session /\ Asked /\ [Next]_vars => Session'
<1> SUFFICES ASSUME Typed, Session, Asked, [Next]_vars PROVE Session'
  OBVIOUS
<1>1. CASE Hart
  BY <1>1, InitUartSession, CheckUartSession, SayHelloSession, TakeCmdSession, TakeAddrSession,
     TakeLenSession,
     AcceptSession, SendDataSession, StoreDataSession, SendEotSession, ProgramSetsUpSession,
     ProgramPrintsSession, ProgramReturnsSession, SendEocSession, SendCodeSession DEF Hart
<1>2. CASE Host
  BY <1>2, ChallengeSession, NextBlockSession, NextReadBackSession, NextExecSession, SendOpSession,
     SendAddrSession, SendLenSession, SendBytesSession, ScoopMarkSession, ScoopDataSession,
     ScoopCodeSession, PrintLineSession, SeeEocSession DEF Host
<1>3. CASE UNCHANGED vars
  BY <1>3
    DEF vars, hostVars, progVars, Session, Opening, Between, Quiet, Requesting, ReqSent, ReqTaken, ReqLen,
              Serving, DataSent, AnsSent, AnsGot, Running, Returning, BeforeEoc, EocOnLine,
              CodeOnLine, CodeGot, CodeCounts
<1> QED
  BY <1>1, <1>2, <1>3 DEF Next

----------------------------------------------------------------------------
(* Types.                                                                  *)
LEMMA PutTyped ==
  ASSUME Typed, NEW x \in Bytes, Put(x)
  PROVE  rx' = rx /\ thr' \in ByteOrNone /\ shift' \in ByteOrNone /\ UNCHANGED hostVars
  BY DEF Typed, Put, ByteOrNone

LEMMA TakeTyped ==
  ASSUME Typed, NEW x \in Bytes, Take(x)
  PROVE  rx' \in Seq(Bytes) /\ thr' = thr /\ shift' = shift /\ UNCHANGED hostVars
<1>1. rx \in Seq(Bytes) /\ rx # <<>>
  BY DEF Typed, Take
<1> QED
  BY <1>1, Taken DEF Take

(* The hart's variables.                                                   *)
HartTyped ==
  /\ pc \in {"init", "check", "hello", "cmd", "addr", "len", "accept", "transfer",
             "start", "program", "eoc", "ret", "returned"}
  /\ srv \in [cmd : Bytes, addr : Nat, len : Nat, n : Nat]
  /\ mem \in [Memory -> Bytes] /\ code \in Nat \union {None} /\ prints \in Nat

HostTyped ==
  /\ host \in {"settle", "hello", "next", "op", "addr", "len", "ack", "send", "receive",
               "eot", "running", "code", "done"}
  /\ image \in Images
  /\ req \in [op : Bytes, addr : Words, len : Words, bytes : Seq(Bytes)]
  /\ todo \in [sec : Nat \ {0}, offs : Nat, reads : Nat]
  /\ k \in Nat /\ data \in Seq(Bytes) /\ eoc \in BOOLEAN /\ exit \in Nat

LineTyped == rx \in Seq(Bytes) /\ thr \in ByteOrNone /\ shift \in ByteOrNone

LEMMA Parts == Typed <=> HartTyped /\ HostTyped /\ LineTyped
  BY DEF Typed, HartTyped, HostTyped, LineTyped

LEMMA HostHeld == hostVars' = hostVars /\ HostTyped => HostTyped'
  BY DEF hostVars, HostTyped

LEMMA TakeTypes ==
  ASSUME Typed, NEW x \in Bytes, Take(x), HartTyped' PROVE Typed'
<1>1. LineTyped' /\ UNCHANGED hostVars
  BY TakeTyped DEF LineTyped, Typed
<1> QED
  BY <1>1, Parts, HostHeld DEF HartTyped, HostTyped, LineTyped, Typed

LEMMA PutTypes ==
  ASSUME Typed, NEW x \in Bytes, Put(x), HartTyped' PROVE Typed'
<1>1. LineTyped' /\ UNCHANGED hostVars
  BY PutTyped DEF LineTyped, Typed
<1> QED
  BY <1>1, Parts, HostHeld DEF HartTyped, HostTyped, LineTyped, Typed

LEMMA Counted ==
  Typed /\ srv' = [srv EXCEPT !.n = @ + 1] => srv' \in [cmd : Bytes, addr : Nat, len : Nat, n : Nat]
<1> SUFFICES ASSUME Typed, srv' = [srv EXCEPT !.n = @ + 1]
             PROVE  srv' \in [cmd : Bytes, addr : Nat, len : Nat, n : Nat]
  OBVIOUS
<1>1. srv \in [cmd : Bytes, addr : Nat, len : Nat, n : Nat]
  BY DEF Typed
<1> HIDE DEF Bytes
<1> QED
  BY <1>1

LEMMA HartTypes == Typed /\ Session /\ Asked /\ Hart => Typed'
<1> SUFFICES ASSUME Typed, Session, Asked, Hart PROVE Typed'
  OBVIOUS
<1> USE DEF Goto, progVars
<1>1. CASE InitUart
  BY <1>1 DEF InitUart, ClearFifos, Typed, ByteOrNone, hostVars
<1>2. CASE CheckUart
  <2>1. PICK byte \in Bytes : Take(byte)
    BY <1>2 DEF CheckUart
  <2>2. HartTyped'
    BY <1>2 DEF CheckUart, Typed, HartTyped
  <2> QED
    BY <2>1, <2>2, TakeTypes
<1>3. CASE SayHello
  BY <1>3, Marks, PutTypes DEF SayHello, Typed, HartTyped
<1>4. CASE TakeCmd
  <2>1. PICK byte \in Bytes :
           /\ Take(byte) /\ srv' = [Idle EXCEPT !.cmd = byte]
           /\ (pc' = "addr" /\ code' = code) \/ (pc' = "returned" /\ code' = 1)
    BY <1>4 DEF TakeCmd
  <2>2. srv' \in [cmd : Bytes, addr : Nat, len : Nat, n : Nat]
    BY <2>1, Marks DEF Idle
  <2>3. HartTyped'
    BY <1>4, <2>1, <2>2 DEF TakeCmd, Typed, HartTyped
  <2> QED
    BY <2>1, <2>3, TakeTypes
<1>5. CASE TakeAddr
  <2>1. PICK byte \in Bytes :
           Take(byte) /\ srv' = [srv EXCEPT !.addr = WithDigit(srv.addr, byte), !.n = IF Last THEN 0 ELSE @ + 1]
    BY <1>5 DEF TakeAddr
  <2>2. WithDigit(srv.addr, byte) \in Nat
    <3>0. Requesting /\ pc = "addr"
      BY <1>5, <2>1, ByteIsRequest DEF TakeAddr, Take
    <3>1. srv.n \in 0 .. WordBytes /\ srv.addr \in Nat
      BY <3>0, Kinds, Sizes DEF Requesting
    <3>2. Weight[srv.n] \in Nat /\ byte \in Nat
      BY <3>1, Weights, Plain
    <3> QED
      BY <3>1, <3>2 DEF WithDigit
  <2>0. srv' \in [cmd : Bytes, addr : Nat, len : Nat, n : Nat]
    <3>1. srv \in [cmd : Bytes, addr : Nat, len : Nat, n : Nat] /\ (IF Last THEN 0 ELSE srv.n + 1) \in Nat
      BY DEF Typed
    <3> QED
      BY <2>1, <2>2, <3>1
  <2>3. HartTyped'
    BY <1>5, <2>0 DEF TakeAddr, Typed, HartTyped
  <2> QED
    BY <2>1, <2>3, TakeTypes
<1>6. CASE TakeLen
  <2>1. PICK byte \in Bytes :
           Take(byte) /\ srv' = [srv EXCEPT !.len = WithDigit(srv.len, byte), !.n = IF Last THEN 0 ELSE @ + 1]
    BY <1>6 DEF TakeLen
  <2>2. WithDigit(srv.len, byte) \in Nat
    <3>0. Requesting /\ pc = "len"
      BY <1>6, <2>1, ByteIsRequest DEF TakeLen, Take
    <3>1. srv.n \in 0 .. WordBytes /\ srv.len \in Nat
      BY <3>0, Kinds, Sizes DEF Requesting
    <3>2. Weight[srv.n] \in Nat /\ byte \in Nat
      BY <3>1, Weights, Plain
    <3> QED
      BY <3>1, <3>2 DEF WithDigit
  <2>0. srv' \in [cmd : Bytes, addr : Nat, len : Nat, n : Nat]
    <3>1. srv \in [cmd : Bytes, addr : Nat, len : Nat, n : Nat] /\ (IF Last THEN 0 ELSE srv.n + 1) \in Nat
      BY DEF Typed
    <3> QED
      BY <2>1, <2>2, <3>1
  <2>3. HartTyped'
    BY <1>6, <2>0 DEF TakeLen, Typed, HartTyped
  <2> QED
    BY <2>1, <2>3, TakeTypes
<1>7. CASE Accept
  BY <1>7, Marks, PutTypes DEF Accept, Typed, HartTyped
<1>8. CASE SendData
  <2>1. Serving /\ req.op = Read /\ srv.n < req.len
    BY <1>8 DEF Session, SendData, More, Opening, Between, Requesting, Serving, Running
  <2>2. srv.addr + srv.n \in req.addr .. req.addr + req.len - 1
    <3>1. srv.addr = req.addr /\ req.addr \in Nat /\ req.len \in Nat /\ srv.n \in Nat
      BY <2>1, Kinds DEF Serving
    <3> QED
      BY <2>1, <3>1
  <2>3. mem[srv.addr + srv.n] \in Bytes
    <3>1. srv.addr + srv.n \in Memory
      BY <2>1, <2>2 DEF Asked
    <3> QED
      BY <3>1 DEF Typed
  <2>0. srv' \in [cmd : Bytes, addr : Nat, len : Nat, n : Nat]
    BY <1>8, Counted DEF SendData
  <2>4. HartTyped'
    BY <1>8, <2>0 DEF SendData, Typed, HartTyped
  <2> QED
    BY <1>8, <2>3, <2>4, PutTypes DEF SendData, Cell
<1>9. CASE StoreData
  <2>1. PICK byte \in Bytes : Take(byte) /\ mem' = [mem EXCEPT ![Cell] = byte]
    BY <1>9 DEF StoreData
  <2>2. mem' \in [Memory -> Bytes]
    BY <2>1 DEF Typed
  <2>0. srv' \in [cmd : Bytes, addr : Nat, len : Nat, n : Nat]
    BY <1>9, Counted DEF StoreData
  <2>3. HartTyped'
    BY <1>9, <2>0, <2>2 DEF StoreData, Typed, HartTyped
  <2> QED
    BY <2>1, <2>3, TakeTypes
<1>10. CASE SendEot
  BY <1>10, Marks, PutTypes DEF SendEot, Typed, HartTyped
<1>11. CASE ProgramSetsUp
  BY <1>11 DEF ProgramSetsUp, ClearFifos, Typed, ByteOrNone, hostVars
<1>12. CASE ProgramPrints
  <2>1. PICK byte \in Prints : Put(byte)
    BY <1>12 DEF ProgramPrints
  <2>2. HartTyped'
    BY <1>12 DEF ProgramPrints, Typed, HartTyped
  <2>3. byte \in Bytes
    BY ProgramAssumption
  <2> QED
    BY <2>1, <2>2, <2>3, PutTypes
<1>13. CASE ProgramReturns
  <2>1. code' \in Nat
    BY <1>13, Digits DEF ProgramReturns
  <2> QED
    BY <1>13, <2>1 DEF ProgramReturns, Typed, hostVars
<1>14. CASE SendEoc
  <2>1. HartTyped'
    BY <1>14 DEF SendEoc, Typed, HartTyped
  <2> QED
    BY <1>14, <2>1, Marks, PutTypes DEF SendEoc
<1>15. CASE SendCode
  <2>1. code \in Codes /\ srv.n < CodeBytes /\ srv.n \in Nat
    BY <1>15, Kinds DEF SendCode, Session, Opening, Between, Requesting, Serving, Running
  <2>2. Digit(code, srv.n) \in Bytes
    <3>1. code \in Nat /\ srv.n \in 0 .. WordBytes
      BY <2>1, Digits, Sizes
    <3> QED
      BY <3>1, Digits
  <2>0. srv' \in [cmd : Bytes, addr : Nat, len : Nat, n : Nat]
    BY <1>15, Counted DEF SendCode
  <2>3. HartTyped'
    BY <1>15, <2>0 DEF SendCode, Typed, HartTyped
  <2> QED
    BY <1>15, <2>2, <2>3, PutTypes DEF SendCode, CodeDigit
<1> QED
  BY <1>1, <1>2, <1>3, <1>4, <1>5, <1>6, <1>7, <1>8, <1>9, <1>10, <1>11, <1>12, <1>13, <1>14,
     <1>15 DEF Hart

----------------------------------------------------------------------------
(* What the host asks for.                                                 *)

LEMMA Element == ASSUME NEW S, NEW q \in Seq(S), NEW i \in 1 .. Len(q) PROVE q[i] \in S
  OBVIOUS

LEMMA SectionFacts ==
  ASSUME Typed, NEW s \in 1 .. Len(image)
  PROVE  /\ image[s].addr \in Nat /\ image[s].bytes \in Seq(Bytes) /\ Len(image[s].bytes) \in Nat
         /\ image[s].addr + Len(image[s].bytes) \in Words
<1>1. image \in Images /\ image \in Seq([addr : Nat, bytes : Seq(Bytes)])
  BY ImageAssumption DEF Typed
<1>2. image[s] \in [addr : Nat, bytes : Seq(Bytes)]
  BY <1>1, Element
<1>3. image[s].addr + Len(image[s].bytes) \in Words
  BY <1>1, ImageAssumption
<1> QED
  BY <1>2, <1>3

LEMMA Slice ==
  ASSUME NEW s \in Seq(Bytes), NEW m \in Nat, NEW n \in Nat, m <= n, n <= Len(s)
  PROVE  /\ SubSeq(s, m + 1, n) \in Seq(Bytes) /\ Len(SubSeq(s, m + 1, n)) = n - m
         /\ \A i \in 1 .. n - m : SubSeq(s, m + 1, n)[i] = s[m + i]
  OBVIOUS

BlockSlice(a, b, o, to) ==
  /\ to \in Nat /\ o <= to /\ to <= Len(b) /\ to <= o + Burst
  /\ a + o \in Words /\ to - o \in Words /\ to - o \in Nat
  /\ SubSeq(b, o + 1, to) \in Seq(Bytes) /\ Len(SubSeq(b, o + 1, to)) = to - o
  /\ \A i \in 1 .. to - o : SubSeq(b, o + 1, to)[i] = b[o + i]

LEMMA BlockFacts ==
  \A a \in Nat, b \in Seq(Bytes), o \in Nat :
    a + Len(b) \in Words /\ o <= Len(b) => BlockSlice(a, b, o, BlockEnd(o, Len(b)))
<1> TAKE a \in Nat, b \in Seq(Bytes), o \in Nat
<1> SUFFICES ASSUME a + Len(b) \in Words, o <= Len(b) PROVE BlockSlice(a, b, o, BlockEnd(o, Len(b)))
  OBVIOUS
<1> DEFINE to == BlockEnd(o, Len(b))
<1>1. Len(b) \in Nat
  OBVIOUS
<1>2. to \in Nat /\ o <= to /\ to <= Len(b) /\ to <= o + Burst
  BY <1>1, Sizes DEF BlockEnd
<1> HIDE DEF to
<1>3. Weight[WordBytes] \in Nat
  BY Weights, Sizes
<1>4. \A w \in Nat : a + Len(b) \in 0 .. w - 1 => a + o \in 0 .. w - 1 /\ to - o \in 0 .. w - 1
  BY <1>1, <1>2
<1>5. a + o \in Words /\ to - o \in Words /\ to - o \in Nat
  BY <1>2, <1>3, <1>4 DEF Words
<1>6. BlockSlice(a, b, o, to)
  BY <1>2, <1>5, Slice DEF BlockSlice
<1> QED
  BY <1>6 DEF to


LEMMA SendTypes ==
  ASSUME Typed, NEW x \in Bytes, Send(x), UNCHANGED req, HostTyped'
  PROVE  Typed'
<1>1. rx \in Seq(Bytes)
  BY DEF Typed
<1>2. rx' \in Seq(Bytes)
  BY <1>1, Appended DEF Send
<1>3. LineTyped' /\ HartTyped'
  BY <1>2 DEF Send, progVars, Typed, LineTyped, HartTyped
<1> QED
  BY <1>3 DEF Typed, HartTyped, HostTyped, LineTyped

LEMMA ScoopTypes ==
  ASSUME Typed, NEW x \in Bytes, Scooped(x), HostTyped'
  PROVE  Typed'
<1>1. LineTyped' /\ HartTyped'
  BY DEF Scooped, progVars, Typed, LineTyped, HartTyped, ByteOrNone
<1> QED
  BY <1>1 DEF Typed, HartTyped, HostTyped, LineTyped

LEMMA RequestTypes ==
  ASSUME Typed, NEW op \in Bytes, NEW addr \in Words, NEW len \in Words, NEW bytes \in Seq(Bytes),
         Request(op, addr, len, bytes), todo' \in [sec : Nat \ {0}, offs : Nat, reads : Nat]
  PROVE  Typed'
<1>1. req' \in [op : Bytes, addr : Words, len : Words, bytes : Seq(Bytes)] /\ data' \in Seq(Bytes)
  <2> HIDE DEF Bytes, Words
  <2> QED
    BY DEF Request
<1>2. LineTyped' /\ HartTyped'
  BY DEF Request, progVars, Typed, LineTyped, HartTyped
<1>3. HostTyped'
  BY <1>1 DEF Request, HostGoto, Typed, HostTyped
<1> QED
  BY <1>2, <1>3 DEF Typed, HartTyped, HostTyped, LineTyped

(* What NextBlock asks for.                                                *)
LEMMA BlockRequest ==
  ASSUME Typed, NextBlock, BlockLeft(todo.offs, Len(image[todo.sec].bytes))
  PROVE  /\ todo.sec \in 1 .. Len(image)
         /\ \E to \in Nat :
              /\ to = BlockEnd(todo.offs, Len(image[todo.sec].bytes))
              /\ BlockSlice(image[todo.sec].addr, image[todo.sec].bytes, todo.offs, to)
              /\ Request(Write, image[todo.sec].addr + todo.offs, to - todo.offs,
                         SubSeq(image[todo.sec].bytes, todo.offs + 1, to))
         /\ todo' = [todo EXCEPT !.offs = @ + Burst]
<1>1. todo.sec \in 1 .. Len(image)
  <2>1. image \in Seq([addr : Nat, bytes : Seq(Bytes)])
    BY ImageAssumption DEF Typed
  <2>2. Len(image) \in Nat
    BY <2>1
  <2> QED
    BY <2>2, Kinds DEF NextBlock
<1> DEFINE a == image[todo.sec].addr
           b == image[todo.sec].bytes
           o == todo.offs
           to == BlockEnd(o, Len(b))
<1>2. a \in Nat /\ b \in Seq(Bytes) /\ a + Len(b) \in Words /\ o \in Nat /\ o <= Len(b)
  BY <1>1, SectionFacts, Kinds DEF BlockLeft
<1>3. Request(Write, a + o, to - o, SubSeq(b, o + 1, to)) /\ todo' = [todo EXCEPT !.offs = @ + Burst]
  BY DEF NextBlock
<1>4. BlockSlice(a, b, o, to)
  <2> HIDE DEF a, b, o
  <2> QED
    BY <1>2, BlockFacts, Zenon
<1>5. to \in Nat
  BY <1>4 DEF BlockSlice
<1> QED
  BY <1>1, <1>3, <1>4, <1>5

LEMMA TodoTypes ==
  todo \in [sec : Nat \ {0}, offs : Nat, reads : Nat] =>
    /\ [todo EXCEPT !.offs = @ + Burst] \in [sec : Nat \ {0}, offs : Nat, reads : Nat]
    /\ [todo EXCEPT !.sec = @ + 1, !.offs = 0] \in [sec : Nat \ {0}, offs : Nat, reads : Nat]
    /\ todo.reads > 0 =>
         [todo EXCEPT !.reads = @ - 1] \in [sec : Nat \ {0}, offs : Nat, reads : Nat]
<1> SUFFICES ASSUME todo \in [sec : Nat \ {0}, offs : Nat, reads : Nat]
             PROVE  /\ [todo EXCEPT !.offs = @ + Burst] \in [sec : Nat \ {0}, offs : Nat, reads : Nat]
                    /\ [todo EXCEPT !.sec = @ + 1, !.offs = 0] \in [sec : Nat \ {0}, offs : Nat, reads : Nat]
                    /\ todo.reads > 0 =>
                         [todo EXCEPT !.reads = @ - 1] \in [sec : Nat \ {0}, offs : Nat, reads : Nat]
  OBVIOUS
<1>1. todo.offs + Burst \in Nat /\ todo.sec + 1 \in Nat \ {0} /\ (todo.reads > 0 => todo.reads - 1 \in Nat)
  BY Sizes
<1>2. [todo EXCEPT !.offs = @ + Burst] \in [sec : Nat \ {0}, offs : Nat, reads : Nat]
  BY <1>1
<1>3. [todo EXCEPT !.sec = @ + 1, !.offs = 0] \in [sec : Nat \ {0}, offs : Nat, reads : Nat]
  BY <1>1
<1>4. todo.reads > 0 => [todo EXCEPT !.reads = @ - 1] \in [sec : Nat \ {0}, offs : Nat, reads : Nat]
  BY <1>1
<1> QED
  BY <1>2, <1>3, <1>4

LEMMA NextTypes == Typed /\ (NextBlock \/ NextReadBack \/ NextExec) => Typed'
<1> SUFFICES ASSUME Typed, NextBlock \/ NextReadBack \/ NextExec PROVE Typed'
  OBVIOUS
<1>0. todo \in [sec : Nat \ {0}, offs : Nat, reads : Nat]
  BY DEF Typed
<1>1. CASE NextBlock /\ BlockLeft(todo.offs, Len(image[todo.sec].bytes))
  <2>1. todo' \in [sec : Nat \ {0}, offs : Nat, reads : Nat]
    BY <1>0, <1>1, BlockRequest, TodoTypes
  <2>2. PICK to \in Nat :
          /\ BlockSlice(image[todo.sec].addr, image[todo.sec].bytes, todo.offs, to)
          /\ Request(Write, image[todo.sec].addr + todo.offs, to - todo.offs,
                     SubSeq(image[todo.sec].bytes, todo.offs + 1, to))
    BY <1>1, BlockRequest
  <2> QED
    BY <2>1, <2>2, Marks, RequestTypes DEF BlockSlice
<1>2. CASE NextBlock /\ ~BlockLeft(todo.offs, Len(image[todo.sec].bytes))
  <2>1. /\ todo' = [todo EXCEPT !.sec = @ + 1, !.offs = 0]
        /\ UNCHANGED <<pc, srv, progVars, rx, thr, shift, image, host, req, k, data, eoc, exit>>
    BY <1>2 DEF NextBlock
  <2>2. todo' \in [sec : Nat \ {0}, offs : Nat, reads : Nat]
    BY <1>0, <2>1, TodoTypes
  <2> QED
    BY <2>1, <2>2 DEF Typed, progVars
<1>3. CASE NextReadBack
  <2>1. todo' \in [sec : Nat \ {0}, offs : Nat, reads : Nat]
    BY <1>0, <1>3, TodoTypes DEF NextReadBack
  <2>2. PICK r \in ReadBacks : Request(Read, r.addr, r.len, <<>>)
    BY <1>3 DEF NextReadBack
  <2>3. r.addr \in Words /\ r.len \in Words /\ <<>> \in Seq(Bytes)
    BY ReadBackAssumption
  <2> QED
    BY <2>1, <2>2, <2>3, Marks, RequestTypes
<1>4. CASE NextExec
  <2>1. Request(Exec, Entry, 0, <<>>) /\ todo' \in [sec : Nat \ {0}, offs : Nat, reads : Nat]
    BY <1>0, <1>4 DEF NextExec
  <2>2. Entry \in Words /\ 0 \in Words /\ <<>> \in Seq(Bytes)
    BY ProgramAssumption, Weights, Sizes DEF Words
  <2> QED
    BY <2>1, <2>2, Marks, RequestTypes
<1> QED
  BY <1>1, <1>2, <1>3, <1>4

LEMMA HostTypes == Typed /\ Session /\ Asked /\ Host => Typed'
<1> SUFFICES ASSUME Typed, Session, Asked, Host PROVE Typed'
  OBVIOUS
<1>0. HostTyped /\ k \in Nat /\ exit \in Nat /\ data \in Seq(Bytes)
  BY Parts, Kinds
<1>1. CASE Challenge
  <2>1. HostTyped'
    BY <1>0, <1>1 DEF Challenge, HostGoto, Send, HostTyped
  <2> QED
    BY <1>1, <2>1, Marks, SendTypes DEF Challenge
<1>2. CASE NextBlock \/ NextReadBack \/ NextExec
  BY <1>2, NextTypes
<1>3. CASE SendOp
  <2>1. HostTyped'
    BY <1>0, <1>3 DEF SendOp, HostGoto, Send, HostTyped
  <2> QED
    BY <1>3, <2>1, Kinds, SendTypes DEF SendOp
<1>4. CASE SendAddr \/ SendLen
  <2>1. (k + 1) % WordBytes \in Nat
    BY <1>0, Sizes, Remainder
  <2>2. HostTyped'
    BY <1>0, <1>4, <2>1 DEF SendAddr, SendLen, HostGoto, Send, HostTyped
  <2>3. k \in 0 .. WordBytes
    BY <1>0, <1>4, Sizes
      DEF SendAddr, SendLen, HostGoto, Session, Opening, Between, Requesting, Serving, Running
  <2>4. Digit(req.addr, k) \in Bytes /\ Digit(req.len, k) \in Bytes
    BY <2>3, Digits, Kinds
  <2> QED
    BY <1>4, <2>2, <2>4, SendTypes DEF SendAddr, SendLen
<1>5. CASE SendBytes
  <2>1. HostTyped'
    BY <1>0, <1>5 DEF SendBytes, HostGoto, Send, HostTyped
  <2>2. k < req.len /\ req.op = Write
    BY <1>5 DEF SendBytes, HostGoto, Session, Opening, Between, Requesting, Serving, Running
  <2>3. req.bytes[k + 1] \in Bytes
    BY <1>0, <2>2, Kinds DEF Asked
  <2> QED
    BY <1>5, <2>1, <2>3, SendTypes DEF SendBytes
<1>6. CASE ScoopMark
  <2>1. PICK byte \in Bytes : Scooped(byte)
    BY <1>6 DEF ScoopMark
  <2>2. host' \in {"next", "eot", "receive", "send", "running"}
    BY <1>6, MarkRight DEF ScoopMark, Scooped, Expect, AfterAck
  <2>3. HostTyped'
    BY <1>0, <1>6, <2>1, <2>2 DEF ScoopMark, Scooped, HostTyped
  <2> QED
    BY <2>1, <2>3, ScoopTypes
<1>7. CASE ScoopData
  <2>1. PICK byte \in Bytes : Scooped(byte) /\ data' = Append(data, byte)
    BY <1>7 DEF ScoopData
  <2>2. data' \in Seq(Bytes)
    BY <1>0, <2>1, Appended
  <2>3. HostTyped'
    BY <1>0, <1>7, <2>1, <2>2 DEF ScoopData, HostGoto, Scooped, HostTyped
  <2> QED
    BY <2>1, <2>3, ScoopTypes
<1>8. CASE ScoopCode
  <2>1. PICK byte \in Bytes : Scooped(byte) /\ exit' = exit + byte * Weight[k]
    BY <1>8 DEF ScoopCode
  <2>2. exit' \in Nat
    <3>1. k < CodeBytes
      BY <1>8
        DEF ScoopCode, HostGoto, Session, Opening, Between, Requesting, Serving, Running, CodeCounts
    <3>2. Weight[k] \in Nat /\ byte \in Nat
      BY <1>0, <3>1, Weights, Sizes, Plain
    <3> QED
      BY <1>0, <2>1, <3>2
  <2>3. HostTyped'
    BY <1>0, <1>8, <2>1, <2>2 DEF ScoopCode, HostGoto, Scooped, HostTyped
  <2> QED
    BY <2>1, <2>3, ScoopTypes
<1>9. CASE PrintLine
  <2>1. PICK byte \in Bytes : Scooped(byte) /\ eoc' = (eoc \/ byte = Eoc)
    BY <1>9 DEF PrintLine
  <2>2. eoc' \in BOOLEAN
    BY <2>1
  <2>3. HostTyped'
    BY <1>0, <1>9, <2>1, <2>2 DEF PrintLine, Scooped, HostTyped
  <2> QED
    BY <2>1, <2>3, ScoopTypes
<1>10. CASE SeeEoc
  BY <1>10 DEF SeeEoc, HostGoto, Typed, progVars
<1> QED
  BY <1>1, <1>2, <1>3, <1>4, <1>5, <1>6, <1>7, <1>8, <1>9, <1>10 DEF Host

----------------------------------------------------------------------------
(* What is asked stays as it is asked.                                     *)

LEMMA HartHeld == Hart => UNCHANGED hostVars
  BY
    DEF Hart, InitUart, CheckUart, SayHello, TakeCmd, TakeAddr, TakeLen, Accept, SendData, StoreData, SendEot,
         ProgramSetsUp, ProgramPrints, ProgramReturns, SendEoc, SendCode, Put, Take, ClearFifos

LEMMA AskedHeld ==
  ASSUME Asked, UNCHANGED <<image, req, todo>>, InSession' => InSession, host' = "op" => k' = 0
  PROVE  Asked'
  BY DEF Asked, InSession, BlockAsked, BlockFrom

(* The host's steps but those that start a request.                        *)
Moves ==
  \/ Challenge \/ SendOp \/ SendAddr \/ SendLen \/ SendBytes
  \/ ScoopMark \/ ScoopData \/ ScoopCode \/ PrintLine \/ SeeEoc

LEMMA MovesHeld ==
  ASSUME Typed, Session, Asked, Moves
  PROVE  /\ UNCHANGED <<image, req, todo, mem, srv, code>>
         /\ InSession' => InSession
         /\ host' = "op" => k' = k /\ host = "op"
<1>1. ASSUME ScoopMark PROVE host' # "fatal" /\ host' # "op"
  BY <1>1, MarkRight DEF ScoopMark, Scooped, Expect, AfterAck
<1> QED
  BY <1>1
    DEF Moves, Challenge, SendOp, SendAddr, SendLen, SendBytes, ScoopMark, ScoopData, ScoopCode, PrintLine,
     SeeEoc, Send, Scooped, HostGoto, progVars, InSession, Expect

LEMMA AskedMoves == Typed /\ Session /\ Asked /\ Moves => Asked'
<1> SUFFICES ASSUME Typed, Session, Asked, Moves PROVE Asked'
  OBVIOUS
<1>1. UNCHANGED <<image, req, todo>> /\ (InSession' => InSession) /\ (host' = "op" => k' = 0)
  BY MovesHeld DEF Asked
<1> QED
  BY <1>1, AskedHeld

LEMMA AskedNext == Typed /\ Asked /\ (NextBlock \/ NextReadBack \/ NextExec) => Asked'
<1> SUFFICES ASSUME Typed, Asked, NextBlock \/ NextReadBack \/ NextExec PROVE Asked'
  OBVIOUS
<1>1. todo \in [sec : Nat \ {0}, offs : Nat, reads : Nat] /\ Burst \in Nat
  BY Sizes DEF Typed
<1>2. Len(image) \in Nat
  <2>1. image \in Seq([addr : Nat, bytes : Seq(Bytes)])
    BY ImageAssumption DEF Typed
  <2> QED
    BY <2>1
<1>3. CASE NextBlock /\ BlockLeft(todo.offs, Len(image[todo.sec].bytes))
  <2>1. todo.sec \in 1 .. Len(image) /\ todo' = [todo EXCEPT !.offs = @ + Burst]
    BY <1>3, BlockRequest
  <2>2. PICK to \in Nat :
          /\ to = BlockEnd(todo.offs, Len(image[todo.sec].bytes))
          /\ BlockSlice(image[todo.sec].addr, image[todo.sec].bytes, todo.offs, to)
          /\ Request(Write, image[todo.sec].addr + todo.offs, to - todo.offs,
                     SubSeq(image[todo.sec].bytes, todo.offs + 1, to))
    BY <1>3, BlockRequest
  <2>3. todo'.sec = todo.sec /\ todo'.offs = todo.offs + Burst
    BY <1>1, <2>1
  <2>4. /\ req'.op = Write /\ req'.addr = image[todo.sec].addr + todo.offs /\ req'.len = to - todo.offs
        /\ req'.bytes = SubSeq(image[todo.sec].bytes, todo.offs + 1, to)
        /\ image' = image /\ k' = 0 /\ host' = "op"
    BY <2>2 DEF Request, HostGoto
  <2>5. BlockFrom' = todo.offs
    BY <1>1, <2>3 DEF BlockFrom
  <2>6. BlockAsked'
    <3>1. todo'.sec <= Len(image') /\ BlockFrom' >= 0 /\ BlockFrom' <= Len(image'[todo'.sec].bytes)
      BY <1>1, <1>3, <2>1, <2>3, <2>4, <2>5 DEF BlockLeft
    <3>2. /\ req'.addr = image'[todo'.sec].addr + BlockFrom'
          /\ req'.len = BlockEnd(BlockFrom', Len(image'[todo'.sec].bytes)) - BlockFrom'
      BY <2>2, <2>3, <2>4, <2>5
    <3>3. \A i \in 1 .. req'.len : req'.bytes[i] = image'[todo'.sec].bytes[BlockFrom' + i]
      BY <2>2, <2>3, <2>4, <2>5 DEF BlockSlice
    <3> QED
      BY <3>1, <3>2, <3>3 DEF BlockAsked, BlockEnd
  <2>7. Len(req'.bytes) = req'.len
    BY <2>2, <2>4 DEF BlockSlice
  <2>8. todo'.sec <= Len(image') + 1
    BY <1>2, <2>1, <2>3, <2>4
  <2> QED
    BY <2>4, <2>6, <2>7, <2>8, Marks DEF Asked
<1>4. CASE NextBlock /\ ~BlockLeft(todo.offs, Len(image[todo.sec].bytes))
  <2>1. /\ todo' = [todo EXCEPT !.sec = @ + 1, !.offs = 0] /\ todo.sec <= Len(image) /\ host = "next"
        /\ UNCHANGED <<image, host, req, k>>
    BY <1>4 DEF NextBlock
  <2>2. todo'.sec = todo.sec + 1
    BY <1>1, <2>1
  <2>3. req.op # Exec /\ req.op # Read
    BY <1>1, <1>2, <2>1 DEF Asked
  <2>4. todo'.sec <= Len(image') + 1
    BY <1>1, <1>2, <2>1, <2>2
  <2> QED
    BY <2>1, <2>3, <2>4 DEF Asked, InSession
<1>5. CASE NextReadBack
  <2>1. PICK r \in ReadBacks : Request(Read, r.addr, r.len, <<>>)
    BY <1>5 DEF NextReadBack
  <2>2. req'.op = Read /\ req'.addr = r.addr /\ req'.len = r.len /\ image' = image /\ k' = 0 /\ host' = "op"
    BY <2>1 DEF Request, HostGoto
  <2>3. r.addr .. r.addr + r.len - 1 \subseteq Memory
    BY ReadBackAssumption
  <2>4. todo'.sec = todo.sec /\ todo.sec > Len(image)
    BY <1>1, <1>5 DEF NextReadBack
  <2> QED
    BY <2>2, <2>3, <2>4, Marks DEF Asked
<1>6. CASE NextExec
  <2>1. Request(Exec, Entry, 0, <<>>) /\ todo' = todo /\ todo.sec > Len(image)
    BY <1>6 DEF NextExec
  <2>2. req'.op = Exec /\ req'.addr = Entry /\ req'.len = 0 /\ image' = image /\ k' = 0 /\ host' = "op"
    BY <2>1 DEF Request, HostGoto
  <2> QED
    BY <2>1, <2>2, Marks DEF Asked
<1> QED
  BY <1>3, <1>4, <1>5, <1>6

LEMMA AskedStep == Typed /\ Session /\ Asked /\ [Next]_vars => Asked'
<1> SUFFICES ASSUME Typed, Session, Asked, [Next]_vars PROVE Asked'
  OBVIOUS
<1>1. CASE Hart \/ UNCHANGED vars
  <2>1. UNCHANGED <<image, req, todo, host, k>>
    BY <1>1, HartHeld DEF hostVars, vars
  <2> QED
    BY <2>1, AskedHeld DEF InSession, Asked
<1>2. CASE Host
  <2>1. Moves \/ NextBlock \/ NextReadBack \/ NextExec
    BY <1>2 DEF Host, Moves
  <2> QED
    BY <2>1, AskedMoves, AskedNext
<1> QED
  BY <1>1, <1>2 DEF Next

----------------------------------------------------------------------------
(* What memory holds.                                                      *)

LEMMA WrittenHeld ==
  ASSUME Written, UNCHANGED <<mem, image>>,
         \A s \in 1 .. Len(image), a \in Memory : Requested(s, a)' <=> Requested(s, a),
         \A a \in Memory : Pending(a)' <=> Pending(a)
  PROVE  Written'
<1>1. ASSUME NEW a \in Memory
      PROVE  /\ (\A s \in 1 .. Len(image) : ~Requested(s, a)') => mem[a] = 0
             /\ \A s \in 1 .. Len(image) : Requested(s, a)' =>
                  mem[a] = IF Pending(a)' THEN 0 ELSE At(image[s], a)
  BY DEF Written
<1> QED
  BY <1>1 DEF Written

LEMMA RequestedHeld ==
  ASSUME UNCHANGED image, todo'.sec = todo.sec, todo'.offs = todo.offs, NEW s, NEW a
  PROVE  Requested(s, a)' <=> Requested(s, a)
  BY DEF Requested

(* Only a server that stores changes what is still to be stored.           *)
LEMMA HartPending ==
  ASSUME Typed, Session, Asked, Hart, ~StoreData, NEW a
  PROVE  mem' = mem /\ (Pending(a)' <=> Pending(a))
<1>1. UNCHANGED <<host, req, image, todo>>
  BY HartHeld DEF hostVars
<1>2. mem' = mem
  BY DEF Hart, InitUart, CheckUart, SayHello, TakeCmd, TakeAddr, TakeLen, Accept, SendData, SendEot,
         ProgramSetsUp, ProgramPrints, ProgramReturns, SendEoc, SendCode, progVars
<1>3. srv' = srv \/ host \notin {"send", "eot"} \/ req.op # Write
  <2>1. CASE TakeCmd \/ TakeAddr \/ TakeLen
    <3>1. Requesting
      BY <2>1, ByteIsRequest DEF TakeCmd, TakeAddr, TakeLen, Goto, Take
    <3> QED
      BY <3>1 DEF Requesting
  <2>2. CASE SendData
    BY <2>2, Marks DEF SendData, Goto, Session, Opening, Between, Requesting, Serving, Running
  <2>3. CASE SendEoc \/ SendCode
    BY <2>3, Marks
      DEF SendEoc, SendCode, Goto, Session, Opening, Between, Requesting, Serving, Running
  <2>4. CASE \/ InitUart \/ CheckUart \/ SayHello \/ Accept \/ SendEot
            \/ ProgramSetsUp \/ ProgramPrints \/ ProgramReturns
    BY <2>4
      DEF InitUart, CheckUart, SayHello, Accept, SendEot, ProgramSetsUp, ProgramPrints, ProgramReturns
  <2> QED
    BY <2>1, <2>2, <2>3, <2>4 DEF Hart
<1> QED
  BY <1>1, <1>2, <1>3 DEF Pending, InTransfer, Stored

(* The block has been stored when its end mark comes.                      *)
LEMMA MovesPending ==
  ASSUME Typed, Session, Asked, Moves, NEW a \in Memory
  PROVE  Pending(a)' <=> Pending(a)
<1>1. UNCHANGED <<req, srv>>
  BY MovesHeld
<1>2. CASE req.op # Write
  BY <1>1, <1>2 DEF Pending, InTransfer
<1>3. CASE Challenge
  BY <1>3 DEF Challenge, HostGoto, Pending, InTransfer
<1>4. CASE SendOp \/ SendAddr \/ SendLen
  BY <1>1, <1>4 DEF SendOp, SendAddr, SendLen, HostGoto, Pending, InTransfer, Stored
<1>5. CASE SendBytes
  BY <1>1, <1>5 DEF SendBytes, HostGoto, Pending, InTransfer, Stored
<1>6. CASE ScoopMark /\ req.op = Write
  <2>0. req.op # Exec /\ req.op # Read
    BY <1>6, Marks
  <2>1. CASE host = "hello"
    <3>1. host' = "next"
      BY <1>6, <2>1, MarkRight DEF ScoopMark, Scooped, Expect
    <3> QED
      BY <2>1, <3>1 DEF Pending, InTransfer
  <2>2. CASE host = "ack"
    <3>1. host' \in {"send", "eot"}
      BY <1>6, <2>0, <2>2, MarkRight DEF ScoopMark, Scooped, Expect, AfterAck
    <3>2. Serving
      BY <1>6, <2>0, <2>2, MarkRight DEF Running
    <3>3. srv.n = 0
      <4>1. srv.n + Len(rx) = 0
        BY <1>6, <2>2, <3>2 DEF Serving, DataSent
      <4>2. Len(rx) \in Nat /\ srv.n \in Nat
        BY Kinds
      <4> QED
        BY <4>1, <4>2
    <3> QED
      BY <1>1, <2>2, <3>1, <3>3 DEF Pending, InTransfer, Stored
  <2>3. CASE host = "eot"
    <3>1. host' = "next"
      BY <1>6, <2>3, MarkRight DEF ScoopMark, Scooped, Expect
    <3>2. srv.n = req.len
      BY <1>6, <2>3, MarkRight DEF Serving
    <3>3. ~Pending(a)
      <4>1. srv.n \in Nat /\ req.addr \in Nat /\ a \in Nat
        BY Kinds, ImageAssumption
      <4> QED
        BY <2>3, <3>2, <4>1 DEF Pending, InTransfer, Stored
    <3> QED
      BY <3>1, <3>3 DEF Pending, InTransfer
  <2> QED
    BY <1>6, <2>1, <2>2, <2>3 DEF ScoopMark
<1>7. CASE ScoopData
  BY <1>2, <1>7, Marks
    DEF ScoopData, HostGoto, Session, Opening, Between, Requesting, Serving, Running
<1>8. CASE ScoopCode \/ SeeEoc
  BY <1>2, <1>8, Marks
    DEF ScoopCode, SeeEoc, HostGoto, Session, Opening, Between, Requesting, Serving, Running
<1>9. CASE PrintLine
  BY <1>1, <1>9 DEF PrintLine, Pending, InTransfer, Stored
<1> QED
  BY <1>2, <1>3, <1>4, <1>5, <1>6, <1>7, <1>8, <1>9 DEF Moves

LEMMA Disjoint ==
  ASSUME Typed, NEW s \in 1 .. Len(image), NEW t \in 1 .. Len(image), NEW a \in Memory,
         Holds(image[s], a), Holds(image[t], a)
  PROVE  s = t
  BY ImageAssumption DEF Typed

(* A byte is stored where the program wants it.                            *)
LEMMA WrittenStore == Typed /\ Session /\ Asked /\ Written /\ StoreData => Written'
<1> SUFFICES ASSUME Typed, Session, Asked, Written, StoreData PROVE Written'
  OBVIOUS
<1>1. UNCHANGED <<host, req, image, todo>> /\ srv' = [srv EXCEPT !.n = @ + 1] /\ srv.n < srv.len
      /\ rx # <<>> /\ mem' = [mem EXCEPT ![Cell] = Head(rx)] /\ pc = "transfer" /\ srv.cmd = Write
  BY DEF StoreData, Take, hostVars, Goto, More
<1>2. Serving /\ req.op = Write /\ srv.addr = req.addr /\ srv.n < req.len
  BY <1>1 DEF Session, Opening, Between, Requesting, Serving, Running
<1>3. /\ srv.n \in Nat /\ req.addr \in Nat /\ req.len \in Nat /\ rx \in Seq(Bytes)
      /\ todo.offs \in Nat /\ todo.sec \in Nat \ {0} /\ Burst \in Nat /\ Len(rx) \in Nat
  BY Kinds, Sizes
<1>4. host \in {"send", "eot"}
  <2>1. Len(rx) # 0
    BY <1>1, <1>3, Empty
  <2>2. DataSent # 0
    BY <1>2, <1>3, <2>1 DEF Serving
  <2> QED
    BY <2>2 DEF DataSent
<1>5. Head(rx) = req.bytes[srv.n + 1]
  <2>1. Head(rx) = rx[1] /\ 1 \in 1 .. Len(rx)
    BY <1>1, <1>3, Taken
  <2>2. \A i \in 1 .. Len(rx) : rx[i] = req.bytes[srv.n + i]
    BY <1>2 DEF Serving
  <2> QED
    BY <2>1, <2>2
<1>6. srv'.n = srv.n + 1
  BY <1>1 DEF Typed
<1> DEFINE sec  == todo.sec
           from == BlockFrom
<1>7. BlockAsked
  BY <1>2, <1>4 DEF Asked, InSession
<1>8. sec \in 1 .. Len(image)
  <2>1. image \in Seq([addr : Nat, bytes : Seq(Bytes)])
    BY ImageAssumption DEF Typed
  <2>2. Len(image) \in Nat
    BY <2>1
  <2> QED
    BY <1>3, <1>7, <2>2 DEF BlockAsked
<1>9. /\ image[sec].addr \in Nat /\ image[sec].bytes \in Seq(Bytes) /\ Len(image[sec].bytes) \in Nat
      /\ image[sec].addr + Len(image[sec].bytes) \in Words
  BY <1>8, SectionFacts
<1>10. from \in Nat /\ from <= Len(image[sec].bytes) /\ todo.offs = from + Burst
  BY <1>3, <1>7 DEF BlockAsked, BlockFrom
<1>11. /\ req.addr = image[sec].addr + from
       /\ req.len = BlockEnd(from, Len(image[sec].bytes)) - from
       /\ \A i \in 1 .. req.len : req.bytes[i] = image[sec].bytes[from + i]
  BY <1>7 DEF BlockAsked
<1> DEFINE addr == image[sec].addr
           size == Len(image[sec].bytes)
           len  == req.len
           n    == srv.n
           cell == Cell
<1>12. cell = req.addr + n
  BY <1>2 DEF Cell
<1>13. n \in Nat /\ len \in Nat /\ addr \in Nat /\ size \in Nat /\ from \in Nat /\ Burst \in Nat /\ from <= size
  BY <1>3, <1>9, <1>10
<1>14. n < len /\ req.addr = addr + from /\ len = BlockEnd(from, size) - from /\ todo.offs = from + Burst
  BY <1>2, <1>10, <1>11
<1>15. from + n < size /\ n < Burst
  <2> HIDE DEF from, size, len, n
  <2> QED
    BY <1>13, <1>14 DEF BlockEnd
<1>16. cell - addr = from + n
  <2> HIDE DEF from, addr, n, cell
  <2> QED
    BY <1>12, <1>13, <1>14
<1>17. n + 1 \in 1 .. len /\ from + (n + 1) = cell - addr + 1
  <2> HIDE DEF from, len, n, addr, cell
  <2> QED
    BY <1>13, <1>14, <1>16
<1>18. cell - addr \in 0 .. size - 1 /\ cell - addr < todo.offs
  <2> HIDE DEF from, size, n, addr, cell
  <2> QED
    BY <1>13, <1>14, <1>15, <1>16
<1>19. Head(rx) = At(image[sec], Cell)
  BY <1>5, <1>11, <1>17 DEF At
<1>20. Holds(image[sec], Cell) /\ Requested(sec, Cell)
  BY <1>18 DEF Holds, Requested
<1>21. ASSUME NEW a \in Memory, NEW s \in 1 .. Len(image) PROVE Requested(s, a)' <=> Requested(s, a)
  BY <1>1 DEF Requested
<1>22. ASSUME NEW a \in Memory, a # Cell PROVE Pending(a)' <=> Pending(a)
  <2>1. a \in Nat /\ Cell = req.addr + srv.n
    BY <1>2, ImageAssumption DEF Cell
  <2>2. a - req.addr >= srv.n + 1 <=> a - req.addr >= srv.n
    BY <1>3, <1>22, <2>1
  <2> QED
    BY <1>1, <1>4, <1>6, <2>2 DEF Pending, InTransfer, Stored
<1>23. ASSUME NEW a \in Memory, a = Cell PROVE ~Pending(a)'
  <2>1. ~(a - req.addr >= srv.n + 1)
    BY <1>2, <1>3, <1>23 DEF Cell
  <2> QED
    BY <1>1, <1>4, <1>6, <2>1 DEF Pending, Stored
<1>24. ASSUME NEW a \in Memory
       PROVE  /\ (\A s \in 1 .. Len(image) : ~Requested(s, a)) => mem'[a] = 0
              /\ \A s \in 1 .. Len(image) : Requested(s, a) =>
                   mem'[a] = IF Pending(a)' THEN 0 ELSE At(image[s], a)
  <2>1. CASE a # Cell
    <3>1. mem'[a] = mem[a]
      BY <1>1, <2>1 DEF Typed
    <3> QED
      BY <1>22, <2>1, <3>1 DEF Written
  <2>2. CASE a = Cell
    <3>1. mem'[a] = At(image[sec], a)
      BY <1>1, <1>19, <2>2 DEF Typed
    <3>2. ASSUME NEW s \in 1 .. Len(image), Requested(s, a) PROVE s = sec
      BY <1>8, <1>20, <2>2, <3>2, Disjoint DEF Requested
    <3> QED
      BY <1>8, <1>20, <1>23, <2>2, <3>1, <3>2
  <2> QED
    BY <2>1, <2>2
<1> QED
  BY <1>1, <1>21, <1>24 DEF Written

(* A new block lies apart from all that was asked for before.              *)
LEMMA WrittenNext == Typed /\ Session /\ Asked /\ Written /\ (NextBlock \/ NextReadBack \/ NextExec) => Written'
<1> SUFFICES ASSUME Typed, Session, Asked, Written, NextBlock \/ NextReadBack \/ NextExec PROVE Written'
  OBVIOUS
<1>0. todo \in [sec : Nat \ {0}, offs : Nat, reads : Nat] /\ Burst \in Nat \ {0}
  BY Sizes DEF Typed
<1>1. UNCHANGED <<mem, image>> /\ \A a \in Memory : ~Pending(a)
  BY DEF NextBlock, NextReadBack, NextExec, Request, HostGoto, progVars, Pending, InTransfer
<1>2. CASE NextBlock /\ BlockLeft(todo.offs, Len(image[todo.sec].bytes))
  <2> DEFINE sec  == todo.sec
             addr == image[sec].addr
             size == Len(image[sec].bytes)
             offs == todo.offs
  <2>1. sec \in 1 .. Len(image) /\ todo' = [todo EXCEPT !.offs = @ + Burst]
    BY <1>2, BlockRequest
  <2>2. PICK to \in Nat :
          /\ to = BlockEnd(offs, size)
          /\ BlockSlice(addr, image[sec].bytes, offs, to)
          /\ Request(Write, addr + offs, to - offs, SubSeq(image[sec].bytes, offs + 1, to))
    BY <1>2, BlockRequest
  <2>3. todo'.sec = sec /\ todo'.offs = offs + Burst
    BY <1>0, <2>1
  <2>4. req'.op = Write /\ req'.addr = addr + offs /\ req'.len = to - offs /\ host' = "op"
    BY <2>2 DEF Request, HostGoto
  <2>5. /\ addr \in Nat /\ size \in Nat /\ offs \in Nat /\ Burst \in Nat
        /\ offs <= to /\ to <= size /\ to <= offs + Burst
    BY <1>0, <2>1, <2>2, SectionFacts DEF BlockSlice
  <2>6. ASSUME NEW a \in Memory PROVE Pending(a)' <=> a - addr \in offs .. to - 1
    <3>1. a \in Nat
      BY ImageAssumption
    <3>2. Pending(a)' <=> a - (addr + offs) \in 0 .. (to - offs) - 1 /\ a - (addr + offs) >= 0
      BY <2>4 DEF Pending, InTransfer, Stored
    <3> HIDE DEF addr, offs
    <3> QED
      BY <2>5, <3>1, <3>2
  <2>7. ASSUME NEW a \in Memory, a - addr \in offs .. to - 1
        PROVE  /\ \A s \in 1 .. Len(image) : ~Requested(s, a)
               /\ \A s \in 1 .. Len(image) : Holds(image[s], a) => s = sec
    <3>1. a - addr \in 0 .. size - 1 /\ ~(a - addr < offs)
      <4>1. a \in Nat
        BY ImageAssumption
      <4> HIDE DEF addr, size, offs
      <4> QED
        BY <2>5, <2>7, <4>1
    <3>2. Holds(image[sec], a)
      BY <3>1 DEF Holds
    <3>3. \A s \in 1 .. Len(image) : Holds(image[s], a) => s = sec
      BY <2>1, <3>2, Disjoint
    <3> QED
      BY <1>0, <2>1, <3>1, <3>3 DEF Requested
  <2>8. ASSUME NEW a \in Memory, NEW s \in 1 .. Len(image)
        PROVE  Requested(s, a)' <=> Requested(s, a) \/ (Holds(image[s], a) /\ a - addr \in offs .. to - 1)
    <3>1. Requested(s, a)' <=>
            Holds(image[s], a) /\ (s < sec \/ (s = sec /\ a - image[s].addr < offs + Burst))
      BY <1>1, <2>3 DEF Requested
    <3>2. Requested(s, a) <=> Holds(image[s], a) /\ (s < sec \/ (s = sec /\ a - image[s].addr < offs))
      BY DEF Requested
    <3>3. ASSUME s = sec, Holds(image[s], a)
          PROVE  a - addr < offs + Burst <=> a - addr < offs \/ a - addr \in offs .. to - 1
      <4>1. a \in Nat /\ a - addr \in 0 .. size - 1 /\ to = BlockEnd(offs, size)
        BY <2>2, <3>3, ImageAssumption DEF Holds
      <4> HIDE DEF addr, size, offs
      <4> QED
        BY <2>5, <4>1 DEF BlockEnd
    <3>4. CASE s = sec
      BY <1>0, <3>1, <3>2, <3>3, <3>4
    <3>5. CASE s # sec
      BY <2>7, <3>1, <3>2, <3>5
    <3> QED
      BY <3>4, <3>5
  <2>9. ASSUME NEW a \in Memory
        PROVE  /\ (\A s \in 1 .. Len(image) : ~Requested(s, a)') => mem[a] = 0
               /\ \A s \in 1 .. Len(image) : Requested(s, a)' =>
                    mem[a] = IF Pending(a)' THEN 0 ELSE At(image[s], a)
    <3>1. CASE a - addr \in offs .. to - 1
      <4>1. mem[a] = 0
        BY <2>7, <3>1 DEF Written
      <4> QED
        BY <2>6, <3>1, <4>1
    <3>2. CASE ~(a - addr \in offs .. to - 1)
      BY <1>1, <2>6, <2>8, <3>2 DEF Written
    <3> QED
      BY <3>1, <3>2
  <2> QED
    BY <1>1, <2>9 DEF Written
<1>3. CASE NextBlock /\ ~BlockLeft(todo.offs, Len(image[todo.sec].bytes))
  <2>1. /\ todo' = [todo EXCEPT !.sec = @ + 1, !.offs = 0] /\ todo.sec <= Len(image)
        /\ host = "next" /\ host' = host
    BY <1>3 DEF NextBlock
  <2>2. todo'.sec = todo.sec + 1 /\ todo'.offs = 0
    BY <1>0, <2>1
  <2>3. ASSUME NEW a \in Memory, NEW s \in 1 .. Len(image) PROVE Requested(s, a)' <=> Requested(s, a)
    <3>1. CASE s = todo.sec /\ Holds(image[s], a)
      <4>1. a - image[s].addr < todo.offs
        <5>1. /\ a \in Nat /\ image[s].addr \in Nat /\ Len(image[s].bytes) \in Nat /\ todo.offs \in Nat
              /\ ~(todo.offs <= Len(image[s].bytes)) /\ a - image[s].addr \in 0 .. Len(image[s].bytes) - 1
          BY <1>0, <1>3, <3>1, SectionFacts, ImageAssumption DEF BlockLeft, Holds
        <5> QED
          BY <5>1
      <4>2. s < todo.sec + 1
        BY <1>0, <3>1
      <4> QED
        BY <1>1, <2>2, <3>1, <4>1, <4>2 DEF Requested
    <3>2. CASE s # todo.sec /\ Holds(image[s], a)
      <4>1. a \in Nat /\ image[s].addr \in Nat /\ a - image[s].addr \in 0 .. Len(image[s].bytes) - 1
        BY <3>2, SectionFacts, ImageAssumption DEF Holds
      <4>2. ~(a - image[s].addr < 0)
        BY <4>1
      <4>3. s < todo.sec + 1 <=> s < todo.sec
        BY <1>0, <3>2
      <4> QED
        BY <1>1, <2>2, <3>2, <4>2, <4>3 DEF Requested
    <3>3. CASE ~Holds(image[s], a)
      BY <1>1, <3>3 DEF Requested
    <3> QED
      BY <3>1, <3>2, <3>3
  <2>4. \A a \in Memory : ~Pending(a)'
    BY <2>1 DEF Pending, InTransfer
  <2> QED
    BY <1>1, <2>3, <2>4, WrittenHeld
<1>4. CASE NextReadBack \/ NextExec
  <2>1. todo'.sec = todo.sec /\ todo'.offs = todo.offs
    BY <1>0, <1>4 DEF NextReadBack, NextExec
  <2>2. req'.op # Write
    BY <1>4, Marks DEF NextReadBack, NextExec, Request
  <2>3. \A a \in Memory : ~Pending(a)'
    BY <2>2 DEF Pending, InTransfer
  <2>4. \A s \in 1 .. Len(image), a \in Memory : Requested(s, a)' <=> Requested(s, a)
    BY <1>1, <2>1, RequestedHeld
  <2> QED
    BY <1>1, <2>3, <2>4, WrittenHeld
<1> QED
  BY <1>2, <1>3, <1>4

LEMMA WrittenStep == Typed /\ Session /\ Asked /\ Written /\ [Next]_vars => Written'
<1> SUFFICES ASSUME Typed, Session, Asked, Written, [Next]_vars PROVE Written'
  OBVIOUS
<1>1. CASE UNCHANGED vars
  BY <1>1 DEF vars, hostVars, progVars, Written, Requested, Pending, InTransfer, Stored
<1>2. CASE StoreData
  BY <1>2, WrittenStore
<1>3. CASE Hart /\ ~StoreData
  <2>1. UNCHANGED <<image, todo>>
    BY <1>3, HartHeld DEF hostVars
  <2>2. mem' = mem /\ \A a \in Memory : Pending(a)' <=> Pending(a)
    BY <1>3, HartPending
  <2>3. mem' = mem
    BY <1>3, HartPending
  <2>4. \A s \in 1 .. Len(image), a \in Memory : Requested(s, a)' <=> Requested(s, a)
    BY <2>1, RequestedHeld
  <2> QED
    BY <2>1, <2>2, <2>3, <2>4, WrittenHeld
<1>4. CASE NextBlock \/ NextReadBack \/ NextExec
  BY <1>4, WrittenNext
<1>5. CASE Moves
  <2>1. UNCHANGED <<image, todo, mem>>
    BY <1>5, MovesHeld
  <2>2. \A a \in Memory : Pending(a)' <=> Pending(a)
    BY <1>5, MovesPending
  <2>3. \A s \in 1 .. Len(image), a \in Memory : Requested(s, a)' <=> Requested(s, a)
    BY <2>1, RequestedHeld
  <2> QED
    BY <2>1, <2>2, <2>3, WrittenHeld
<1> QED
  BY <1>1, <1>2, <1>3, <1>4, <1>5 DEF Next, Host, Moves

----------------------------------------------------------------------------
(* What the host has read.                                                 *)

LEMMA ReceivedHeld ==
  ASSUME Received, Blank, UNCHANGED <<req, data, host, k>>, mem' = mem \/ req.op # Read
  PROVE  Received' /\ Blank'
  BY DEF Received, Blank, DataGot

LEMMA ReceivedHart == Typed /\ Session /\ Asked /\ Received /\ Blank /\ Hart => Received' /\ Blank'
<1> SUFFICES ASSUME Typed, Session, Asked, Received, Blank, Hart PROVE Received' /\ Blank'
  OBVIOUS
<1>1. UNCHANGED <<req, data, host, k>>
  BY HartHeld DEF hostVars
<1>2. CASE StoreData
  <2>1. req.op # Read
    BY <1>2, Marks DEF StoreData, Goto, Session, Opening, Between, Requesting, Serving, Running
  <2> QED
    BY <1>1, <2>1, ReceivedHeld
<1>3. CASE ~StoreData
  <2>1. mem' = mem
    BY <1>3, HartPending
  <2> QED
    BY <1>1, <2>1, ReceivedHeld
<1> QED
  BY <1>2, <1>3

(* The byte that comes in is the next one of the memory read.              *)
LEMMA ReceivedData == Typed /\ Session /\ Asked /\ Received /\ Blank /\ ScoopData => Received' /\ Blank'
<1> SUFFICES ASSUME Typed, Session, Asked, Received, Blank, ScoopData PROVE Received' /\ Blank'
  OBVIOUS
<1>1. /\ host = "receive" /\ host' = (IF k + 1 < req.len THEN "receive" ELSE "eot") /\ k' = k + 1
      /\ shift \in Bytes /\ shift # None /\ data' = Append(data, shift) /\ UNCHANGED <<req, mem>>
  BY Plain DEF ScoopData, Scooped, HostGoto, progVars
<1>2. Serving /\ req.op = Read /\ k < req.len
  BY <1>1 DEF Session, Opening, Between, Requesting, Serving, Running
<1>3. k \in Nat /\ req.len \in Nat /\ req.addr \in Nat /\ data \in Seq(Bytes)
  BY Kinds
<1>4. shift = mem[req.addr + k]
  <2>1. AnsGot = 1 + k
    BY <1>1 DEF AnsGot
  <2>2. shift = AnsByte(req, mem, AnsGot + 1)
    BY <1>1, <1>2 DEF Serving, OnLine
  <2>3. AnsGot + 1 = k + 2
    BY <1>3, <2>1
  <2>4. shift = AnsByte(req, mem, k + 2)
    BY <2>2, <2>3
  <2>5. k + 2 # 1 /\ k + 2 <= 1 + req.len /\ req.addr + (k + 2) - 2 = req.addr + k
    BY <1>2, <1>3
  <2> QED
    BY <1>2, <2>4, <2>5 DEF AnsByte
<1>5. Len(data) = k /\ \A i \in 1 .. k : data[i] = mem[req.addr + i - 1]
  BY <1>1, <1>2 DEF Received, DataGot
<1>6. Len(data') = k + 1 /\ \A i \in 1 .. k + 1 : data'[i] = IF i = k + 1 THEN shift ELSE data[i]
  BY <1>1, <1>3, <1>5, Appended
<1>7. \A i \in 1 .. k + 1 : data'[i] = mem[req.addr + i - 1]
  <2> TAKE i \in 1 .. k + 1
  <2>1. CASE i = k + 1
    <3>1. req.addr + i - 1 = req.addr + k
      BY <1>3, <2>1
    <3> QED
      BY <1>4, <1>6, <2>1, <3>1
  <2>2. CASE i # k + 1
    <3>1. i \in 1 .. k
      BY <1>3, <2>2
    <3> QED
      BY <1>5, <1>6, <2>2, <3>1
  <2> QED
    BY <2>1, <2>2
<1>8. DataGot' = k + 1
  BY <1>1, <1>2, <1>3 DEF DataGot
<1> QED
  BY <1>1, <1>6, <1>7, <1>8 DEF Received, Blank

LEMMA ReceivedMoves == Typed /\ Session /\ Asked /\ Received /\ Blank /\ Moves => Received' /\ Blank'
<1> SUFFICES ASSUME Typed, Session, Asked, Received, Blank, Moves PROVE Received' /\ Blank'
  OBVIOUS
<1>0. UNCHANGED <<req, mem>>
  BY MovesHeld
<1>1. CASE ScoopData
  BY <1>1, ReceivedData
<1>2. CASE PrintLine
  <2>1. UNCHANGED <<data, host, k>>
    BY <1>2 DEF PrintLine
  <2> QED
    BY <1>0, <2>1, ReceivedHeld
<1>3. CASE Challenge \/ SendOp \/ SendAddr \/ SendLen
  <2>1. /\ data' = data /\ host' \notin {"receive", "eot", "next"}
        /\ host \in {"settle", "op", "addr", "len"} /\ host' \in {"hello", "addr", "len", "ack"}
        /\ (host = "settle" <=> host' = "hello")
    BY <1>3 DEF Challenge, SendOp, SendAddr, SendLen, HostGoto, Send
  <2> QED
    BY <1>0, <2>1 DEF Received, Blank
<1>4. CASE SendBytes
  <2>1. req.op = Write
    BY <1>4, Marks DEF SendBytes, HostGoto, Session, Opening, Between, Requesting, Serving, Running
  <2> QED
    BY <1>0, <2>1, Marks DEF Received, Blank
<1>5. CASE ScoopCode \/ SeeEoc
  <2>1. req.op = Exec
    BY <1>5, Marks
      DEF ScoopCode, SeeEoc, HostGoto, Session, Opening, Between, Requesting, Serving, Running
  <2> QED
    BY <1>0, <2>1, Marks DEF Received, Blank
<1>6. CASE ScoopMark
  <2>0. data' = data /\ k' = 0
    BY <1>6 DEF ScoopMark
  <2>1. CASE req.op # Read
    BY <1>0, <2>1 DEF Received, Blank
  <2>2. CASE req.op = Read
    <3>1. host \in {"ack", "eot"}
      BY <1>6, <2>2 DEF ScoopMark, Blank
    <3>2. CASE host = "ack"
      <4>1. host' = IF req.len = 0 THEN "eot" ELSE "receive"
        BY <1>6, <2>2, <3>2, MarkRight, Marks DEF ScoopMark, Scooped, Expect, AfterAck
      <4>2. data' = <<>>
        BY <2>0, <2>2, <3>2 DEF Blank
      <4>3. DataGot' = 0
        BY <1>0, <2>0, <4>1 DEF DataGot
      <4> QED
        BY <1>0, <4>1, <4>2, <4>3 DEF Received, Blank
    <3>3. CASE host = "eot"
      <4>1. host' = "next"
        BY <1>6, <3>3, MarkRight DEF ScoopMark, Scooped, Expect
      <4> QED
        BY <1>0, <2>0, <2>2, <3>3, <4>1 DEF Received, Blank, DataGot
    <3> QED
      BY <3>1, <3>2, <3>3
  <2> QED
    BY <2>1, <2>2
<1> QED
  BY <1>1, <1>2, <1>3, <1>4, <1>5, <1>6 DEF Moves

LEMMA ReceivedStep == Typed /\ Session /\ Asked /\ Received /\ Blank /\ [Next]_vars => Received' /\ Blank'
<1> SUFFICES ASSUME Typed, Session, Asked, Received, Blank, [Next]_vars PROVE Received' /\ Blank'
  OBVIOUS
<1>1. CASE Hart
  BY <1>1, ReceivedHart
<1>2. CASE UNCHANGED vars
  BY <1>2, ReceivedHeld DEF vars, hostVars, progVars
<1>3. CASE NextReadBack \/ NextExec \/ (NextBlock /\ BlockLeft(todo.offs, Len(image[todo.sec].bytes)))
  <2>1. host' = "op" /\ data' = <<>>
    BY <1>3 DEF NextReadBack, NextExec, NextBlock, Request, HostGoto
  <2> QED
    BY <2>1 DEF Received, Blank
<1>4. CASE NextBlock /\ ~BlockLeft(todo.offs, Len(image[todo.sec].bytes))
  BY <1>4, ReceivedHeld DEF NextBlock, progVars
<1>5. CASE Moves
  BY <1>5, ReceivedMoves
<1> QED
  BY <1>1, <1>2, <1>3, <1>4, <1>5 DEF Next, Host, Moves

----------------------------------------------------------------------------
LEMMA Starts == Init => IInv
<1> SUFFICES ASSUME Init PROVE IInv
  OBVIOUS
<1>1. 0 \in Bytes /\ 0 \in Words /\ MaxReads \in Nat /\ Ack \in Bytes /\ Ack \notin {Read, Write, Exec}
  BY Plain, Sizes, Marks, Weights DEF Words
<1>2. Len(image) \in Nat
  <2>1. image \in Seq([addr : Nat, bytes : Seq(Bytes)])
    BY ImageAssumption DEF Init
  <2> QED
    BY <2>1
<1>3. srv \in [cmd : Bytes, addr : Nat, len : Nat, n : Nat]
  BY <1>1 DEF Init, Idle
<1>4. req \in [op : Bytes, addr : Words, len : Words, bytes : Seq(Bytes)]
  <2>1. <<>> \in Seq(Bytes)
    OBVIOUS
  <2> HIDE DEF Bytes, Words
  <2> QED
    BY <1>1, <2>1 DEF Init
<1>5. Typed
  <2>1. mem \in [Memory -> Bytes] /\ code \in Nat \union {None} /\ prints \in Nat
    BY <1>1 DEF Init
  <2>2. rx \in Seq(Bytes) /\ thr \in ByteOrNone /\ shift \in ByteOrNone /\ image \in Images
    BY DEF Init, ByteOrNone
  <2>3. todo \in [sec : Nat \ {0}, offs : Nat, reads : Nat]
    BY <1>1 DEF Init
  <2>4. k \in Nat /\ exit \in Nat
    BY DEF Init
  <2>5. data \in Seq(Bytes)
    BY DEF Init
  <2>6. eoc \in BOOLEAN
    BY Zenon DEF Init
  <2> QED
    BY <1>3, <1>4, <2>1, <2>2, <2>3, <2>4, <2>5, <2>6 DEF Init, Typed
<1>6. Session
  BY DEF Init, Session, Opening, Quiet
<1>7. Asked
  BY <1>1, <1>2 DEF Init, Asked, InSession
<1>8. Written
  <2>1. ASSUME NEW a \in Memory, NEW s \in 1 .. Len(image) PROVE ~Requested(s, a)
    <3>1. image[s].addr \in Nat /\ a \in Nat /\ Len(image[s].bytes) \in Nat
      BY <1>5, SectionFacts, ImageAssumption
    <3>2. Holds(image[s], a) => ~(a - image[s].addr < 0)
      BY <3>1 DEF Holds
    <3> QED
      BY <3>2 DEF Init, Requested
  <2> QED
    BY <2>1 DEF Init, Written
<1>9. Received /\ Blank
  BY <1>1 DEF Init, Received, Blank
<1> QED
  BY <1>5, <1>6, <1>7, <1>8, <1>9 DEF IInv

LEMMA Continues == IInv /\ [Next]_vars => IInv'
<1> SUFFICES ASSUME IInv, [Next]_vars PROVE IInv'
  OBVIOUS
<1>1. Typed'
  BY HartTypes, HostTypes DEF IInv, Next, Typed, vars, hostVars, progVars
<1>2. Session' /\ Asked' /\ Written'
  BY SessionStep, AskedStep, WrittenStep DEF IInv
<1>3. Received' /\ Blank'
  BY ReceivedStep DEF IInv
<1> QED
  BY <1>1, <1>2, <1>3 DEF IInv

(* At every moment both sides are at the same point of the protocol: what  *)
(* is on its way is what one has sent and the other has not taken.         *)
THEOREM UartDebugInvariant == Spec => []IInv
<1>1. Init => IInv
  BY Starts
<1>2. IInv /\ [Next]_vars => IInv'
  BY Continues
<1> QED
  BY <1>1, <1>2, PTL DEF Spec

(* No answer is taken for another (uart_debug_rw never meets $fatal).      *)
THEOREM NeverMistaken == Spec => []NeverFatal
<1>1. IInv => NeverFatal
  BY DEF IInv, Typed, NeverFatal
<1> QED
  BY <1>1, UartDebugInvariant, PTL

(* The image is written as it is, what is read is what is there, and the   *)
(* program starts at its entry point with all of its image in place.       *)
THEOREM MemoryRight == Spec => []MemoryExact
<1>1. ASSUME IInv PROVE MemoryExact
  <2>0. Typed /\ Session /\ Asked /\ Written /\ Received
    BY <1>1 DEF IInv
  <2>1. ASSUME NEW a \in Memory
        PROVE  /\ ~(\E s \in 1 .. Len(image) : Requested(s, a)) => mem[a] = 0
               /\ \A s \in 1 .. Len(image) : Requested(s, a) =>
                    mem[a] = At(image[s], a) \/ (InTransfer(a) /\ mem[a] = 0)
    BY <2>0 DEF Written, Pending
  <2>2. ReadBackRight
    BY <2>0 DEF ReadBackRight, Received, DataGot
  <2>3. ASSUME pc \in {"start", "program"} PROVE srv.addr = Entry /\ req.op = Exec
    BY <2>0, <2>3 DEF Session, Opening, Between, Requesting, Serving, Running
  <2>4. ASSUME pc \in {"start", "program"}, NEW s \in 1 .. Len(image), NEW a \in Memory, Holds(image[s], a)
        PROVE  mem[a] = At(image[s], a)
    <3>1. ~Pending(a) /\ todo.sec > Len(image)
      BY <2>0, <2>3, <2>4, Marks DEF Asked, Pending, InTransfer
    <3>2. s < todo.sec
      <4>1. image \in Seq([addr : Nat, bytes : Seq(Bytes)])
        BY <2>0, ImageAssumption DEF Typed
      <4>2. Len(image) \in Nat
        BY <4>1
      <4> QED
        BY <2>0, <3>1, <4>2, Kinds
    <3> QED
      BY <2>0, <2>4, <3>1, <3>2 DEF Written, Requested
  <2> QED
    BY <2>1, <2>2, <2>3, <2>4 DEF MemoryExact, StartsWhole
<1> QED
  BY <1>1, UartDebugInvariant, PTL

(* The code the host reports is the program's, unless it printed an EOC.   *)
THEOREM ExitRight == Spec => []ExitIsReturn
<1>1. ASSUME IInv, host = "done", Eoc \notin Prints PROVE pc = "returned" /\ exit = code
  <2>1. Running /\ Typed
    BY <1>1 DEF IInv, Session, Opening, Between, Requesting, Serving
  <2>2. CodeOnLine /\ pc \notin {"start", "program", "eoc"}
    BY <1>1, <2>1 DEF Running, Returning, BeforeEoc
  <2>3. code \in Codes /\ CodeGot = CodeBytes
    BY <1>1, <2>1, <2>2 DEF Running, CodeGot
  <2>4. exit = code
    BY <2>2, <2>3, Digits DEF CodeOnLine
  <2>5. srv.n >= CodeBytes
    <3>1. srv.n \in CodeBytes .. CodeBytes + 2
      BY <2>2, <2>3 DEF CodeOnLine, OnLine
    <3> QED
      BY <3>1, Sizes
  <2>6. pc # "ret"
    BY <2>1, <2>5, Sizes, Kinds DEF Running
  <2> QED
    BY <2>1, <2>2, <2>4, <2>6 DEF Running
<1>2. IInv => ExitIsReturn
  BY <1>1 DEF ExitIsReturn
<1> QED
  BY <1>2, UartDebugInvariant, PTL
=============================================================================
