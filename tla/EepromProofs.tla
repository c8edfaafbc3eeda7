---------------------------- MODULE EepromProofs ----------------------------
(***************************************************************************)
(* Theorems about Eeprom, for every FIFO depth, block size, set of calls   *)
(* and number of them: the FIFOs never overflow, the device is addressed   *)
(* within its blocks, nothing goes out before its transfer is queued, a    *)
(* read returns what the device holds, and a write programs nothing.       *)
(*                                                                         *)
(* That the FIFOs suffice is a matter of the order of the waits: the       *)
(* format FIFO is empty when a transfer's first entry is queued, a write   *)
(* is cut to half a depth, and what is to be received is at most a chunk,  *)
(* of which FIFO and pending read entry together hold exactly the length.  *)
(*                                                                         *)
(* A read is right because what is left in the format FIFO says how much   *)
(* of the address the device has: once it has all of it, its pointer is    *)
(* ahead of the chunk by what has come in; and the chunks lie end to end.  *)
(***************************************************************************)
EXTENDS Eeprom, SequenceTheorems, TLAPS

Entries == [flag : {"start", "tx", "txStop", "rx"}, byte : Int]
Pcs     == {"idle", "cut", "wait", "address", "queue", "receive"}

Typed ==
  /\ pc \in Pcs /\ calls \in Nat /\ offs \in Nat /\ enabled \in BOOLEAN
  /\ call.op \in {"read", "write"} /\ call.addr \in Nat /\ call.len \in Nat
  /\ chunk \in [buf : Nat, addr : Nat, len : Int]
  /\ fmt \in Seq(Entries) /\ rx \in Seq(Int)
  /\ dev \in [bytes : Seq(Nat), ptr : Cells, page : Seq(Int), mem : [Cells -> Int]]

ChunkFits == pc \in {"wait", "address", "queue", "receive"} => chunk.len \in 1 .. Depth

Sends(k) == fmt[k].flag \in {"tx", "txStop"}

(* Nothing is in the format FIFO before the address of a chunk, and only   *)
(* the address before its data; the controller stands still meanwhile.     *)
Queueing ==
  /\ pc \in {"address", "queue"} => ~enabled
  /\ pc = "address" => fmt = <<>>
  /\ pc = "queue"   => Len(fmt) = 3 /\ fmt[1].flag = "start" /\ fmt[1].byte % 2 = 0 /\ Sends(2) /\ Sends(3)
  /\ Len(fmt) <= Depth

(* A read entry comes last, and only while its bytes are waited for; they  *)
(* are the only ones in the receive FIFO.                                  *)
ReadPending == fmt # <<>> /\ fmt[Len(fmt)].flag = "rx"

Receiving ==
  /\ \A k \in 1 .. Len(fmt) - 1 : fmt[k].flag # "rx"
  /\ ReadPending =>
       pc = "receive" /\ fmt[Len(fmt)].byte >= 1 /\ fmt[Len(fmt)].byte + Len(rx) = chunk.len
  /\ pc = "receive" /\ ~ReadPending => fmt = <<>> /\ Len(rx) = chunk.len
  /\ pc # "receive" => rx = <<>>

(* The byte that will be the n-th since the last start of a write is one   *)
(* of an address.                                                          *)
AddressByte(n, b) ==
  /\ n = 2 => b \in 0 .. (BlockLen \div Depth) - 1
  /\ n = 3 => b \in 0 .. Depth - 1

Addressing ==
  /\ Len(dev.bytes) <= 3
  /\ Len(dev.bytes) >= 1 => dev.bytes[1] \in {0, 1}
  /\ \A n \in 2 .. Len(dev.bytes) : AddressByte(n, dev.bytes[n])
  /\ \A k \in 1 .. Len(fmt) :
       Sends(k) =>
         IF fmt[1].flag = "start" THEN fmt[1].byte % 2 = 0 /\ AddressByte(k, fmt[k].byte)
                                  ELSE Len(dev.bytes) >= 1 /\ AddressByte(Len(dev.bytes) + k, fmt[k].byte)

(* A start that data or an address follows stands first.                   *)
StartsFirst ==
  \A k \in 2 .. Len(fmt) : fmt[k].flag = "start" => \A j \in k .. Len(fmt) : ~Sends(j)

IInv == Typed /\ ChunkFits /\ Queueing /\ Receiving /\ Addressing /\ StartsFirst
----------------------------------------------------------------------------
(* Arithmetic of chunks and addresses.                                     *)
LEMMA DivModFacts ==
  ASSUME NEW a \in Nat, NEW d \in Nat \ {0}
  PROVE  a = d * (a \div d) + (a % d) /\ a \div d \in Nat /\ a % d \in 0 .. d - 1
  OBVIOUS

LEMMA LastCell ==
  ASSUME NEW d \in Nat \ {0}, NEW q \in Nat, NEW b \in {0, 1}, NEW h \in 0 .. q - 1, NEW l \in 0 .. d - 1
  PROVE  b * (q * d) + h * d + l \in 0 .. 2 * (q * d) - 1
<1>1. h * d + l >= 0 /\ q * d >= 0
  OBVIOUS
<1>2. h * d + l <= q * d - 1
  <2>1. (q - 1 - h) * d >= 0
    OBVIOUS
  <2>2. (q - 1 - h) * d = q * d - d - h * d
    OBVIOUS
  <2> QED
    BY <2>1, <2>2
<1>3. h * d \in Int /\ q * d \in Int
  OBVIOUS
<1> QED
  BY <1>1, <1>2, <1>3

LEMMA BlockInDepths ==
  /\ Depth \in Nat \ {0} /\ BlockLen \in Nat \ {0}
  /\ BlockLen \div Depth \in Nat /\ (BlockLen \div Depth) * Depth = BlockLen
<1>1. Depth \in Nat \ {0} /\ BlockLen \in Nat \ {0} /\ BlockLen % Depth = 0
  BY DepthAssumption, BlockAssumption
<1>2. BlockLen = Depth * (BlockLen \div Depth) + (BlockLen % Depth) /\ BlockLen \div Depth \in Nat
  BY <1>1, DivModFacts
<1> QED
  BY <1>1, <1>2

(* The halves of a block's offset.                                         *)
LEMMA AddressHalves ==
  ASSUME NEW a \in Nat
  PROVE  /\ BlockLen \div Depth \in Nat /\ (BlockLen \div Depth) * Depth = BlockLen
         /\ (a % BlockLen) \div Depth \in 0 .. (BlockLen \div Depth) - 1
         /\ a % Depth \in 0 .. Depth - 1
<1>1. Depth \in Nat \ {0} /\ BlockLen \in Nat \ {0}
  BY BlockInDepths
<1> DEFINE q == BlockLen \div Depth
           o == a % BlockLen
           h == o \div Depth
<1>2. q \in Nat /\ q * Depth = BlockLen
  BY BlockInDepths
<1>3. o \in 0 .. BlockLen - 1 /\ a % Depth \in 0 .. Depth - 1
  BY <1>1, DivModFacts
<1>4. h \in Nat /\ o = Depth * h + (o % Depth) /\ o % Depth >= 0
  <2>1. o \in Nat
    BY <1>3, <1>1
  <2> HIDE DEF o
  <2> QED
    BY <1>1, <2>1, DivModFacts
<1>5. h <= q - 1
  <2>1. Depth * h < Depth * q
    BY <1>1, <1>2, <1>3, <1>4
  <2>2. h < q
    <3>1. CASE h >= q
      <4>1. Depth * (h - q) >= 0
        BY <1>1, <1>2, <1>4, <3>1
      <4> QED
        BY <1>1, <1>2, <1>4, <2>1, <4>1
    <3> QED
      BY <1>2, <1>4, <3>1
  <2> QED
    BY <1>2, <1>4, <2>2
<1> QED
  BY <1>2, <1>3, <1>4, <1>5

(* Sequences that are not empty.                                           *)
LEMMA LastEntry ==
  ASSUME NEW S, NEW seq \in Seq(S), seq # <<>>
  PROVE  Len(seq) \in Nat \ {0} /\ seq[Len(seq)] \in S /\ seq[1] \in S
<1>1. Len(seq) \in Nat \ {0}
  BY EmptySeq, Zenon
<1>2. Len(seq) \in 1 .. Len(seq) /\ 1 \in 1 .. Len(seq)
  BY <1>1
<1> QED
  BY <1>1, <1>2, ElementOfSeq, Zenon

----------------------------------------------------------------------------
LEMMA InitIInv == Init => IInv
<1> SUFFICES ASSUME Init PROVE IInv
  OBVIOUS
<1>1. BlockLen \in Nat \ {0} /\ Depth \in Nat
  BY BlockAssumption, DepthAssumption
<1>2. Typed
  BY <1>1 DEF Init, Typed, Pcs, Cells
<1> QED
  BY <1>1, <1>2 DEF Init, IInv, ChunkFits, Queueing, Receiving, ReadPending, Addressing, StartsFirst

(* The steps between chunks touch no FIFO, and chunks fit the FIFO.        *)
LEMMA BetweenChunks == IInv /\ (Call \/ CutFirst \/ CutNext \/ Return \/ Disable) => IInv'
<1> SUFFICES ASSUME IInv, Call \/ CutFirst \/ CutNext \/ Return \/ Disable PROVE IInv'
  OBVIOUS
<1>1. Depth \in Nat \ {0}
  BY DepthAssumption
<1>2. UNCHANGED <<fmt, rx, dev>> /\ pc \in {"idle", "cut", "wait"}
  BY DEF Call, CutFirst, CutNext, CutTo, Return, Disable, Goto, callVars
<1>3. ~ReadPending /\ rx = <<>>
  BY <1>2 DEF IInv, Receiving
<1>4. pc' \in {"idle", "cut", "wait", "address"} /\ (pc' = "address" => ~enabled' /\ fmt = <<>>)
  BY DEF Call, CutFirst, CutNext, CutTo, Return, Disable, Goto, Disabled, WaitEmpty
<1>5. call'.op \in {"read", "write"} /\ call'.addr \in Nat /\ call'.len \in Nat
      /\ offs' \in Nat /\ calls' \in Nat /\ enabled' \in BOOLEAN
      /\ chunk' \in [buf : Nat, addr : Nat, len : Int] /\ (pc' = "wait" => chunk'.len \in 1 .. Depth)
  <2>1. CASE Call
    BY <2>1, RequestAssumption DEF IInv, Typed, Call, Goto
  <2>2. CASE CutFirst
    <3>1. FirstLen \in 1 .. Depth
      <4>1. \A a \in Nat, d \in Nat \ {0} : d - (a % d) \in 1 .. d
        OBVIOUS
      <4>2. call.addr \in Nat
        BY DEF IInv, Typed
      <4> QED
        BY <1>1, <4>1, <4>2, Zenon DEF FirstLen
    <3> QED
      BY <2>2, <3>1 DEF IInv, Typed, CutFirst, CutTo
  <2>3. CASE CutNext
    <3>1. NextLen \in 1 .. Depth
      <4>1. call.len \in Nat /\ offs \in Nat /\ offs < call.len
        BY <2>3 DEF IInv, Typed, CutNext
      <4> QED
        BY <1>1, <4>1 DEF NextLen
    <3> QED
      BY <1>1, <2>3, <3>1 DEF IInv, Typed, CutNext, CutTo
  <2>4. CASE Return \/ Disable
    BY <2>4 DEF IInv, Typed, Return, Disable, Goto, Disabled, callVars
  <2> QED
    BY <2>1, <2>2, <2>3, <2>4
<1>6. Typed'
  BY <1>2, <1>4, <1>5 DEF IInv, Typed, Pcs
<1>7. ChunkFits'
  <2>1. CASE Disable
    BY <2>1 DEF IInv, ChunkFits, Disable, Goto, callVars
  <2>2. CASE ~Disable
    BY <1>4, <1>5, <2>2 DEF ChunkFits, Call, CutFirst, CutNext, CutTo, Return, Goto
  <2> QED
    BY <2>1, <2>2
<1>8. Queueing' /\ Receiving'
  BY <1>2, <1>3, <1>4 DEF IInv, Queueing, Receiving, ReadPending
<1>9. Addressing' /\ StartsFirst'
  BY <1>2 DEF IInv, Addressing, StartsFirst, Sends
<1> QED
  BY <1>6, <1>7, <1>8, <1>9 DEF IInv

----------------------------------------------------------------------------
(* Queueing a transfer.                                                    *)
LEMMA AddressEntries ==
  ASSUME Typed, NEW last \in {"tx", "txStop"}
  PROVE  /\ Address(last) \in Seq(Entries) /\ Len(Address(last)) = 3
         /\ Address(last)[1].flag = "start" /\ Address(last)[1].byte % 2 = 0
         /\ Address(last)[2].flag = "tx" /\ AddressByte(2, Address(last)[2].byte)
         /\ Address(last)[3].flag = last /\ AddressByte(3, Address(last)[3].byte)
<1>1. chunk.addr \in Nat /\ Depth \in Nat \ {0} /\ BlockLen \in Nat \ {0}
  BY DepthAssumption, BlockAssumption DEF Typed
<1>2. Ctrl(chunk.addr) \in Nat /\ Ctrl(chunk.addr) % 2 = 0
  <2>1. BlockBit(chunk.addr) \in {0, 1}
    <3>1. chunk.addr \div BlockLen \in Nat
      BY <1>1, DivModFacts
    <3> QED
      BY <3>1 DEF BlockBit
  <2> QED
    BY <2>1 DEF Ctrl
<1>3. AddressByte(2, (chunk.addr % BlockLen) \div Depth) /\ AddressByte(3, chunk.addr % Depth)
  BY <1>1, AddressHalves DEF AddressByte
<1>4. (chunk.addr % BlockLen) \div Depth \in Int /\ chunk.addr % Depth \in Int
  BY <1>1, AddressHalves
<1> QED
  BY <1>2, <1>3, <1>4 DEF Address, Entry, Entries

LEMMA QueueAddressIInv == IInv /\ QueueAddress => IInv'
<1> SUFFICES ASSUME IInv, QueueAddress PROVE IInv'
  OBVIOUS
<1> DEFINE last == IF call.op = "read" THEN "txStop" ELSE "tx"
<1>1. Depth \in Nat /\ Depth >= 8
  BY DepthAssumption
<1>2. pc = "address" /\ pc' = "queue" /\ fmt = <<>> /\ fmt' = fmt \o Address(last)
  BY DEF IInv, Queueing, QueueAddress, Goto
<1>3. /\ fmt' \in Seq(Entries) /\ Len(fmt') = 3
      /\ fmt'[1].flag = "start" /\ fmt'[1].byte % 2 = 0
      /\ fmt'[2].flag = "tx" /\ AddressByte(2, fmt'[2].byte)
      /\ fmt'[3].flag \in {"tx", "txStop"} /\ AddressByte(3, fmt'[3].byte)
  <2>1. Address(last) \in Seq(Entries) /\ last \in {"tx", "txStop"}
    BY AddressEntries DEF IInv
  <2>2. fmt' = Address(last)
    BY <1>2, <2>1, ConcatEmptySeq
  <2> QED
    BY <2>1, <2>2, AddressEntries DEF IInv
<1>4. Typed' /\ ChunkFits'
  BY <1>3 DEF IInv, Typed, ChunkFits, QueueAddress, Goto, callVars, Pcs
<1>5. Queueing' /\ Receiving'
  <2>1. ~enabled' /\ rx' = <<>>
    BY <1>2 DEF IInv, Queueing, Receiving, QueueAddress
  <2>2. fmt'[1].flag # "rx" /\ fmt'[2].flag # "rx" /\ fmt'[3].flag # "rx" /\ ~ReadPending'
    BY <1>3 DEF ReadPending
  <2>3. \A k \in 1 .. Len(fmt') - 1 : fmt'[k].flag # "rx"
    BY <1>3, <2>2
  <2>4. pc' = "queue"
    BY <1>2
  <2>5. Len(fmt') = 3
    BY <1>3
  <2>6. Len(fmt') <= Depth
    BY <1>1, <2>5
  <2> QED
    BY <1>3, <2>1, <2>2, <2>3, <2>4, <2>5, <2>6 DEF Queueing, Receiving, Sends
<1>6. Addressing' /\ StartsFirst'
  <2>1. UNCHANGED dev
    BY DEF QueueAddress
  <2>2. \A k \in 1 .. Len(fmt') : k = 1 \/ k = 2 \/ k = 3
    BY <1>3
  <2>3. \A k \in 1 .. Len(fmt') : Sends(k)' => AddressByte(k, fmt'[k].byte)
    <3>1. ~Sends(1)'
      BY <1>3 DEF Sends
    <3> QED
      BY <1>3, <2>2, <3>1
  <2>4. Addressing'
    BY <1>3, <2>1, <2>3 DEF IInv, Addressing, AddressByte
  <2>5. \A k \in 2 .. Len(fmt') : fmt'[k].flag # "start"
    <3>1. \A k \in 2 .. Len(fmt') : k = 2 \/ k = 3
      BY <1>3
    <3> QED
      BY <1>3, <3>1
  <2>6. StartsFirst'
    BY <2>5 DEF StartsFirst
  <2> QED
    BY <2>4, <2>6
<1> QED
  BY <1>4, <1>5, <1>6 DEF IInv

(* The entries that come behind the address.                               *)
ReadQueued ==
  /\ Len(fmt') = 5 /\ fmt'[1] = fmt[1] /\ fmt'[2] = fmt[2] /\ fmt'[3] = fmt[3]
  /\ fmt'[4] = Entry("start", Ctrl(chunk.addr) + 1)

WriteQueued ==
  /\ Len(fmt') > 3 /\ fmt'[1] = fmt[1] /\ fmt'[2] = fmt[2] /\ fmt'[3] = fmt[3]
  /\ \A k \in 4 .. Len(fmt') : fmt'[k].flag = "tx"

LEMMA QueueReadIInv == IInv /\ QueueRead => IInv' /\ ReadQueued
<1> SUFFICES ASSUME IInv, QueueRead PROVE IInv' /\ ReadQueued
  OBVIOUS
<1> DEFINE s == << Entry("start", Ctrl(chunk.addr) + 1), Entry("rx", chunk.len) >>
<1>1. Depth \in Nat /\ Depth >= 8
  BY DepthAssumption
<1>2. /\ pc = "queue" /\ pc' = "receive" /\ fmt' = fmt \o s /\ Len(fmt) = 3 /\ fmt \in Seq(Entries)
      /\ UNCHANGED <<callVars, chunk, rx, dev>> /\ enabled' = TRUE
  BY DEF IInv, Typed, Queueing, QueueRead, Goto
<1>3. chunk.len \in 1 .. Depth /\ rx = <<>> /\ ~ReadPending
  BY <1>2 DEF IInv, ChunkFits, Receiving
<1>4. Ctrl(chunk.addr) \in Int
  <2>1. chunk.addr \div BlockLen \in Int
    BY BlockAssumption, DivModFacts DEF IInv, Typed
  <2> QED
    BY <2>1 DEF Ctrl, BlockBit
<1>5. s \in Seq(Entries) /\ Len(s) = 2 /\ s[1].flag = "start" /\ s[2].flag = "rx" /\ s[2].byte = chunk.len
      /\ s[1] = Entry("start", Ctrl(chunk.addr) + 1)
  BY <1>3, <1>4 DEF Entry, Entries
<1> HIDE DEF s
<1>6. /\ fmt' \in Seq(Entries) /\ Len(fmt') = 5
      /\ fmt'[1] = fmt[1] /\ fmt'[2] = fmt[2] /\ fmt'[3] = fmt[3]
      /\ fmt'[4] = s[1] /\ fmt'[5] = s[2]
  <2>1. fmt \in Seq(Entries) /\ s \in Seq(Entries)
    BY <1>2, <1>5
  <2>2. /\ fmt \o s \in Seq(Entries) /\ Len(fmt \o s) = Len(fmt) + Len(s)
        /\ \A k \in 1 .. Len(fmt) + Len(s) :
             (fmt \o s)[k] = IF k <= Len(fmt) THEN fmt[k] ELSE s[k - Len(fmt)]
    BY <2>1, ConcatProperties, Zenon
  <2>3. Len(fmt) = 3 /\ Len(s) = 2 /\ fmt' = fmt \o s
    BY <1>2, <1>5
  <2> QED
    BY <2>2, <2>3
<1>7. Typed' /\ ChunkFits'
  BY <1>2, <1>3, <1>6 DEF IInv, Typed, ChunkFits, callVars, Pcs
<1>8. fmt[1].flag # "rx" /\ fmt[2].flag # "rx" /\ fmt[3].flag # "rx"
  <2>1. fmt # <<>>
    <3>1. Len(<<>>) = 0
      BY EmptySeq
    <3>2. fmt = <<>> => Len(fmt) = 0
      BY <3>1, Zenon
    <3> QED
      BY <1>2, <3>2
  <2> QED
    BY <1>2, <1>3, <2>1 DEF IInv, Receiving, ReadPending
<1>9. Queueing' /\ Receiving'
  <2>1. fmt'[5].flag = "rx" /\ fmt'[5].byte = chunk.len /\ chunk.len \in Int /\ chunk.len >= 1
    BY <1>1, <1>3, <1>5, <1>6
  <2>2. fmt' # <<>>
    <3>1. Len(fmt') # 0
      BY <1>6
    <3> QED
      BY <3>1, EmptySeq, Zenon
  <2>3. ReadPending'
    BY <1>6, <2>1, <2>2 DEF ReadPending
  <2>4. \A k \in 1 .. Len(fmt') - 1 : fmt'[k].flag # "rx"
    <3>1. \A k \in 1 .. Len(fmt') - 1 : k = 1 \/ k = 2 \/ k = 3 \/ k = 4
      BY <1>6
    <3>2. fmt'[4].flag # "rx"
      BY <1>5, <1>6
    <3> QED
      BY <1>6, <1>8, <3>1, <3>2
  <2>5. fmt'[Len(fmt')].byte >= 1 /\ fmt'[Len(fmt')].byte + Len(rx') = chunk'.len
    <3>1. rx' = <<>> /\ chunk' = chunk
      BY <1>2, <1>3
    <3>2. Len(rx') = 0
      BY <3>1, EmptySeq
    <3> QED
      BY <1>6, <2>1, <3>1, <3>2
  <2>6. Receiving'
    BY <1>2, <2>3, <2>4, <2>5 DEF Receiving
  <2>7. Queueing'
    BY <1>1, <1>2, <1>6 DEF Queueing
  <2> QED
    BY <2>6, <2>7
<1>10. Addressing'
  <2>1. \A k \in 1 .. Len(fmt') : k \in 1 .. 3 \/ k = 4 \/ k = 5
    BY <1>6
  <2>2. ~Sends(4)' /\ ~Sends(5)'
    BY <1>5, <1>6 DEF Sends
  <2>3. \A k \in 1 .. 3 : fmt'[k] = fmt[k]
    BY <1>6
  <2>4. \A k \in 1 .. Len(fmt') : Sends(k)' => k \in 1 .. Len(fmt) /\ Sends(k) /\ fmt'[k] = fmt[k]
    BY <1>2, <2>1, <2>2, <2>3 DEF Sends
  <2>5. UNCHANGED dev /\ fmt'[1] = fmt[1]
    BY <1>2, <1>6
  <2>6. \A k \in 1 .. Len(fmt') :
          Sends(k)' =>
            IF fmt'[1].flag = "start" THEN fmt'[1].byte % 2 = 0 /\ AddressByte(k, fmt'[k].byte)
                                      ELSE Len(dev.bytes) >= 1 /\ AddressByte(Len(dev.bytes) + k, fmt'[k].byte)
    BY <2>4, <2>5 DEF IInv, Addressing
  <2> QED
    BY <2>5, <2>6 DEF IInv, Addressing, AddressByte
<1>11. StartsFirst'
  <2>1. ~Sends(4)' /\ ~Sends(5)' /\ (\A j \in 4 .. Len(fmt') : j = 4 \/ j = 5)
    BY <1>5, <1>6 DEF Sends
  <2>2. \A k \in 2 .. Len(fmt') : fmt'[k].flag = "start" => k \in 4 .. Len(fmt')
    <3>1. fmt[2].flag # "start" /\ fmt[3].flag # "start"
      BY <1>2 DEF IInv, Queueing, Sends
    <3>2. \A k \in 2 .. Len(fmt') : k = 2 \/ k = 3 \/ k \in 4 .. Len(fmt')
      BY <1>6
    <3> QED
      BY <1>6, <3>1, <3>2
  <2>3. \A k \in 4 .. Len(fmt') : \A j \in k .. Len(fmt') : ~Sends(j)'
    BY <1>6, <2>1
  <2> QED
    BY <2>2, <2>3 DEF StartsFirst
<1>12. ReadQueued
  BY <1>5, <1>6 DEF ReadQueued
<1> QED
  BY <1>7, <1>9, <1>10, <1>11, <1>12 DEF IInv

LEMMA QueueWriteIInv == IInv /\ QueueWrite => IInv' /\ WriteQueued
<1> SUFFICES ASSUME IInv, QueueWrite PROVE IInv' /\ WriteQueued
  OBVIOUS
<1> DEFINE body == [b \in 1 .. Body |-> Entry("tx", Src(chunk.buf + b - 1))]
           lst  == << Entry("tx", Src(chunk.buf + chunk.len - 1)) >>
<1>1. Depth \in Nat /\ Depth >= 8 /\ Half \in Nat /\ Half + 4 <= Depth /\ BlockLen \in Nat
  BY DepthAssumption, BlockAssumption DEF Half
<1>2. /\ pc = "queue" /\ pc' = IF chunk.len > Half THEN "wait" ELSE "cut"
      /\ fmt' = (fmt \o body) \o lst
      /\ chunk' = IF chunk.len > Half
                    THEN [buf |-> chunk.buf + chunk.len, addr |-> chunk.addr + chunk.len,
                          len |-> chunk.len - Half]
                    ELSE chunk
      /\ UNCHANGED <<callVars, rx, dev>> /\ enabled' = TRUE
  BY DEF QueueWrite, Goto
<1>3. /\ chunk.len \in 1 .. Depth /\ chunk.buf \in Nat /\ chunk.addr \in Nat /\ rx = <<>>
      /\ fmt \in Seq(Entries) /\ Len(fmt) = 3 /\ fmt[1].flag = "start" /\ fmt[1].byte % 2 = 0
      /\ Sends(2) /\ Sends(3)
  BY <1>2 DEF IInv, Typed, ChunkFits, Queueing, Receiving
<1>4. Body \in 0 .. Half
  BY <1>1, <1>3 DEF Body
<1>5. body \in Seq(Entries) /\ Len(body) = Body /\ \A b \in 1 .. Body : body[b].flag = "tx"
  <2>1. \A b \in 1 .. Body : Entry("tx", Src(chunk.buf + b - 1)) \in Entries
    BY <1>1, <1>3 DEF Entry, Entries, Src
  <2> QED
    BY <1>1, <1>4, <2>1 DEF Entry
<1>6. lst \in Seq(Entries) /\ Len(lst) = 1 /\ lst[1].flag = "tx"
  BY <1>1, <1>3 DEF Entry, Entries, Src
<1> HIDE DEF body, lst
<1>7. /\ fmt' \in Seq(Entries) /\ Len(fmt') = Body + 4
      /\ fmt'[1] = fmt[1] /\ fmt'[2] = fmt[2] /\ fmt'[3] = fmt[3]
      /\ \A k \in 4 .. Body + 4 : fmt'[k].flag = "tx"
  <2> DEFINE fb == fmt \o body
  <2>1. /\ fb \in Seq(Entries) /\ Len(fb) = Len(fmt) + Len(body)
        /\ \A k \in 1 .. Len(fmt) + Len(body) : fb[k] = IF k <= Len(fmt) THEN fmt[k] ELSE body[k - Len(fmt)]
    BY <1>3, <1>5, ConcatProperties, Zenon
  <2> HIDE DEF fb
  <2>2. /\ fb \o lst \in Seq(Entries) /\ Len(fb \o lst) = Len(fb) + Len(lst)
        /\ \A k \in 1 .. Len(fb) + Len(lst) : (fb \o lst)[k] = IF k <= Len(fb) THEN fb[k] ELSE lst[k - Len(fb)]
    <3>1. fb \in Seq(Entries) /\ lst \in Seq(Entries)
      BY <1>6, <2>1
    <3> QED
      BY <3>1, ConcatProperties, Zenon
  <2>3. fmt' = fb \o lst
    BY <1>2 DEF fb
  <2>4. Len(fb) = Body + 3 /\ fb[1] = fmt[1] /\ fb[2] = fmt[2] /\ fb[3] = fmt[3]
    <3>1. Len(fmt) = 3 /\ Len(body) = Body /\ Body \in Nat
      BY <1>1, <1>3, <1>4, <1>5
    <3>2. Len(fmt) + Len(body) = Body + 3
      BY <3>1
    <3>3. \A k \in 1 .. Body + 3 : fb[k] = IF k <= 3 THEN fmt[k] ELSE body[k - 3]
      BY <2>1, <3>1, <3>2, Zenon
    <3>4. {1, 2, 3} \subseteq 1 .. Body + 3
      BY <3>1
    <3>5. fb[1] = fmt[1] /\ fb[2] = fmt[2] /\ fb[3] = fmt[3]
      BY <3>3, <3>4
    <3> QED
      BY <2>1, <3>2, <3>5
  <2>5. \A k \in 4 .. Body + 3 : fb[k].flag = "tx"
    <3>1. SUFFICES ASSUME NEW k \in 4 .. Body + 3 PROVE fb[k].flag = "tx"
      OBVIOUS
    <3>2. /\ k \in 1 .. Len(fmt) + Len(body) /\ ~(k <= Len(fmt)) /\ k - Len(fmt) \in 1 .. Body
      BY <1>1, <1>3, <1>4, <1>5
    <3>3. fb[k] = body[k - Len(fmt)]
      BY <2>1, <3>2, Zenon
    <3> QED
      BY <1>5, <3>2, <3>3
  <2>6. Len(fb) \in Nat /\ Body \in Nat /\ Len(lst) = 1 /\ Len(fb) = Body + 3
    BY <1>4, <1>1, <1>6, <2>4
  <2>7. fmt' \in Seq(Entries) /\ Len(fmt') = Body + 4
    <3>1. Len(fb) + Len(lst) = Body + 4
      BY <2>6
    <3> QED
      BY <2>2, <2>3, <3>1, Zenon
  <2>8. \A k \in 1 .. Body + 4 : fmt'[k] = IF k <= Len(fb) THEN fb[k] ELSE lst[k - Len(fb)]
    <3>1. Len(fb) + Len(lst) = Body + 4
      BY <2>6
    <3> QED
      BY <2>2, <2>3, <3>1, Zenon
  <2>9. \A k \in 1 .. Body + 3 : fmt'[k] = fb[k]
    BY <2>6, <2>8
  <2>10. fmt'[1] = fmt[1] /\ fmt'[2] = fmt[2] /\ fmt'[3] = fmt[3]
    <3>1. {1, 2, 3} \subseteq 1 .. Body + 3
      BY <2>6
    <3> QED
      BY <2>4, <2>9, <3>1
  <2>11. \A k \in 1 .. Body + 4 : k = Body + 4 => fmt'[k].flag = "tx"
    <3>1. SUFFICES ASSUME NEW k \in 1 .. Body + 4, k = Body + 4 PROVE fmt'[k].flag = "tx"
      OBVIOUS
    <3>2. ~(k <= Len(fb)) /\ k - Len(fb) = 1
      BY <2>6, <3>1
    <3>3. fmt'[k] = lst[k - Len(fb)]
      BY <2>8, <3>2, Zenon
    <3> QED
      BY <1>6, <3>2, <3>3
  <2>12. \A k \in 4 .. Body + 4 : fmt'[k].flag = "tx"
    <3>1. SUFFICES ASSUME NEW k \in 4 .. Body + 4 PROVE fmt'[k].flag = "tx"
      OBVIOUS
    <3>2. (k = Body + 4 /\ k \in 1 .. Body + 4) \/ (k \in 4 .. Body + 3 /\ k \in 1 .. Body + 3)
      BY <2>6
    <3> QED
      BY <2>5, <2>9, <2>11, <3>2
  <2> QED
    BY <2>7, <2>10, <2>12
<1>8. Typed'
  <2>1. chunk' \in [buf : Nat, addr : Nat, len : Int]
    <3>1. chunk \in [buf : Nat, addr : Nat, len : Int]
      BY DEF IInv, Typed
    <3>2. CASE chunk.len > Half
      <4>1. chunk.buf + chunk.len \in Nat /\ chunk.addr + chunk.len \in Nat /\ chunk.len - Half \in Int
        <5>1. \A x, l, h \in Int : x >= 0 /\ l >= 0 => x + l \in Nat /\ l - h \in Int
          OBVIOUS
        <5>2. chunk.len \in Int /\ chunk.len >= 0 /\ Half \in Int
          BY <1>1, <1>3
        <5>3. chunk.buf \in Int /\ chunk.buf >= 0 /\ chunk.addr \in Int /\ chunk.addr >= 0
          BY <1>3
        <5> QED
          BY <5>1, <5>2, <5>3, Zenon
      <4> QED
        BY <1>2, <3>2, <4>1
    <3> QED
      BY <1>2, <3>1, <3>2
  <2> QED
    BY <1>2, <1>7, <2>1 DEF IInv, Typed, callVars, Pcs
<1>9. ChunkFits' /\ Queueing'
  <2>1. pc' = "wait" => chunk'.len \in 1 .. Depth
    BY <1>1, <1>2, <1>3
  <2>2. Len(fmt') <= Depth
    BY <1>1, <1>4, <1>7
  <2> QED
    BY <1>2, <2>1, <2>2 DEF ChunkFits, Queueing
<1>10. Receiving'
  <2>1. \A k \in 1 .. Len(fmt') : fmt'[k].flag # "rx"
    BY <1>1, <1>3, <1>4, <1>7 DEF Sends
  <2>2. ~ReadPending'
    BY <1>1, <1>4, <1>7, <2>1 DEF ReadPending
  <2> QED
    <3>1. pc' # "receive" /\ rx' = <<>>
      BY <1>2, <1>3
    <3>2. \A k \in 1 .. Len(fmt') - 1 : fmt'[k].flag # "rx"
      <4>1. \A n \in Nat : \A k \in 1 .. n - 1 : k \in 1 .. n
        OBVIOUS
      <4>2. Len(fmt') \in Nat
        BY <1>7
      <4> QED
        BY <2>1, <4>1, <4>2, Zenon
    <3> QED
      BY <2>2, <3>1, <3>2 DEF Receiving
<1>11. Addressing'
  <2>1. AddressByte(2, fmt[2].byte) /\ AddressByte(3, fmt[3].byte)
    BY <1>3 DEF IInv, Addressing
  <2>2. \A k \in 1 .. Len(fmt') : Sends(k)' => AddressByte(k, fmt'[k].byte)
    BY <1>1, <1>3, <1>4, <1>7, <2>1 DEF Sends, AddressByte
  <2>3. UNCHANGED dev
    BY <1>2
  <2> QED
    BY <1>3, <1>7, <2>2, <2>3 DEF IInv, Addressing, AddressByte
<1>12. StartsFirst'
  <2>1. \A k \in 2 .. Len(fmt') : fmt'[k].flag # "start"
    BY <1>1, <1>3, <1>4, <1>7 DEF Sends
  <2> QED
    BY <2>1 DEF StartsFirst
<1> QED
  <2>1. Len(fmt') > 3
    BY <1>1, <1>4, <1>7
  <2>2. WriteQueued
    BY <1>7, <2>1 DEF WriteQueued
  <2> QED
    BY <1>8, <1>9, <1>10, <1>11, <1>12, <2>2 DEF IInv

(* Taking the chunk: it is all that is in the FIFO.                        *)
LEMMA ReceiveIInv == IInv /\ Receive => IInv'
<1> SUFFICES ASSUME IInv, Receive PROVE IInv'
  OBVIOUS
<1>1. /\ pc = "receive" /\ pc' = "cut" /\ UNCHANGED <<callVars, chunk, fmt, enabled, dev>>
      /\ rx' = SubSeq(rx, chunk.len + 1, Len(rx)) /\ Len(rx) >= chunk.len
      /\ chunk.len \in Int /\ rx \in Seq(Int) /\ Len(rx) \in Nat
  BY DEF IInv, Typed, Receive, Received, Goto
<1>2. ~ReadPending
  <2>1. fmt # <<>> => fmt[Len(fmt)].byte \in Int
    <3>1. fmt # <<>> => fmt[Len(fmt)] \in Entries
      BY LastEntry, Zenon DEF IInv, Typed
    <3> QED
      BY <3>1 DEF Entries
  <2>2. ReadPending => fmt[Len(fmt)].byte >= 1 /\ fmt[Len(fmt)].byte + Len(rx) = chunk.len
    BY DEF IInv, Receiving
  <2> QED
    BY <1>1, <2>1, <2>2 DEF ReadPending
<1>3. fmt = <<>> /\ Len(rx) = chunk.len
  BY <1>1, <1>2 DEF IInv, Receiving
<1>4. rx' = <<>>
  BY <1>1, <1>3, SubSeqEmpty
<1>5. Typed' /\ ChunkFits' /\ Queueing'
  <2>1. Typed'
    <3>1. <<>> \in Seq(Int)
      OBVIOUS
    <3> QED
      BY <1>1, <1>4, <3>1 DEF IInv, Typed, callVars, Pcs
  <2>2. ChunkFits'
    BY <1>1 DEF ChunkFits
  <2>3. Queueing'
    BY <1>1 DEF IInv, Queueing
  <2> QED
    BY <2>1, <2>2, <2>3
<1>6. Receiving'
  <2>1. ~ReadPending' /\ \A k \in 1 .. Len(fmt') - 1 : fmt'[k].flag # "rx"
    BY <1>1, <1>2 DEF ReadPending, IInv, Receiving
  <2> QED
    BY <1>1, <1>4, <2>1 DEF Receiving
<1>7. Addressing' /\ StartsFirst'
  BY <1>1 DEF IInv, Addressing, StartsFirst, Sends
<1> QED
  BY <1>5, <1>6, <1>7 DEF IInv
----------------------------------------------------------------------------
(* The controller.                                                         *)
LEMMA HeadAndTail ==
  ASSUME NEW S, NEW seq \in Seq(S), seq # <<>>
  PROVE  /\ Head(seq) = seq[1] /\ seq[1] \in S /\ seq[Len(seq)] \in S /\ Len(seq) \in Nat \ {0}
         /\ Tail(seq) \in Seq(S) /\ Len(Tail(seq)) = Len(seq) - 1
         /\ \A k \in 1 .. Len(seq) - 1 : Tail(seq)[k] = seq[k + 1]
<1>1. Head(seq) = seq[1]
  BY LastEntry
<1>2. /\ Tail(seq) \in Seq(S) /\ Len(Tail(seq)) = Len(seq)-1
      /\ \A i \in 1 .. Len(Tail(seq)) : Tail(seq)[i] = seq[i+1]
  BY HeadTailProperties, Zenon
<1>3. seq[1] \in S /\ seq[Len(seq)] \in S /\ Len(seq) \in Nat \ {0}
  BY LastEntry, Zenon
<1> QED
  BY <1>1, <1>2, <1>3

(* What the device makes of an entry: its address stays within its blocks. *)
Devices == [bytes : Seq(Nat), ptr : Cells, page : Seq(Int), mem : [Cells -> Int]]

LEMMA StartTyped ==
  ASSUME NEW d \in Devices, NEW b \in Int
  PROVE  /\ OnStart(d, b) \in Devices
         /\ OnStart(d, b).bytes = IF b % 2 = 0 THEN <<(b \div 8) % 2>> ELSE d.bytes
<1>1. (b \div 8) % 2 \in Nat
  OBVIOUS
<1>2. <<(b \div 8) % 2>> \in Seq(Nat) /\ <<>> \in Seq(Int)
  BY <1>1
<1> QED
  BY <1>2 DEF OnStart, Devices

LEMMA AddressTyped ==
  ASSUME NEW h \in {0, 1}, NEW m, NEW l, AddressByte(2, m), AddressByte(3, l)
  PROVE  h * BlockLen + m * Depth + l \in Cells
<1> DEFINE q == BlockLen \div Depth
<1>1. q \in Nat /\ q * Depth = BlockLen /\ Depth \in Nat \ {0}
  BY BlockInDepths
<1>2. m \in 0 .. q - 1 /\ l \in 0 .. Depth - 1
  BY DEF AddressByte
<1> HIDE DEF q
<1>3. h * (q * Depth) + m * Depth + l \in 0 .. 2 * (q * Depth) - 1
  BY <1>1, <1>2, LastCell
<1> QED
  BY <1>1, <1>3 DEF Cells

LEMMA Appended ==
  ASSUME NEW S, NEW seq \in Seq(S), NEW x \in S
  PROVE  /\ Len(Append(seq, x)) = Len(seq) + 1
         /\ Append(seq, x)[Len(seq) + 1] = x
         /\ \A i \in 1 .. Len(seq) : Append(seq, x)[i] = seq[i]
  BY AppendProperties

(* One more byte of an address.                                            *)
LEMMA AddressGrows ==
  ASSUME NEW xs, NEW ys, NEW b, NEW n \in {1, 2},
         Len(ys) = n + 1, ys[n + 1] = b, \A i \in 1 .. n : ys[i] = xs[i],
         xs[1] \in {0, 1}, \A i \in 2 .. n : AddressByte(i, xs[i]), AddressByte(n + 1, b)
  PROVE  /\ ys[1] \in {0, 1} /\ AddressByte(2, ys[2])
         /\ n = 1 => Len(ys) = 2
         /\ n = 2 => Len(ys) = 3 /\ AddressByte(3, ys[3])
<1>1. CASE n = 1
  <2>1. Len(ys) = 2 /\ ys[2] = b /\ AddressByte(2, b) /\ ys[1] = xs[1]
    BY <1>1
  <2> QED
    BY <1>1, <2>1
<1>2. CASE n = 2
  <2>1. Len(ys) = 3 /\ ys[3] = b /\ AddressByte(3, b) /\ ys[1] = xs[1] /\ ys[2] = xs[2] /\ AddressByte(2, xs[2])
    BY <1>2
  <2> QED
    BY <1>2, <2>1
<1> QED
  BY <1>1, <1>2

LEMMA ByteTyped ==
  ASSUME NEW d \in Devices, NEW b \in Int, NEW n \in 1 .. 3, Len(d.bytes) = n, d.bytes[1] \in {0, 1},
         \A i \in 2 .. n : AddressByte(i, d.bytes[i]), AddressByte(n + 1, b)
  PROVE  /\ OnByte(d, b) \in Devices
         /\ OnByte(d, b).bytes = IF n < 3 THEN Append(d.bytes, b) ELSE d.bytes
         /\ n < 3 => b \in Nat
<1>1. d.bytes \in Seq(Nat) /\ d.page \in Seq(Int)
  BY DEF Devices
<1>2. CASE n < 3
  <2> DEFINE bs == Append(d.bytes, b)
  <2>1. b \in Nat
    <3>1. n = 1 \/ n = 2
      BY <1>2
    <3>2. AddressByte(2, b) => b \in Nat
      BY BlockInDepths DEF AddressByte
    <3>3. AddressByte(3, b) => b \in Nat
      BY BlockInDepths DEF AddressByte
    <3> QED
      BY <3>1, <3>2, <3>3
  <2>2. bs \in Seq(Nat) /\ Len(bs) = n + 1 /\ bs[n + 1] = b
        /\ \A k \in 1 .. n : bs[k] = d.bytes[k]
    BY <1>1, <2>1, AppendProperties
  <2> HIDE DEF bs
  <2>3. Len(bs) = 3 => bs[1] * BlockLen + bs[2] * Depth + bs[3] \in Cells
    <3>1. n \in {1, 2}
      BY <1>2
    <3>2. /\ bs[1] \in {0, 1} /\ AddressByte(2, bs[2])
          /\ n = 1 => Len(bs) = 2
          /\ n = 2 => Len(bs) = 3 /\ AddressByte(3, bs[3])
      BY <2>2, <3>1, AddressGrows
    <3>3. CASE n = 1
      BY <3>2, <3>3
    <3>4. CASE n = 2
      BY <3>2, <3>4, AddressTyped
    <3> QED
      BY <3>1, <3>3, <3>4
  <2>4. OnByte(d, b) = [d EXCEPT !.bytes = bs,
                                 !.ptr = IF Len(bs) = 3 THEN bs[1] * BlockLen + bs[2] * Depth + bs[3] ELSE @]
    BY <1>2 DEF OnByte, bs
  <2>5. OnByte(d, b) \in Devices /\ OnByte(d, b).bytes = bs
    BY <2>2, <2>3, <2>4 DEF Devices
  <2> QED
    BY <1>2, <2>1, <2>5 DEF bs
<1>3. CASE n = 3
  <2>1. Append(d.page, b) \in Seq(Int)
    BY <1>1
  <2>2. OnByte(d, b) = [d EXCEPT !.page = Append(@, b)]
    BY <1>3 DEF OnByte
  <2>3. OnByte(d, b) \in Devices /\ OnByte(d, b).bytes = d.bytes
    BY <2>1, <2>2 DEF Devices
  <2> QED
    BY <1>3, <2>3
<1> QED
  BY <1>2, <1>3

LEMMA StopTyped ==
  ASSUME NEW d \in Devices
  PROVE  OnStop(d) \in Devices /\ OnStop(d).bytes = d.bytes
<1> DEFINE m == [a \in Cells |-> IF a - d.ptr \in 0 .. Len(d.page) - 1
                                   THEN d.page[a - d.ptr + 1] ELSE d.mem[a]]
<1>1. d.ptr \in Cells /\ d.page \in Seq(Int) /\ d.mem \in [Cells -> Int] /\ Len(d.page) \in Nat
  BY DEF Devices
<1>2. ASSUME NEW a \in Cells, a - d.ptr \in 0 .. Len(d.page) - 1
      PROVE  d.page[a - d.ptr + 1] \in Int
  <2>1. a - d.ptr + 1 \in 1 .. Len(d.page)
    <3>1. a \in Int /\ d.ptr \in Int
      BY <1>1, BlockInDepths DEF Cells
    <3>2. \A x, p \in Int, n \in Nat : x - p \in 0 .. n - 1 => x - p + 1 \in 1 .. n
      OBVIOUS
    <3> QED
      BY <1>1, <1>2, <3>1, <3>2, Zenon
  <2> QED
    BY <1>1, <2>1, ElementOfSeq
<1>3. m \in [Cells -> Int]
  BY <1>1, <1>2
<1>4. OnStop(d) = [d EXCEPT !.page = <<>>, !.mem = m] /\ <<>> \in Seq(Int)
  BY DEF OnStop
<1> HIDE DEF m
<1> QED
  BY <1>3, <1>4 DEF Devices

LEMMA StepIInv == IInv /\ Step => IInv'
<1> SUFFICES ASSUME IInv, Step PROVE IInv'
  OBVIOUS
<1> DEFINE b == fmt[1].byte
           n == Len(dev.bytes)
<1>1. /\ enabled /\ fmt # <<>> /\ fmt \in Seq(Entries) /\ dev \in Devices
      /\ UNCHANGED <<pc, callVars, chunk, rx, enabled>> /\ fmt' = Tail(fmt)
  BY DEF IInv, Typed, Devices, Step
<1>2. /\ Head(fmt) = fmt[1] /\ fmt[1] \in Entries /\ fmt[Len(fmt)] \in Entries /\ Len(fmt) \in Nat \ {0}
      /\ fmt' \in Seq(Entries) /\ Len(fmt') = Len(fmt) - 1
      /\ \A k \in 1 .. Len(fmt) - 1 : fmt'[k] = fmt[k + 1]
  BY <1>1, HeadAndTail
<1>3. b \in Int /\ fmt[1].flag \in {"start", "tx", "txStop"}
  BY <1>2 DEF Step, Entries
<1>4. /\ fmt[1].flag = "start"  => dev' = OnStart(dev, b)
      /\ fmt[1].flag = "tx"     => dev' = OnByte(dev, b)
      /\ fmt[1].flag = "txStop" => dev' = OnStop(OnByte(dev, b))
  BY <1>2 DEF Step
<1>5. /\ n \in 0 .. 3 /\ dev.bytes \in Seq(Nat) /\ Len(dev.bytes) = n
      /\ n >= 1 => dev.bytes[1] \in {0, 1}
      /\ \A i \in 2 .. n : AddressByte(i, dev.bytes[i])
      /\ \A k \in 1 .. Len(fmt) :
           Sends(k) => IF fmt[1].flag = "start" THEN b % 2 = 0 /\ AddressByte(k, fmt[k].byte)
                                                ELSE n >= 1 /\ AddressByte(n + k, fmt[k].byte)
  <2>1. dev.bytes \in Seq(Nat) /\ n \in Nat
    BY <1>1 DEF Devices
  <2>2. Addressing
    BY DEF IInv
  <2>3. n <= 3 /\ (n >= 1 => dev.bytes[1] \in {0, 1})
    BY <2>2 DEF Addressing
  <2>4. \A i \in 2 .. n : AddressByte(i, dev.bytes[i])
    BY <2>2 DEF Addressing
  <2>5. \A k \in 1 .. Len(fmt) :
          Sends(k) => IF fmt[1].flag = "start" THEN b % 2 = 0 /\ AddressByte(k, fmt[k].byte)
                                               ELSE n >= 1 /\ AddressByte(n + k, fmt[k].byte)
    BY <2>2 DEF Addressing
  <2>6. n = Len(dev.bytes)
    OBVIOUS
  <2>7. n \in 0 .. 3
    <3>1. \A x \in Nat : x <= 3 => x \in 0 .. 3
      OBVIOUS
    <3> QED
      BY <2>1, <2>3, <3>1, Zenon
  <2> HIDE DEF n
  <2> QED
    BY <2>1, <2>3, <2>4, <2>5, <2>6, <2>7
<1> HIDE DEF n
<1>6. Sends(1) => /\ n \in 1 .. 3 /\ dev.bytes[1] \in {0, 1} /\ AddressByte(n + 1, b)
                  /\ \A i \in 2 .. n : AddressByte(i, dev.bytes[i])
  <2>1. 1 \in 1 .. Len(fmt) /\ (Sends(1) => fmt[1].flag # "start")
    BY <1>2 DEF Sends
  <2>2. Sends(1) => n >= 1 /\ AddressByte(n + 1, b)
    BY <1>5, <2>1
  <2> QED
    BY <1>5, <2>2
<1>7. /\ dev' \in Devices
      /\ fmt[1].flag = "start" => dev'.bytes = IF b % 2 = 0 THEN <<(b \div 8) % 2>> ELSE dev.bytes
      /\ Sends(1) => dev'.bytes = IF n < 3 THEN Append(dev.bytes, b) ELSE dev.bytes
      /\ Sends(1) /\ n < 3 => b \in Nat
  <2>1. CASE fmt[1].flag = "start"
    BY <1>1, <1>3, <1>4, <2>1, StartTyped DEF Sends
  <2>2. CASE fmt[1].flag \in {"tx", "txStop"}
    <3>1. Sends(1)
      BY <2>2 DEF Sends
    <3> DEFINE e == OnByte(dev, b)
    <3>2. e \in Devices /\ e.bytes = (IF n < 3 THEN Append(dev.bytes, b) ELSE dev.bytes)
          /\ (n < 3 => b \in Nat)
      BY <1>1, <1>3, <1>5, <1>6, <3>1, ByteTyped
    <3>3. dev' = e \/ dev' = OnStop(e)
      BY <1>4, <2>2
    <3> HIDE DEF e
    <3>4. dev' \in Devices /\ dev'.bytes = e.bytes
      BY <3>2, <3>3, StopTyped
    <3> QED
      BY <2>2, <3>1, <3>2, <3>4
  <2> QED
    BY <1>3, <2>1, <2>2
<1>8. Typed' /\ ChunkFits'
  BY <1>1, <1>2, <1>7 DEF IInv, Typed, ChunkFits, callVars, Devices
<1>9. Queueing'
  BY <1>1, <1>2, DepthAssumption DEF IInv, Queueing
<1>10. Receiving'
  <2>1. \A k \in 1 .. Len(fmt') - 1 : fmt'[k].flag # "rx"
    BY <1>2 DEF IInv, Receiving
  <2>2. ReadPending => Len(fmt) > 1 /\ fmt' # <<>> /\ fmt'[Len(fmt')] = fmt[Len(fmt)] /\ ReadPending'
    <3>1. SUFFICES ASSUME ReadPending PROVE Len(fmt) > 1 /\ fmt' # <<>> /\ fmt'[Len(fmt')] = fmt[Len(fmt)] /\ ReadPending'
      OBVIOUS
    <3>2. Len(fmt) > 1
      BY <1>2, <1>3, <3>1 DEF ReadPending
    <3>3. Len(fmt') # 0 /\ fmt'[Len(fmt')] = fmt[Len(fmt)]
      BY <1>2, <3>2
    <3>4. fmt' # <<>>
      <4>1. Len(<<>>) = 0
        BY EmptySeq
      <4>2. fmt' = <<>> => Len(fmt') = 0
        BY <4>1, Zenon
      <4> QED
        BY <3>3, <4>2
    <3> QED
      BY <3>1, <3>2, <3>3, <3>4 DEF ReadPending
  <2>3. ReadPending' => ReadPending
    <3>1. SUFFICES ASSUME ReadPending' PROVE ReadPending
      OBVIOUS
    <3>2. Len(fmt') \in Nat \ {0}
      BY <1>2, <3>1, LastEntry DEF ReadPending
    <3>3. fmt'[Len(fmt')] = fmt[Len(fmt)]
      BY <1>2, <3>2
    <3> QED
      BY <1>1, <3>1, <3>3 DEF ReadPending
  <2>4. pc = "receive" => ReadPending
    BY <1>1 DEF IInv, Receiving
  <2> QED
    BY <1>1, <2>1, <2>2, <2>3, <2>4 DEF IInv, Receiving
<1>11. StartsFirst'
  <2>1. \A k \in 2 .. Len(fmt') : fmt'[k].flag = "start" => \A j \in k .. Len(fmt') : ~Sends(j)'
    <3>1. SUFFICES ASSUME NEW k \in 2 .. Len(fmt'), fmt'[k].flag = "start", NEW j \in k .. Len(fmt')
                   PROVE  ~Sends(j)'
      OBVIOUS
    <3>2. /\ k + 1 \in 2 .. Len(fmt) /\ j + 1 \in k + 1 .. Len(fmt)
          /\ fmt'[k] = fmt[k + 1] /\ fmt'[j] = fmt[j + 1]
      BY <1>2, <3>1
    <3>3. ~Sends(j + 1)
      BY <3>1, <3>2 DEF IInv, StartsFirst
    <3> QED
      BY <3>2, <3>3 DEF Sends
  <2> QED
    BY <2>1 DEF StartsFirst
<1>12. Addressing'
  <2>1. \A k \in 1 .. Len(fmt') : k + 1 \in 1 .. Len(fmt) /\ fmt'[k] = fmt[k + 1]
    BY <1>2
  <2>2. \A k \in 1 .. Len(fmt') : Sends(k)' => Sends(k + 1) /\ fmt'[1].flag # "start"
    <3>1. SUFFICES ASSUME NEW k \in 1 .. Len(fmt'), Sends(k)' PROVE Sends(k + 1) /\ fmt'[1].flag # "start"
      OBVIOUS
    <3>2. Sends(k + 1) /\ 2 \in 2 .. Len(fmt) /\ k + 1 \in 2 .. Len(fmt) /\ fmt'[1] = fmt[2]
      BY <1>2, <2>1, <3>1 DEF Sends
    <3> QED
      BY <3>2 DEF IInv, StartsFirst
  <2>3. CASE fmt[1].flag = "start" /\ b % 2 = 0
    <3>1. dev'.bytes = <<(b \div 8) % 2>> /\ (b \div 8) % 2 \in {0, 1}
      BY <1>3, <1>7, <2>3
    <3>2. Len(dev'.bytes) = 1 /\ dev'.bytes[1] \in {0, 1}
      BY <3>1
    <3>3. \A k \in 1 .. Len(fmt') : Sends(k)' => AddressByte(Len(dev'.bytes) + k, fmt'[k].byte)
      BY <1>2, <1>5, <2>1, <2>2, <2>3, <3>2
    <3> QED
      BY <2>2, <3>2, <3>3 DEF Addressing
  <2>4. CASE fmt[1].flag = "start" /\ b % 2 # 0
    <3>1. dev'.bytes = dev.bytes
      BY <1>7, <2>4
    <3>2. \A k \in 1 .. Len(fmt') : ~Sends(k)'
      BY <1>5, <2>1, <2>2, <2>4
    <3> QED
      BY <3>1, <3>2 DEF IInv, Addressing
  <2>5. CASE Sends(1)
    <3>1. /\ n \in 1 .. 3 /\ dev.bytes[1] \in {0, 1} /\ AddressByte(n + 1, b)
          /\ \A i \in 2 .. n : AddressByte(i, dev.bytes[i])
          /\ fmt[1].flag # "start"
      BY <1>6, <2>5 DEF Sends
    <3>2. \A k \in 1 .. Len(fmt') : Sends(k)' => AddressByte(n + (k + 1), fmt'[k].byte)
      BY <1>5, <2>1, <2>2, <3>1
    <3>3. CASE n < 3
      <4>1. /\ n \in {1, 2} /\ dev.bytes \in Seq(Nat) /\ b \in Nat
            /\ dev'.bytes = Append(dev.bytes, b)
        BY <1>5, <1>7, <2>5, <3>1, <3>3
      <4>2. /\ Len(dev'.bytes) = n + 1 /\ dev'.bytes[n + 1] = b
            /\ \A i \in 1 .. n : dev'.bytes[i] = dev.bytes[i]
        <5>1. /\ Len(dev'.bytes) = Len(dev.bytes) + 1 /\ dev'.bytes[Len(dev.bytes) + 1] = b
              /\ \A i \in 1 .. Len(dev.bytes) : dev'.bytes[i] = dev.bytes[i]
          <6>1. /\ Len(Append(dev.bytes, b)) = Len(dev.bytes) + 1
                /\ Append(dev.bytes, b)[Len(dev.bytes) + 1] = b
                /\ \A i \in 1 .. Len(dev.bytes) : Append(dev.bytes, b)[i] = dev.bytes[i]
            <7>1. dev.bytes \in Seq(Nat) /\ b \in Nat
              BY <4>1
            <7> HIDE DEF b
            <7> QED
              BY <7>1, Appended
          <6> QED
            BY <4>1, <6>1, Zenon
        <5> QED
          BY <1>5, <5>1, Zenon
      <4>3. /\ dev'.bytes[1] \in {0, 1} /\ AddressByte(2, dev'.bytes[2])
            /\ n = 1 => Len(dev'.bytes) = 2
            /\ n = 2 => Len(dev'.bytes) = 3 /\ AddressByte(3, dev'.bytes[3])
        BY <3>1, <4>1, <4>2, AddressGrows
      <4>4. CASE n = 1
        <5>1. /\ Len(dev'.bytes) = 2
              /\ \A k \in 1 .. Len(fmt') : Sends(k)' => AddressByte(2 + k, fmt'[k].byte)
          BY <1>2, <3>2, <4>3, <4>4
        <5> QED
          BY <2>2, <4>3, <5>1 DEF Addressing
      <4>5. CASE n = 2
        <5>1. /\ Len(dev'.bytes) = 3 /\ AddressByte(3, dev'.bytes[3])
              /\ \A k \in 1 .. Len(fmt') : Sends(k)' => AddressByte(3 + k, fmt'[k].byte)
          BY <1>2, <3>2, <4>3, <4>5
        <5> QED
          BY <2>2, <4>3, <5>1 DEF Addressing
      <4> QED
        BY <4>1, <4>4, <4>5
    <3>4. CASE n = 3
      <4>1. dev'.bytes = dev.bytes /\ Len(dev.bytes) = 3
        BY <1>5, <1>7, <2>5, <3>4
      <4>2. \A k \in 1 .. Len(fmt') : AddressByte(3 + k, fmt'[k].byte)
        BY <1>2 DEF AddressByte
      <4> QED
        BY <2>2, <3>1, <3>4, <4>1, <4>2 DEF Addressing
    <3> QED
      BY <3>1, <3>3, <3>4
  <2> QED
    BY <1>3, <2>3, <2>4, <2>5 DEF Sends
<1> QED
  BY <1>8, <1>9, <1>10, <1>11, <1>12 DEF IInv

(* A byte comes in: one less of the entry is pending.                      *)
LEMMA StepReadIInv == IInv /\ StepRead => IInv'
<1> SUFFICES ASSUME IInv, StepRead PROVE IInv'
  OBVIOUS
<1>1. /\ enabled /\ fmt # <<>> /\ fmt \in Seq(Entries) /\ dev \in Devices /\ rx \in Seq(Int)
      /\ UNCHANGED <<pc, callVars, chunk, enabled>>
      /\ dev' = [dev EXCEPT !.ptr = (@ + 1) % (2 * BlockLen)]
      /\ rx' = Append(rx, dev.mem[dev.ptr])
  BY DEF IInv, Typed, Devices, StepRead
<1>2. /\ Head(fmt) = fmt[1] /\ fmt[1] \in Entries /\ Len(fmt) \in Nat \ {0}
      /\ Tail(fmt) \in Seq(Entries) /\ Len(Tail(fmt)) = Len(fmt) - 1
  BY <1>1, HeadAndTail
<1>3. fmt[1].flag = "rx" /\ fmt[1].byte \in Int
  BY <1>2 DEF StepRead, Entries
<1>4. Len(fmt) = 1 /\ ReadPending
  <2>1. \A k \in 1 .. Len(fmt) - 1 : fmt[k].flag # "rx"
    BY DEF IInv, Receiving
  <2>2. Len(fmt) = 1
    BY <1>2, <1>3, <2>1
  <2> QED
    BY <1>1, <1>3, <2>2 DEF ReadPending
<1>5. pc = "receive" /\ fmt[1].byte >= 1 /\ fmt[1].byte + Len(rx) = chunk.len
  BY <1>4 DEF IInv, Receiving
<1>6. rx' \in Seq(Int) /\ Len(rx') = Len(rx) + 1 /\ Len(rx) \in Nat
  <2>1. dev.mem[dev.ptr] \in Int
    BY <1>1 DEF Devices
  <2>2. Append(rx, dev.mem[dev.ptr]) \in Seq(Int)
        /\ Len(Append(rx, dev.mem[dev.ptr])) = Len(rx) + 1
    BY <1>1, <2>1, AppendProperties
  <2> QED
    BY <1>1, <2>2
<1>7. dev' \in Devices /\ dev'.bytes = dev.bytes
  <2>1. (dev.ptr + 1) % (2 * BlockLen) \in Cells
    <3>1. \A x \in Int, m \in Nat \ {0} : (x + 1) % m \in 0 .. m - 1
      OBVIOUS
    <3>2. dev.ptr \in Int /\ 2 * BlockLen \in Nat \ {0}
      <4>1. dev.ptr \in Cells
        BY <1>1 DEF Devices
      <4>2. BlockLen \in Nat \ {0}
        BY BlockInDepths
      <4> QED
        BY <4>1, <4>2 DEF Cells
    <3> QED
      BY <3>1, <3>2, Zenon DEF Cells
  <2> QED
    BY <1>1, <2>1 DEF Devices
<1>8. \/ fmt[1].byte = 1 /\ fmt' \in Seq(Entries) /\ Len(fmt') = 0
      \/ /\ fmt[1].byte > 1 /\ fmt' \in Seq(Entries) /\ Len(fmt') = 1
         /\ fmt'[1].flag = "rx" /\ fmt'[1].byte = fmt[1].byte - 1
  <2>1. CASE fmt[1].byte = 1
    BY <1>2, <1>4, <2>1 DEF StepRead
  <2>2. CASE fmt[1].byte # 1
    <3> DEFINE f == [fmt EXCEPT ![1].byte = @ - 1]
    <3>1. fmt' = f
      BY <1>2, <2>2 DEF StepRead
    <3>2. f \in Seq(Entries) /\ Len(f) = 1 /\ f[1] = [fmt[1] EXCEPT !.byte = @ - 1]
      <4>1. [fmt[1] EXCEPT !.byte = @ - 1] \in Entries
        BY <1>2, <1>3 DEF Entries
      <4>2. 1 \in 1 .. Len(fmt)
        BY <1>4
      <4>3. f = [fmt EXCEPT ![1] = [fmt[1] EXCEPT !.byte = @ - 1]]
        OBVIOUS
      <4> HIDE DEF f
      <4> QED
        BY <1>1, <1>4, <4>1, <4>2, <4>3, ExceptSeq
    <3>3. f[1].flag = "rx" /\ f[1].byte = fmt[1].byte - 1
      BY <1>2, <1>3, <3>2 DEF Entries
    <3> HIDE DEF f
    <3> QED
      BY <1>3, <1>5, <2>2, <3>1, <3>2, <3>3
  <2> QED
    BY <2>1, <2>2
<1>9. Typed' /\ ChunkFits'
  BY <1>1, <1>6, <1>7, <1>8 DEF IInv, Typed, ChunkFits, callVars, Devices
<1>10. Queueing'
  <2>1. Len(fmt') = 0 \/ Len(fmt') = 1
    BY <1>8
  <2>2. Len(fmt') <= Depth
    <3>1. 0 <= Depth /\ 1 <= Depth
      BY DepthAssumption
    <3> QED
      BY <2>1, <3>1, Zenon
  <2> QED
    BY <1>1, <1>5, <2>2 DEF Queueing
<1>11. fmt' = <<>> <=> fmt[1].byte = 1
  <2>1. fmt' = <<>> <=> Len(fmt') = 0
    BY <1>8, EmptySeq, Zenon
  <2> QED
    BY <1>3, <1>8, <2>1
<1>12. Receiving'
  <2>1. CASE fmt[1].byte = 1
    BY <1>1, <1>5, <1>6, <1>8, <1>11, <2>1 DEF Receiving, ReadPending
  <2>2. CASE fmt[1].byte # 1
    <3>1. /\ fmt' # <<>> /\ Len(fmt') = 1 /\ fmt'[1].flag = "rx" /\ fmt'[1].byte = fmt[1].byte - 1
          /\ fmt[1].byte > 1
      BY <1>3, <1>8, <1>11, <2>2
    <3>2. fmt'[1].byte >= 1 /\ fmt'[1].byte + Len(rx') = chunk'.len
      <4>1. fmt[1].byte - 1 >= 1 /\ (fmt[1].byte - 1) + (Len(rx) + 1) = chunk.len
        <5>1. \A f, l, c \in Int : f > 1 /\ f + l = c => f - 1 >= 1 /\ (f - 1) + (l + 1) = c
          OBVIOUS
        <5>2. fmt[1].byte \in Int /\ Len(rx) \in Int /\ chunk.len \in Int
          BY <1>3, <1>6 DEF IInv, Typed
        <5>3. fmt[1].byte > 1 /\ fmt[1].byte + Len(rx) = chunk.len
          BY <1>5, <3>1
        <5> QED
          BY <5>1, <5>2, <5>3, Zenon
      <4> QED
        BY <1>1, <1>6, <3>1, <4>1, Zenon
    <3> QED
      BY <1>1, <1>5, <3>1, <3>2 DEF Receiving, ReadPending
  <2> QED
    BY <2>1, <2>2
<1>13. Addressing' /\ StartsFirst'
  <2>1. \A k \in 1 .. Len(fmt') : ~Sends(k)'
    BY <1>8 DEF Sends
  <2>2. Len(fmt') = 0 \/ Len(fmt') = 1
    BY <1>8
  <2>3. StartsFirst'
    BY <2>2 DEF StartsFirst
  <2> QED
    BY <1>7, <2>1, <2>3 DEF IInv, Addressing
<1> QED
  BY <1>9, <1>10, <1>12, <1>13 DEF IInv
----------------------------------------------------------------------------
LEMMA IInvNext == IInv /\ [Next]_vars => IInv'
<1> SUFFICES ASSUME IInv, [Next]_vars PROVE IInv'
  OBVIOUS
<1>1. CASE UNCHANGED vars
  BY <1>1 DEF vars, callVars, IInv, Typed, ChunkFits, Queueing, Receiving, ReadPending, Addressing,
              StartsFirst, Sends
<1>2. CASE Call \/ CutFirst \/ CutNext \/ Return \/ Disable
  BY <1>2, BetweenChunks
<1>3. CASE QueueAddress
  BY <1>3, QueueAddressIInv
<1>4. CASE QueueRead \/ QueueWrite
  BY <1>4, QueueReadIInv, QueueWriteIInv
<1>5. CASE Receive
  BY <1>5, ReceiveIInv
<1>6. CASE Step \/ StepRead
  BY <1>6, StepIInv, StepReadIInv
<1> QED
  BY <1>1, <1>2, <1>3, <1>4, <1>5, <1>6 DEF Next, Driver, Transfer

(* The FIFOs' contents agree with what the driver is about to do.          *)
THEOREM EepromInvariant == Spec => []IInv
  BY InitIInv, IInvNext, PTL DEF Spec

LEMMA IInvTypeOK == IInv => TypeOK
<1> SUFFICES ASSUME IInv PROVE TypeOK
  OBVIOUS
<1>1. Depth \in Nat
  BY DepthAssumption
<1>2. Len(rx) <= Depth
  <2>1. CASE pc # "receive"
    BY <1>1, <2>1, EmptySeq DEF IInv, Receiving
  <2>2. CASE pc = "receive" /\ ReadPending
    <3>1. fmt[Len(fmt)].byte >= 1 /\ fmt[Len(fmt)].byte + Len(rx) = chunk.len /\ chunk.len \in 1 .. Depth
      BY <2>2 DEF IInv, Receiving, ChunkFits
    <3>2. fmt[Len(fmt)].byte \in Int /\ Len(rx) \in Nat
      <4>1. fmt # <<>> /\ fmt \in Seq(Entries) /\ rx \in Seq(Int)
        BY <2>2 DEF ReadPending, IInv, Typed
      <4>2. fmt[Len(fmt)] \in Entries
        BY <4>1, LastEntry, Zenon
      <4> QED
        BY <4>1, <4>2 DEF Entries
    <3> QED
      BY <1>1, <3>1, <3>2
  <2>3. CASE pc = "receive" /\ ~ReadPending
    BY <1>1, <2>3 DEF IInv, Receiving, ChunkFits
  <2> QED
    BY <2>1, <2>2, <2>3
<1>3. dev.ptr \in Cells
  BY DEF IInv, Typed
<1> QED
  BY <1>2, <1>3 DEF IInv, Typed, ChunkFits, Queueing, TypeOK, Pcs, Cells

(* Neither FIFO is ever asked to hold more than its depth, and the device  *)
(* is addressed within its memory, whatever the calls.                     *)
THEOREM TypeCorrect == Spec => []TypeOK
<1>1. IInv => TypeOK
  BY IInvTypeOK
<1> QED
  BY <1>1, EepromInvariant, PTL

LEMMA QueueingGrows == IInv /\ [Next]_vars => (Len(fmt') < Len(fmt) => pc \notin {"address", "queue"})
<1> SUFFICES ASSUME IInv, [Next]_vars, pc \in {"address", "queue"} PROVE ~(Len(fmt') < Len(fmt))
  OBVIOUS
<1>1. ~enabled /\ Len(fmt) \in Nat
  BY DEF IInv, Queueing, Typed
<1>2. UNCHANGED fmt \/ QueueAddress \/ QueueRead \/ QueueWrite
  BY <1>1 DEF vars, Next, Driver, Transfer, Call, CutFirst, CutNext, CutTo, Return, Disable, Receive,
              Step, StepRead
<1>3. CASE UNCHANGED fmt
  BY <1>1, <1>3
<1>4. CASE QueueAddress
  <2>1. Len(fmt') \in Nat /\ fmt = <<>>
    BY <1>4, QueueAddressIInv DEF IInv, Typed, Queueing, QueueAddress, Goto
  <2>2. Len(fmt) = 0
    BY <2>1, EmptySeq
  <2> QED
    BY <2>1, <2>2
<1>5. CASE QueueRead \/ QueueWrite
  <2>1. Len(fmt') > 3 /\ Len(fmt') \in Nat
    <3>1. Len(fmt') = 5 \/ Len(fmt') > 3
      BY <1>5, QueueReadIInv, QueueWriteIInv DEF ReadQueued, WriteQueued
    <3>2. fmt' \in Seq(Entries)
      BY <1>5, QueueReadIInv, QueueWriteIInv DEF IInv, Typed
    <3>3. Len(fmt') \in Nat
      BY <3>2
    <3> QED
      BY <3>1, <3>3
  <2>2. Len(fmt) = 3
    BY <1>5 DEF IInv, Queueing, QueueRead, QueueWrite, Goto
  <2> QED
    BY <2>1, <2>2
<1> QED
  BY <1>2, <1>3, <1>4, <1>5

(* Nothing goes out while a transfer is being queued: the bus never stalls *)
(* in the middle of one, which is what disabling the controller is for.    *)
THEOREM NoStalls == Spec => NoStall
<1>1. IInv /\ [Next]_vars => [Len(fmt') < Len(fmt) => pc \notin {"address", "queue"}]_vars
  BY QueueingGrows
<1> QED
  BY <1>1, EepromInvariant, PTL DEF Spec, NoStall
----------------------------------------------------------------------------
(* What a read leaves in the caller's buffer.  The address bytes that are  *)
(* queued for a chunk, and what they name.                                 *)
Upper == (chunk.addr % BlockLen) \div Depth
Lower == chunk.addr % Depth
Low   == call.addr + call.len <= BlockLen   (* The call is about the lower block. *)

(* Only the address of a read ends in a stop.                              *)
NoStops ==
  pc # "receive" /\ ~(pc = "queue" /\ call.op = "read") => \A k \in 1 .. Len(fmt) : fmt[k].flag # "txStop"

(* Where the chunk is, in the call and in the device.                      *)
Within ==
  /\ pc = "receive" => call.op = "read"
  /\ call.op = "read" /\ pc \in {"wait", "address", "queue", "receive"} =>
       /\ chunk.addr = call.addr + chunk.buf
       /\ chunk.buf + chunk.len <= call.len \/ (Misaligned /\ chunk.buf + chunk.len <= FirstLen)
       /\ chunk.buf + chunk.len >= offs \/ chunk.buf + chunk.len >= call.len
       /\ Low => chunk.addr + chunk.len <= BlockLen

(* The transfer of a read, as far as the controller has not worked it off; *)
(* what the device has made of the rest; and what has come in.             *)
Asked ==
  /\ pc = "queue" =>
       /\ fmt[1] = Entry("start", Ctrl(chunk.addr)) /\ fmt[2] = Entry("tx", Upper)
       /\ fmt[3] = Entry(IF call.op = "read" THEN "txStop" ELSE "tx", Lower)
  /\ pc = "receive" =>
       /\ Len(fmt) <= 5
       /\ Len(fmt) = 5 => fmt[1] = Entry("start", Ctrl(chunk.addr))
       /\ Len(fmt) >= 4 => fmt[Len(fmt) - 3] = Entry("tx", Upper)
       /\ Len(fmt) >= 3 => fmt[Len(fmt) - 2] = Entry("txStop", Lower)
       /\ Len(fmt) >= 2 => fmt[Len(fmt) - 1] = Entry("start", Ctrl(chunk.addr) + 1) /\ rx = <<>>

Pointed ==
  pc = "receive" =>
    /\ Len(fmt) = 4 => Len(dev.bytes) = 1 /\ dev.bytes[1] = 0 /\ dev.page = <<>>
    /\ Len(fmt) = 3 => Len(dev.bytes) = 2 /\ dev.bytes[1] = 0 /\ dev.bytes[2] = Upper /\ dev.page = <<>>
    /\ Len(fmt) <= 2 /\ Low => dev.ptr = chunk.addr + Len(rx)
    /\ Low => \A i \in 1 .. Len(rx) : rx[i] = dev.mem[chunk.addr + i - 1]

(* What of the buffer holds the device's bytes, and what nothing touched.  *)
Covered(n) == \A j \in DOMAIN dst : j < n /\ j < call.len => dst[j] = dev.mem[call.addr + j]

Filled ==
  /\ dst \in [0 .. MaxSpan -> Int]
  /\ pc = "idle" => offs >= call.len
  /\ call.op = "read" /\ Low => Covered(IF pc \in {"idle", "cut"} THEN offs ELSE chunk.buf)
  /\ \A j \in DOMAIN dst : dst[j] # Unset => j < call.len \/ (Misaligned /\ j < FirstLen)

Reading == NoStops /\ Within /\ Asked /\ Pointed /\ Filled

(* The room of a chunk: up to the next multiple of the depth there is no   *)
(* end of a block.                                                         *)
LEMMA AlignedRoom ==
  ASSUME NEW a \in Nat, a <= BlockLen, a % Depth # 0
  PROVE  a + (Depth - (a % Depth)) <= BlockLen
<1> DEFINE q == BlockLen \div Depth
           h == a \div Depth
           r == a % Depth
<1>1. q \in Nat /\ q * Depth = BlockLen /\ Depth \in Nat \ {0}
  BY BlockInDepths
<1>2. a = Depth * h + r /\ h \in Nat /\ r \in 0 .. Depth - 1
  BY <1>1, DivModFacts
<1>3. r > 0
  BY <1>1, <1>2
<1> HIDE DEF q, h, r
<1>4. Depth * h < Depth * q
  BY <1>1, <1>2, <1>3
<1>5. h < q
  <2>1. CASE h >= q
    <3>1. Depth * (h - q) >= 0
      BY <1>1, <1>2, <2>1
    <3>2. Depth * (h - q) = Depth * h - Depth * q
      BY <1>1, <1>2
    <3>3. Depth * h \in Int /\ Depth * q \in Int
      BY <1>1, <1>2
    <3> QED
      BY <1>4, <3>1, <3>2, <3>3
  <2> QED
    BY <1>1, <1>2, <2>1
<1>6. Depth * h + Depth <= Depth * q
  <2>1. Depth * (q - h - 1) >= 0
    BY <1>1, <1>2, <1>5
  <2>2. Depth * (q - h - 1) = Depth * q - Depth * h - Depth
    BY <1>1, <1>2
  <2>3. Depth * h \in Int /\ Depth * q \in Int
    BY <1>1, <1>2
  <2> QED
    BY <1>1, <2>1, <2>2, <2>3
<1>7. a + (Depth - r) = Depth * h + Depth /\ Depth * q = BlockLen
  BY <1>1, <1>2
<1> QED
  BY <1>6, <1>7 DEF r

(* The control byte names the lower block, whatever the address; and there *)
(* the address bytes name the address.                                     *)
LEMMA ControlByte ==
  ASSUME NEW a \in Nat
  PROVE  Ctrl(a) = 160
<1>1. a \div BlockLen \in Nat
  BY BlockInDepths, DivModFacts
<1>2. BlockBit(a) \in {0, 1}
  BY <1>1 DEF BlockBit
<1> QED
  BY <1>2 DEF Ctrl

LEMMA AddressNames ==
  ASSUME NEW a \in Nat, a < BlockLen
  PROVE  ((a % BlockLen) \div Depth) * Depth + (a % Depth) = a
<1>1. Depth \in Nat \ {0} /\ BlockLen \in Nat \ {0}
  BY BlockInDepths
<1>2. a % BlockLen = a
  BY <1>1
<1>3. a = Depth * (a \div Depth) + (a % Depth) /\ a \div Depth \in Nat
  BY <1>1, DivModFacts
<1> DEFINE h == a \div Depth
<1>4. a = Depth * h + (a % Depth) /\ h \in Nat
  BY <1>3
<1>5. (a % BlockLen) \div Depth = h
  BY <1>2
<1> HIDE DEF h
<1>6. h * Depth = Depth * h
  BY <1>1, <1>4
<1> QED
  BY <1>4, <1>5, <1>6

----------------------------------------------------------------------------
LEMMA InitReading == Init => Reading
<1> SUFFICES ASSUME Init PROVE Reading
  OBVIOUS
<1>1. pc = "idle" /\ fmt = <<>> /\ call.len = 0 /\ offs = 0 /\ dst = [a \in 0 .. MaxSpan |-> Unset] /\ Unset = -1
  BY DEF Init, Unset
<1>2. Filled
  <2>1. dst \in [0 .. MaxSpan -> Int] /\ DOMAIN dst = 0 .. MaxSpan /\ \A j \in DOMAIN dst : dst[j] = Unset
    BY <1>1
  <2>2. \A j \in DOMAIN dst : ~(j < 0)
    BY <2>1, SpanAssumption
  <2> QED
    BY <1>1, <2>1, <2>2 DEF Filled, Covered
<1>3. NoStops
  BY <1>1 DEF NoStops
<1> QED
  BY <1>1, <1>2, <1>3 DEF Reading, Within, Asked, Pointed

(* Between the transfers: a call begins, is cut, and ends.                 *)
LEMMA ReadingBetween == IInv /\ Reading /\ (Call \/ CutFirst \/ CutNext \/ Return \/ Disable) => Reading'
<1> SUFFICES ASSUME IInv, Reading, Call \/ CutFirst \/ CutNext \/ Return \/ Disable PROVE Reading'
  OBVIOUS
<1>1. UNCHANGED <<fmt, rx, dev>> /\ pc \in {"idle", "cut", "wait"}
      /\ pc' \in {"idle", "cut", "wait", "address"}
  BY DEF Call, CutFirst, CutNext, CutTo, Return, Disable, Goto, callVars
<1>2. NoStops' /\ Asked' /\ Pointed'
  BY <1>1 DEF Reading, NoStops, Asked, Pointed
<1>3. Depth \in Nat \ {0} /\ BlockLen \in Nat \ {0} /\ call.addr \in Nat /\ call.len \in Nat /\ offs \in Nat
  BY BlockInDepths DEF IInv, Typed
<1>4. CASE Call
  <2>1. pc' = "cut" /\ offs' = 0 /\ dst' = [a \in DOMAIN dst |-> Unset] /\ Unset = -1
    BY <1>4 DEF Call, Goto, Unset
  <2>2. DOMAIN dst = 0 .. MaxSpan
    BY DEF Reading, Filled
  <2>3. dst' \in [0 .. MaxSpan -> Int] /\ DOMAIN dst' = 0 .. MaxSpan /\ \A j \in DOMAIN dst' : dst'[j] = Unset
    BY <2>1, <2>2
  <2>4. \A j \in DOMAIN dst' : ~(j < 0)
    BY <2>3, SpanAssumption
  <2>5. Filled'
    BY <2>1, <2>3, <2>4 DEF Filled, Covered
  <2> QED
    BY <1>2, <2>1, <2>5 DEF Reading, Within
<1>5. CASE CutFirst
  <2>1. /\ pc = "cut" /\ pc' = "wait" /\ offs = 0 /\ Misaligned /\ offs' = FirstLen
        /\ chunk' = [buf |-> offs, addr |-> call.addr + offs, len |-> FirstLen]
        /\ UNCHANGED <<call, dst>>
    BY <1>5 DEF CutFirst, CutTo, ToAlign, Goto
  <2>2. FirstLen \in Nat
    <3>1. \A a \in Nat, d \in Nat \ {0} : d - (a % d) \in Nat
      OBVIOUS
    <3> QED
      BY <1>3, <3>1 DEF FirstLen
  <2>3. chunk'.buf = 0 /\ chunk'.addr = call.addr /\ chunk'.len = FirstLen
    BY <1>3, <2>1
  <2>4. Low => call.addr + FirstLen <= BlockLen
    <3>1. Low => call.addr <= BlockLen
      BY <1>3 DEF Low
    <3> QED
      BY <1>3, <2>1, <3>1, AlignedRoom DEF FirstLen, Misaligned
  <2>5. UNCHANGED <<Misaligned, FirstLen, Low>>
    BY <2>1 DEF Misaligned, FirstLen, Low
  <2>6. Within'
    BY <1>3, <2>1, <2>2, <2>3, <2>4, <2>5 DEF Within
  <2>7. Filled'
    <3>1. \A j \in DOMAIN dst : ~(j < 0)
      BY SpanAssumption DEF Reading, Filled
    <3> QED
      BY <1>1, <2>1, <2>3, <2>5, <3>1 DEF Reading, Filled, Covered
  <2> QED
    BY <1>2, <2>6, <2>7 DEF Reading
<1>6. CASE CutNext
  <2>1. /\ pc = "cut" /\ pc' = "wait" /\ offs < call.len /\ offs' = offs + Depth
        /\ chunk' = [buf |-> offs, addr |-> call.addr + offs, len |-> NextLen]
        /\ UNCHANGED <<call, dst>>
    BY <1>6 DEF CutNext, CutTo, Goto
  <2>2. chunk'.buf = offs /\ chunk'.addr = call.addr + offs /\ chunk'.len = NextLen
    BY <2>1
  <2>3. /\ NextLen \in Nat /\ offs + NextLen <= call.len
        /\ offs + NextLen = call.len \/ NextLen = Depth
    BY <1>3, <2>1 DEF NextLen
  <2>4. Low => (call.addr + offs) + NextLen <= BlockLen
    BY <1>3, <2>3 DEF Low
  <2>5. UNCHANGED <<Misaligned, FirstLen, Low>>
    BY <2>1 DEF Misaligned, FirstLen, Low
  <2>6. offs + NextLen >= offs + Depth \/ offs + NextLen >= call.len
    BY <1>3, <2>3
  <2>7. Within'
    BY <2>1, <2>2, <2>3, <2>4, <2>5, <2>6 DEF Within
  <2>8. Filled'
    BY <1>1, <2>1, <2>2, <2>5 DEF Reading, Filled, Covered
  <2> QED
    BY <1>2, <2>7, <2>8 DEF Reading
<1>7. CASE Return
  <2>1. pc = "cut" /\ pc' = "idle" /\ offs >= call.len /\ UNCHANGED <<call, offs, chunk, dst>>
    BY <1>7 DEF Return, Goto, callVars
  <2>2. UNCHANGED <<Misaligned, FirstLen, Low>>
    BY <2>1 DEF Misaligned, FirstLen, Low
  <2>3. Filled'
    BY <1>1, <2>1, <2>2 DEF Reading, Filled, Covered
  <2> QED
    BY <1>2, <2>1, <2>3 DEF Reading, Within
<1>8. CASE Disable
  <2>1. pc = "wait" /\ pc' = "address" /\ UNCHANGED <<call, offs, chunk, dst>>
    BY <1>8 DEF Disable, Goto, callVars
  <2>2. UNCHANGED <<Misaligned, FirstLen, Low>>
    BY <2>1 DEF Misaligned, FirstLen, Low
  <2>3. Filled' /\ Within'
    BY <1>1, <2>1, <2>2 DEF Reading, Filled, Covered, Within
  <2> QED
    BY <1>2, <2>3 DEF Reading
<1> QED
  BY <1>4, <1>5, <1>6, <1>7, <1>8

(* Queueing a transfer leaves the buffer alone.                            *)
LEMMA ReadingQueue == IInv /\ Reading /\ (QueueAddress \/ QueueRead \/ QueueWrite) => Reading'
<1> SUFFICES ASSUME IInv, Reading, QueueAddress \/ QueueRead \/ QueueWrite PROVE Reading'
  OBVIOUS
<1>1. /\ UNCHANGED <<call, offs, rx, dst, dev>> /\ pc \in {"address", "queue"} /\ rx = <<>>
      /\ UNCHANGED <<Misaligned, FirstLen, Low>>
  BY DEF QueueAddress, QueueRead, QueueWrite, Goto, callVars, IInv, Receiving, Misaligned, FirstLen, Low
<1>2. CASE QueueAddress
  <2>1. pc = "address" /\ pc' = "queue" /\ fmt = <<>> /\ chunk' = chunk
    BY <1>2 DEF IInv, Queueing, QueueAddress, Goto
  <2> DEFINE last == IF call.op = "read" THEN "txStop" ELSE "tx"
  <2>2. fmt' = Address(last)
    <3>1. Address(last) \in Seq(Entries)
      BY AddressEntries DEF IInv
    <3> QED
      BY <1>2, <2>1, <3>1, ConcatEmptySeq DEF QueueAddress
  <2>3. /\ Len(fmt') = 3 /\ fmt'[1] = Entry("start", Ctrl(chunk.addr)) /\ fmt'[2] = Entry("tx", Upper)
        /\ fmt'[3] = Entry(last, Lower)
    BY <2>2 DEF Address, Upper, Lower
  <2>4. Upper' = Upper /\ Lower' = Lower
    BY <2>1 DEF Upper, Lower
  <2>5. Asked'
    BY <1>1, <2>1, <2>3, <2>4 DEF Asked
  <2>6. NoStops'
    <3>1. SUFFICES ASSUME call.op # "read", NEW k \in 1 .. Len(fmt') PROVE fmt'[k].flag # "txStop"
      BY <1>1, <2>1 DEF NoStops
    <3>2. fmt'[1].flag = "start" /\ fmt'[2].flag = "tx" /\ fmt'[3].flag = "tx"
      BY <2>3, <3>1 DEF Entry
    <3>3. k = 1 \/ k = 2 \/ k = 3
      BY <2>3
    <3> QED
      BY <3>2, <3>3
  <2>7. Within' /\ Pointed'
    BY <1>1, <2>1 DEF Reading, Within, Pointed
  <2>8. Filled'
    BY <1>1, <2>1 DEF Reading, Filled, Covered
  <2> QED
    BY <2>5, <2>6, <2>7, <2>8 DEF Reading
<1>3. CASE QueueRead
  <2>1. pc = "queue" /\ pc' = "receive" /\ chunk' = chunk /\ call.op = "read" /\ ReadQueued
    BY <1>3, QueueReadIInv DEF QueueRead, Goto
  <2>2. /\ Len(fmt') = 5 /\ fmt'[1] = Entry("start", Ctrl(chunk.addr)) /\ fmt'[2] = Entry("tx", Upper)
        /\ fmt'[3] = Entry("txStop", Lower) /\ fmt'[4] = Entry("start", Ctrl(chunk.addr) + 1)
    BY <2>1 DEF Reading, Asked, ReadQueued
  <2>3. Upper' = Upper /\ Lower' = Lower
    BY <2>1 DEF Upper, Lower
  <2>4. Asked'
    BY <1>1, <2>1, <2>2, <2>3 DEF Asked
  <2>5. Pointed'
    <3>1. Len(rx') = 0
      BY <1>1, EmptySeq
    <3>2. \A i \in 1 .. Len(rx') : FALSE
      BY <3>1
    <3> QED
      BY <2>2, <3>2 DEF Pointed
  <2>6. NoStops' /\ Within'
    BY <1>1, <2>1 DEF Reading, NoStops, Within
  <2>7. Filled'
    BY <1>1, <2>1 DEF Reading, Filled, Covered
  <2> QED
    BY <2>4, <2>5, <2>6, <2>7 DEF Reading
<1>4. CASE QueueWrite
  <2>1. pc = "queue" /\ pc' \in {"wait", "cut"} /\ call.op = "write" /\ WriteQueued
    BY <1>4, QueueWriteIInv DEF QueueWrite, Goto
  <2>2. fmt[1].flag = "start" /\ fmt[2].flag = "tx" /\ fmt[3].flag = "tx"
    BY <2>1 DEF Reading, Asked, Entry
  <2>3. NoStops'
    <3>1. SUFFICES ASSUME NEW k \in 1 .. Len(fmt') PROVE fmt'[k].flag # "txStop"
      BY DEF NoStops
    <3>2. k = 1 \/ k = 2 \/ k = 3 \/ k \in 4 .. Len(fmt')
      <4>1. fmt' \in Seq(Entries)
        BY <1>4, QueueWriteIInv DEF IInv, Typed
      <4>2. Len(fmt') \in Nat
        BY <4>1
      <4> QED
        BY <4>2
    <3>3. k \in 4 .. Len(fmt') => fmt'[k].flag # "txStop"
      BY <2>1 DEF WriteQueued
    <3>4. fmt'[1].flag # "txStop" /\ fmt'[2].flag # "txStop" /\ fmt'[3].flag # "txStop"
      BY <2>1, <2>2 DEF WriteQueued
    <3> QED
      BY <3>2, <3>3, <3>4
  <2>4. Within' /\ Asked' /\ Pointed'
    BY <1>1, <2>1 DEF Reading, Within, Asked, Pointed
  <2>5. Filled'
    BY <1>1, <2>1 DEF Reading, Filled, Covered
  <2> QED
    BY <2>3, <2>4, <2>5 DEF Reading
<1> QED
  BY <1>2, <1>3, <1>4

(* Taking a chunk fills the buffer up to its end.                          *)
LEMMA ReadingReceive == IInv /\ Reading /\ Receive => Reading'
<1> SUFFICES ASSUME IInv, Reading, Receive PROVE Reading'
  OBVIOUS
<1>1. /\ pc = "receive" /\ pc' = "cut" /\ UNCHANGED <<call, offs, chunk, fmt, dev>> /\ call.op = "read"
      /\ UNCHANGED <<Misaligned, FirstLen, Low>>
  BY DEF Receive, Goto, callVars, Reading, Within, Misaligned, FirstLen, Low
<1>2. fmt = <<>> /\ Len(rx) = chunk.len /\ rx \in Seq(Int) /\ chunk.len \in Nat
  <2>1. fmt # <<>> => fmt[Len(fmt)].byte \in Int
    <3>1. fmt # <<>> => fmt[Len(fmt)] \in Entries
      BY LastEntry, Zenon DEF IInv, Typed
    <3> QED
      BY <3>1 DEF Entries
  <2>2. rx \in Seq(Int) /\ chunk.len \in Int
    BY DEF IInv, Typed
  <2>3. Len(rx) \in Nat /\ Len(rx) >= chunk.len
    BY <2>2 DEF Receive, Received
  <2>4. ReadPending => fmt # <<>> /\ fmt[Len(fmt)].byte >= 1 /\ fmt[Len(fmt)].byte + Len(rx) = chunk.len
    BY DEF IInv, Receiving, ReadPending
  <2>5. ~ReadPending
    BY <2>1, <2>2, <2>3, <2>4
  <2>6. fmt = <<>> /\ Len(rx) = chunk.len
    BY <1>1, <2>5 DEF IInv, Receiving
  <2> QED
    BY <2>2, <2>3, <2>6
<1>3. DOMAIN rx = 1 .. chunk.len /\ \A i \in 1 .. chunk.len : rx[i] \in Int
  BY <1>2
<1>4. chunk.buf \in Nat /\ call.addr \in Nat /\ call.len \in Nat /\ offs \in Nat
  BY DEF IInv, Typed
<1>5. dst \in [0 .. MaxSpan -> Int] /\ DOMAIN dst = 0 .. MaxSpan /\ MaxSpan \in Nat
  BY SpanAssumption DEF Reading, Filled
<1>6. dst' = [a \in DOMAIN dst |-> IF a - chunk.buf + 1 \in 1 .. chunk.len
                                     THEN rx[a - chunk.buf + 1] ELSE dst[a]]
  <2>1. DOMAIN rx \intersect (1 .. chunk.len) = 1 .. chunk.len
    BY <1>3
  <2> QED
    BY <2>1 DEF Receive
<1>7. dst' \in [0 .. MaxSpan -> Int] /\ DOMAIN dst' = DOMAIN dst
  BY <1>3, <1>5, <1>6
<1>8. Low => Covered(offs)'
  <2> SUFFICES ASSUME Low, NEW j \in DOMAIN dst, j < offs, j < call.len
               PROVE  dst'[j] = dev.mem[call.addr + j]
    BY <1>1, <1>7 DEF Covered
  <2>1. j \in Nat
    BY <1>5
  <2>2. CASE j < chunk.buf
    <3>1. ~(j - chunk.buf + 1 \in 1 .. chunk.len)
      BY <1>2, <1>4, <2>1, <2>2
    <3>2. dst[j] = dev.mem[call.addr + j]
      BY <1>1, <2>2 DEF Reading, Filled, Covered
    <3> QED
      BY <1>6, <3>1, <3>2
  <2>3. CASE ~(j < chunk.buf)
    <3> DEFINE i == j - chunk.buf + 1
    <3>1. chunk.buf + chunk.len >= offs \/ chunk.buf + chunk.len >= call.len
      BY <1>1 DEF Reading, Within
    <3>2. i \in 1 .. chunk.len
      <4>1. \A b \in Nat, n \in Nat, x \in Nat : x >= b /\ x < b + n => x - b + 1 \in 1 .. n
        OBVIOUS
      <4>2. j >= chunk.buf
        BY <1>4, <2>1, <2>3
      <4>3. j < chunk.buf + chunk.len
        BY <1>2, <1>4, <2>1, <3>1
      <4> QED
        BY <1>2, <1>4, <2>1, <4>1, <4>2, <4>3, Zenon
    <3>3. dst'[j] = rx[i]
      BY <1>6, <3>2
    <3>4. rx[i] = dev.mem[chunk.addr + i - 1]
      BY <1>1, <1>2, <3>2 DEF Reading, Pointed
    <3>5. chunk.addr + i - 1 = call.addr + j
      <4>1. chunk.addr = call.addr + chunk.buf
        BY <1>1 DEF Reading, Within
      <4> QED
        BY <1>4, <2>1, <4>1
    <3> QED
      BY <3>3, <3>4, <3>5
  <2> QED
    BY <2>2, <2>3
<1>9. \A j \in DOMAIN dst' : dst'[j] # Unset => j < call.len \/ (Misaligned /\ j < FirstLen)
  <2> SUFFICES ASSUME NEW j \in DOMAIN dst, dst'[j] # Unset
               PROVE  j < call.len \/ (Misaligned /\ j < FirstLen)
    BY <1>7
  <2>1. CASE j - chunk.buf + 1 \in 1 .. chunk.len
    <3>1. j \in Nat
      BY <1>5
    <3>2. j < chunk.buf + chunk.len
      BY <1>2, <1>4, <2>1, <3>1
    <3>3. chunk.buf + chunk.len <= call.len \/ (Misaligned /\ chunk.buf + chunk.len <= FirstLen)
      BY <1>1 DEF Reading, Within
    <3>4. FirstLen \in Int
      <4>1. \A a \in Nat, d \in Nat \ {0} : d - (a % d) \in Int
        OBVIOUS
      <4> QED
        BY <1>4, <4>1, BlockInDepths DEF FirstLen
    <3> QED
      BY <1>2, <1>4, <3>1, <3>2, <3>3, <3>4
  <2>2. CASE ~(j - chunk.buf + 1 \in 1 .. chunk.len)
    <3>1. dst'[j] = dst[j]
      BY <1>6, <2>2
    <3> QED
      BY <3>1 DEF Reading, Filled
  <2> QED
    BY <2>1, <2>2
<1>10. Filled'
  BY <1>1, <1>7, <1>8, <1>9 DEF Filled
<1>11. NoStops'
  <2>1. Len(fmt') = 0
    BY <1>1, <1>2, EmptySeq
  <2> QED
    BY <2>1 DEF NoStops
<1> QED
  BY <1>1, <1>10, <1>11 DEF Reading, Within, Asked, Pointed

(* A page is empty at every stop, so nothing is ever programmed.           *)
LEMMA StopEmpty ==
  ASSUME NEW d \in Devices, d.page = <<>>
  PROVE  OnStop(d) \in Devices /\ OnStop(d).mem = d.mem /\ OnStop(d).ptr = d.ptr
<1> DEFINE m == [a \in Cells |-> IF a - d.ptr \in 0 .. Len(d.page) - 1
                                   THEN d.page[a - d.ptr + 1] ELSE d.mem[a]]
<1>1. Len(d.page) = 0
  BY EmptySeq
<1>2. d.mem \in [Cells -> Int]
  BY DEF Devices
<1>3. \A a \in Cells : ~(a - d.ptr \in 0 .. Len(d.page) - 1)
  <2>1. \A x \in Int : ~(x \in 0 .. 0 - 1)
    OBVIOUS
  <2> QED
    BY <1>1, <2>1
<1>4. m = d.mem
  BY <1>2, <1>3
<1>5. OnStop(d) = [d EXCEPT !.page = <<>>, !.mem = m]
  BY DEF OnStop
<1> HIDE DEF m
<1> QED
  BY <1>4, <1>5, StopTyped DEF Devices

(* An entry of a read's transfer.                                          *)
LEMMA StepAsked ==
  ASSUME IInv, Reading, Step, pc = "receive"
  PROVE  Asked' /\ Pointed' /\ dev'.mem = dev.mem
<1> DEFINE n == Len(fmt)
<1>1. /\ fmt # <<>> /\ fmt \in Seq(Entries) /\ dev \in Devices
      /\ UNCHANGED <<pc, callVars, chunk, rx, Upper, Lower, Low>> /\ fmt' = Tail(fmt)
  BY DEF IInv, Typed, Devices, Step, Upper, Lower, Low, callVars
<1>2. /\ Head(fmt) = fmt[1] /\ n \in Nat \ {0} /\ Len(fmt') = n - 1
      /\ \A k \in 1 .. n - 1 : fmt'[k] = fmt[k + 1]
  BY <1>1, HeadAndTail
<1>3. /\ fmt[1].flag # "rx"
      /\ fmt[1].flag = "start"  => dev' = OnStart(dev, fmt[1].byte)
      /\ fmt[1].flag = "tx"     => dev' = OnByte(dev, fmt[1].byte)
      /\ fmt[1].flag = "txStop" => dev' = OnStop(OnByte(dev, fmt[1].byte))
  BY <1>2 DEF Step
<1>4. n <= 5
  BY <1>1 DEF Reading, Asked
<1> HIDE DEF n
<1>5. n # 1
  <2>1. ReadPending
    BY <1>1 DEF IInv, Receiving
  <2> QED
    BY <1>3, <2>1 DEF ReadPending, n
<1>6. n \in {2, 3, 4, 5}
  BY <1>2, <1>4, <1>5
<1>7. chunk.addr \in Nat /\ Ctrl(chunk.addr) = 160
  BY ControlByte DEF IInv, Typed
<1>8. Upper \in Nat /\ Lower \in Nat
  <2>1. Depth \in Nat /\ BlockLen \div Depth \in Nat
    BY BlockInDepths
  <2>2. Upper \in 0 .. (BlockLen \div Depth) - 1 /\ Lower \in 0 .. Depth - 1
    BY <1>7, AddressHalves DEF Upper, Lower
  <2> QED
    BY <2>1, <2>2
<1>9. Asked'
  <2>1. n = 5 => fmt'[1] = Entry("tx", Upper)
    BY <1>2 DEF Reading, Asked, n
  <2>2. n >= 4 => n - 2 \in 1 .. n - 1 /\ n - 3 \in 1 .. n - 1 /\ fmt'[n - 3] = fmt[n - 2]
    BY <1>2, <1>6
  <2>3. n >= 3 => n - 2 \in 1 .. n - 1 /\ fmt'[n - 2] = fmt[n - 1]
    BY <1>2, <1>6
  <2>4. /\ n >= 3 => fmt[n - 2] = Entry("txStop", Lower)
        /\ n >= 2 => fmt[n - 1] = Entry("start", Ctrl(chunk.addr) + 1) /\ rx = <<>>
    BY <1>1 DEF Reading, Asked, n
  <2>5. /\ Len(fmt') <= 4
        /\ Len(fmt') >= 4 => fmt'[Len(fmt') - 3] = Entry("tx", Upper)
    BY <1>2, <1>6, <2>1
  <2>6. Len(fmt') >= 3 => fmt'[Len(fmt') - 2] = Entry("txStop", Lower)
    <3>1. Len(fmt') >= 3 => n >= 4 /\ Len(fmt') - 2 = n - 3
      BY <1>2, <1>6
    <3> QED
      BY <1>6, <2>2, <2>4, <3>1
  <2>7. Len(fmt') >= 2 => fmt'[Len(fmt') - 1] = Entry("start", Ctrl(chunk.addr) + 1) /\ rx = <<>>
    <3>1. Len(fmt') >= 2 => n >= 3 /\ Len(fmt') - 1 = n - 2
      BY <1>2, <1>6
    <3> QED
      BY <1>6, <2>3, <2>4, <3>1
  <2>8. Len(fmt') # 5
    BY <1>2, <1>6
  <2> QED
    BY <1>1, <2>5, <2>6, <2>7, <2>8 DEF Asked
<1>10. rx = <<>> /\ Len(rx) = 0 /\ \A i \in 1 .. Len(rx) : FALSE
  <2>1. rx = <<>>
    BY <1>1, <1>6 DEF Reading, Asked, n
  <2>2. Len(rx) = 0
    BY <2>1, EmptySeq
  <2> QED
    BY <2>1, <2>2
<1>11. ASSUME Len(fmt') = 4 => Len(dev'.bytes) = 1 /\ dev'.bytes[1] = 0 /\ dev'.page = <<>>,
              Len(fmt') = 3 => /\ Len(dev'.bytes) = 2 /\ dev'.bytes[1] = 0 /\ dev'.bytes[2] = Upper
                               /\ dev'.page = <<>>,
              Len(fmt') <= 2 /\ Low => dev'.ptr = chunk.addr + Len(rx)
       PROVE  Pointed'
  <2>1. rx' = rx /\ chunk' = chunk /\ Upper' = Upper /\ Low' = Low
    BY <1>1
  <2>2. \A i \in 1 .. Len(rx') : FALSE
    BY <1>10, <2>1
  <2> QED
    BY <1>11, <2>1, <2>2 DEF Pointed
<1>12. CASE n = 5
  <2>1. fmt[1] = Entry("start", 160)
    BY <1>1, <1>7, <1>12 DEF Reading, Asked, n
  <2>2. dev' = OnStart(dev, 160)
    BY <1>3, <2>1 DEF Entry
  <2>3. 160 % 2 = 0 /\ (160 \div 8) % 2 = 0
    OBVIOUS
  <2>4. dev' = [dev EXCEPT !.page = <<>>, !.bytes = <<0>>]
    BY <2>2, <2>3 DEF OnStart
  <2>5. /\ dev'.page = <<>> /\ Len(dev'.bytes) = 1 /\ dev'.bytes[1] = 0
        /\ dev'.mem = dev.mem
    BY <1>1, <2>4 DEF Devices
  <2>6. Len(fmt') = 4
    BY <1>2, <1>12
  <2>7. Pointed'
    BY <1>11, <2>5, <2>6
  <2> QED
    BY <1>9, <2>5, <2>7
<1>13. CASE n = 4
  <2>1. fmt[1] = Entry("tx", Upper) /\ Len(dev.bytes) = 1 /\ dev.bytes[1] = 0 /\ dev.page = <<>>
    BY <1>1, <1>13 DEF Reading, Asked, Pointed, n
  <2>2. dev' = OnByte(dev, Upper)
    BY <1>3, <2>1 DEF Entry
  <2> DEFINE bs == Append(dev.bytes, Upper)
  <2>3. Len(bs) = 2 /\ bs[1] = 0 /\ bs[2] = Upper
    <3>1. dev.bytes \in Seq(Nat)
      BY <1>1 DEF Devices
    <3>2. Len(bs) = Len(dev.bytes) + 1 /\ bs[Len(dev.bytes) + 1] = Upper
          /\ \A i \in 1 .. Len(dev.bytes) : bs[i] = dev.bytes[i]
      BY <1>8, <3>1, Appended
    <3> QED
      BY <2>1, <3>2
  <2>4. dev' = [dev EXCEPT !.bytes = bs, !.ptr = dev.ptr]
    BY <2>1, <2>2, <2>3 DEF OnByte
  <2> HIDE DEF bs
  <2>5. /\ dev'.page = <<>> /\ Len(dev'.bytes) = 2 /\ dev'.bytes[1] = 0 /\ dev'.bytes[2] = Upper
        /\ dev'.mem = dev.mem
    BY <1>1, <2>1, <2>3, <2>4 DEF Devices
  <2>6. Len(fmt') = 3
    BY <1>2, <1>13
  <2>7. Pointed'
    BY <1>11, <2>5, <2>6
  <2> QED
    BY <1>9, <2>5, <2>7
<1>14. CASE n = 3
  <2>1. /\ fmt[1] = Entry("txStop", Lower)
        /\ Len(dev.bytes) = 2 /\ dev.bytes[1] = 0 /\ dev.bytes[2] = Upper /\ dev.page = <<>>
    BY <1>1, <1>14 DEF Reading, Asked, Pointed, n
  <2> DEFINE d == OnByte(dev, Lower)
  <2>2. dev' = OnStop(d)
    BY <1>3, <2>1 DEF Entry
  <2> DEFINE bs == Append(dev.bytes, Lower)
  <2>3. Len(bs) = 3 /\ bs[1] = 0 /\ bs[2] = Upper /\ bs[3] = Lower
    <3>1. dev.bytes \in Seq(Nat)
      BY <1>1 DEF Devices
    <3>2. Len(bs) = Len(dev.bytes) + 1 /\ bs[Len(dev.bytes) + 1] = Lower
          /\ \A i \in 1 .. Len(dev.bytes) : bs[i] = dev.bytes[i]
      BY <1>8, <3>1, Appended
    <3> QED
      BY <2>1, <3>2
  <2>4. d = [dev EXCEPT !.bytes = bs, !.ptr = 0 * BlockLen + Upper * Depth + Lower]
    BY <2>1, <2>3 DEF OnByte
  <2> HIDE DEF bs
  <2>5. 0 * BlockLen + Upper * Depth + Lower = Upper * Depth + Lower
    <3>1. Upper * Depth \in Nat /\ 0 * BlockLen = 0
      BY <1>8, BlockInDepths
    <3> QED
      BY <1>8, <3>1
  <2>6. d \in Devices
    <3>1. AddressByte(2, Upper) /\ AddressByte(3, Lower)
      BY <1>7, AddressHalves DEF AddressByte, Upper, Lower
    <3>2. \A i \in 2 .. 2 : AddressByte(i, dev.bytes[i])
      BY <2>1, <3>1
    <3> QED
      BY <1>1, <1>8, <2>1, <3>1, <3>2, ByteTyped
  <2>7. d.page = <<>> /\ d.mem = dev.mem /\ d.ptr = Upper * Depth + Lower
    BY <1>1, <2>1, <2>4, <2>5 DEF Devices
  <2> HIDE DEF d
  <2>8. dev'.mem = dev.mem /\ dev'.ptr = Upper * Depth + Lower
    BY <2>2, <2>6, <2>7, StopEmpty
  <2>9. Low => Upper * Depth + Lower = chunk.addr
    <3>1. Low => chunk.addr < BlockLen
      <4>1. Low => chunk.addr + chunk.len <= BlockLen
        BY DEF Reading, Within
      <4>2. chunk.len \in 1 .. Depth
        BY DEF IInv, ChunkFits
      <4> QED
        BY <1>7, <4>1, <4>2, BlockInDepths
    <3> QED
      BY <1>7, <3>1, AddressNames DEF Upper, Lower
  <2>10. Low => dev'.ptr = chunk.addr + Len(rx)
    BY <1>7, <1>10, <2>8, <2>9
  <2>11. Len(fmt') = 2
    BY <1>2, <1>14
  <2>12. Pointed'
    BY <1>11, <2>10, <2>11
  <2> QED
    BY <1>9, <2>8, <2>12
<1>15. CASE n = 2
  <2>1. fmt[1] = Entry("start", 161)
    BY <1>1, <1>7, <1>15 DEF Reading, Asked, n
  <2>2. dev' = OnStart(dev, 161)
    BY <1>3, <2>1 DEF Entry
  <2>3. 161 % 2 # 0
    OBVIOUS
  <2>4. dev' = [dev EXCEPT !.page = <<>>, !.bytes = dev.bytes]
    BY <2>2, <2>3 DEF OnStart
  <2>5. dev'.ptr = dev.ptr /\ dev'.mem = dev.mem
    BY <1>1, <2>4 DEF Devices
  <2>6. Len(fmt') = 1
    BY <1>2, <1>15
  <2>7. Low => dev.ptr = chunk.addr + Len(rx)
    BY <1>1, <1>15 DEF Reading, Pointed, n
  <2>8. Pointed'
    BY <1>11, <2>5, <2>6, <2>7
  <2> QED
    BY <1>9, <2>5, <2>8
<1> QED
  BY <1>6, <1>12, <1>13, <1>14, <1>15

LEMMA ReadingStep == IInv /\ Reading /\ Step => Reading' /\ dev'.mem = dev.mem
<1> SUFFICES ASSUME IInv, Reading, Step PROVE Reading' /\ dev'.mem = dev.mem
  OBVIOUS
<1>1. /\ fmt # <<>> /\ fmt \in Seq(Entries) /\ dev \in Devices
      /\ UNCHANGED <<pc, call, offs, chunk, rx, enabled, dst, Misaligned, FirstLen, Low>> /\ fmt' = Tail(fmt) /\ enabled
  BY DEF IInv, Typed, Devices, Step, Misaligned, FirstLen, Low, callVars
<1>2. /\ Head(fmt) = fmt[1] /\ Len(fmt) \in Nat \ {0} /\ Len(fmt') = Len(fmt) - 1
      /\ \A k \in 1 .. Len(fmt) - 1 : fmt'[k] = fmt[k + 1]
  BY <1>1, HeadAndTail
<1>3. pc # "queue"
  BY <1>1 DEF IInv, Queueing
<1>4. Asked' /\ Pointed' /\ dev'.mem = dev.mem
  <2>1. CASE pc = "receive"
    BY <2>1, StepAsked
  <2>2. CASE pc # "receive"
    <3>1. fmt[1].flag # "txStop"
      BY <1>2, <1>3, <2>2 DEF Reading, NoStops
    <3>2. fmt[1] \in Entries
      BY <1>1, HeadAndTail
    <3>3. dev' = OnStart(dev, fmt[1].byte) \/ dev' = OnByte(dev, fmt[1].byte)
      BY <1>2, <3>1, <3>2 DEF Step, Entries
    <3>4. OnStart(dev, fmt[1].byte).mem = dev.mem /\ OnByte(dev, fmt[1].byte).mem = dev.mem
      <4>1. OnStart(dev, fmt[1].byte).mem = dev.mem
        BY <1>1 DEF OnStart, Devices
      <4>2. OnByte(dev, fmt[1].byte).mem = dev.mem
        BY <1>1 DEF OnByte, Devices
      <4> QED
        BY <4>1, <4>2
    <3>5. dev'.mem = dev.mem
      BY <3>3, <3>4
    <3> QED
      BY <1>1, <1>3, <2>2, <3>5 DEF Asked, Pointed
  <2> QED
    BY <2>1, <2>2
<1>5. NoStops'
  <2>1. SUFFICES ASSUME pc # "receive", NEW k \in 1 .. Len(fmt') PROVE fmt'[k].flag # "txStop"
    BY <1>1, <1>3 DEF NoStops
  <2>2. k \in 1 .. Len(fmt) - 1 /\ k + 1 \in 1 .. Len(fmt)
    BY <1>2
  <2>3. fmt[k + 1].flag # "txStop"
    BY <1>3, <2>1, <2>2 DEF Reading, NoStops
  <2> QED
    BY <1>2, <2>2, <2>3
<1>6. Within'
  BY <1>1 DEF Reading, Within
<1>7. Filled'
  BY <1>1, <1>4 DEF Reading, Filled, Covered
<1> QED
  BY <1>4, <1>5, <1>6, <1>7 DEF Reading

(* The next byte comes in, from where the device points to.                *)
LEMMA ReadingStepRead == IInv /\ Reading /\ StepRead => Reading' /\ dev'.mem = dev.mem
<1> SUFFICES ASSUME IInv, Reading, StepRead PROVE Reading' /\ dev'.mem = dev.mem
  OBVIOUS
<1>1. /\ fmt # <<>> /\ fmt \in Seq(Entries) /\ dev \in Devices /\ rx \in Seq(Int)
      /\ UNCHANGED <<pc, call, offs, chunk, dst, Misaligned, FirstLen, Low, Upper, Lower>>
      /\ rx' = Append(rx, dev.mem[dev.ptr])
      /\ dev' = [dev EXCEPT !.ptr = (@ + 1) % (2 * BlockLen)]
  BY DEF IInv, Typed, Devices, StepRead, Misaligned, FirstLen, Low, Upper, Lower, callVars
<1>2. Head(fmt) = fmt[1] /\ fmt[1] \in Entries /\ Len(fmt) \in Nat \ {0} /\ Len(Tail(fmt)) = Len(fmt) - 1
  BY <1>1, HeadAndTail
<1>3. fmt[1].flag = "rx" /\ fmt[1].byte \in Int
  BY <1>2 DEF StepRead, Entries
<1>4. Len(fmt) = 1 /\ ReadPending
  <2>1. \A k \in 1 .. Len(fmt) - 1 : fmt[k].flag # "rx"
    BY DEF IInv, Receiving
  <2>2. Len(fmt) = 1
    BY <1>2, <1>3, <2>1
  <2> QED
    BY <1>1, <1>3, <2>2 DEF ReadPending
<1>5. pc = "receive" /\ fmt[1].byte >= 1 /\ fmt[1].byte + Len(rx) = chunk.len
  BY <1>4 DEF IInv, Receiving
<1>6. /\ Len(fmt') <= 5 /\ Len(fmt') # 5 /\ Len(fmt') # 4 /\ Len(fmt') # 3 /\ Len(fmt') <= 2
      /\ ~(Len(fmt') >= 4) /\ ~(Len(fmt') >= 3) /\ ~(Len(fmt') >= 2)
  <2>1. Len(Tail(fmt)) = 0
    BY <1>2, <1>4
  <2>2. Len([fmt EXCEPT ![1].byte = @ - 1]) = 1
    BY <1>1, <1>4
  <2>3. fmt' = Tail(fmt) \/ fmt' = [fmt EXCEPT ![1].byte = @ - 1]
    BY <1>2 DEF StepRead
  <2>4. Len(fmt') = 0 \/ Len(fmt') = 1
    BY <2>1, <2>2, <2>3
  <2>5. \A l \in Int : l = 0 \/ l = 1 => /\ l <= 5 /\ l # 5 /\ l # 4 /\ l # 3 /\ l <= 2
                                        /\ ~(l >= 4) /\ ~(l >= 3) /\ ~(l >= 2)
    OBVIOUS
  <2>6. Len(fmt') \in Int
    BY <2>4
  <2> QED
    BY <2>4, <2>5, <2>6, Zenon
<1>7. /\ Len(rx) \in Nat /\ Len(rx') = Len(rx) + 1 /\ rx'[Len(rx) + 1] = dev.mem[dev.ptr]
      /\ \A i \in 1 .. Len(rx) : rx'[i] = rx[i]
  <2>1. dev.mem[dev.ptr] \in Int
    BY <1>1 DEF Devices
  <2> QED
    BY <1>1, <2>1, Appended
<1>8. dev'.mem = dev.mem /\ dev'.ptr = (dev.ptr + 1) % (2 * BlockLen)
  BY <1>1 DEF Devices
<1>9. ASSUME Low
      PROVE  /\ dev.ptr = chunk.addr + Len(rx) /\ dev'.ptr = chunk.addr + Len(rx')
             /\ \A i \in 1 .. Len(rx') : rx'[i] = dev.mem[chunk.addr + i - 1]
  <2> DEFINE n == Len(rx)
             c == chunk.addr
  <2>1. dev.ptr = c + n /\ \A i \in 1 .. n : rx[i] = dev.mem[c + i - 1]
    BY <1>5, <1>6, <1>9, <1>4 DEF Reading, Pointed
  <2>2. c + chunk.len <= BlockLen /\ c \in Nat /\ chunk.len \in Int /\ BlockLen \in Nat \ {0}
    BY <1>5, <1>9, BlockInDepths DEF Reading, Within, IInv, Typed
  <2>3. n + 1 <= chunk.len /\ n \in Nat
    <3>1. \A b \in Int, m \in Nat, l \in Int : b >= 1 /\ b + m = l => m + 1 <= l
      OBVIOUS
    <3> QED
      BY <1>3, <1>5, <1>7, <2>2, <3>1, Zenon
  <2>4. Len(rx') = n + 1 /\ rx'[n + 1] = dev.mem[dev.ptr] /\ \A i \in 1 .. n : rx'[i] = rx[i]
    BY <1>7
  <2> HIDE DEF n, c
  <2>5. (c + n) + 1 \in 0 .. 2 * BlockLen - 1
    BY <2>2, <2>3
  <2>6. (dev.ptr + 1) % (2 * BlockLen) = (c + n) + 1
    <3>1. \A x \in Nat, m \in Nat \ {0} : x \in 0 .. m - 1 => x % m = x
      OBVIOUS
    <3>2. 2 * BlockLen \in Nat \ {0} /\ (c + n) + 1 \in Nat
      BY <2>2, <2>3
    <3> QED
      BY <2>1, <2>5, <3>1, <3>2, Zenon
  <2>7. dev'.ptr = c + (n + 1)
    BY <1>8, <2>2, <2>3, <2>6
  <2>8. ASSUME NEW i \in 1 .. n + 1
        PROVE  rx'[i] = dev.mem[c + i - 1]
    <3>1. CASE i \in 1 .. n
      BY <2>1, <2>4, <3>1
    <3>2. CASE i = n + 1
      <4>1. c + i - 1 = c + n
        BY <2>2, <2>3, <3>2
      <4> QED
        BY <2>1, <2>4, <3>2, <4>1
    <3> QED
      BY <2>3, <3>1, <3>2
  <2>9. /\ dev.ptr = c + n /\ dev'.ptr = c + Len(rx')
        /\ \A i \in 1 .. Len(rx') : rx'[i] = dev.mem[c + i - 1]
    BY <2>1, <2>4, <2>7, <2>8
  <2> QED
    BY <2>9 DEF n, c
<1>10. Asked' /\ NoStops'
  BY <1>1, <1>5, <1>6 DEF Asked, NoStops
<1>11. Pointed'
  BY <1>1, <1>6, <1>8, <1>9 DEF Pointed
<1>12. Within'
  BY <1>1 DEF Reading, Within
<1>13. Filled'
  BY <1>1, <1>8 DEF Reading, Filled, Covered
<1> QED
  BY <1>8, <1>10, <1>11, <1>12, <1>13 DEF Reading

----------------------------------------------------------------------------
LEMMA ReadingStays == IInv /\ Reading /\ [Next]_vars => Reading' /\ dev'.mem = dev.mem
<1> SUFFICES ASSUME IInv, Reading, [Next]_vars PROVE Reading' /\ dev'.mem = dev.mem
  OBVIOUS
<1>1. CASE UNCHANGED vars
  BY <1>1 DEF vars, callVars, Reading, NoStops, Within, Asked, Pointed, Filled, Covered, Low, Upper, Lower,
              Misaligned, FirstLen
<1>2. CASE Call \/ CutFirst \/ CutNext \/ Return \/ Disable
  <2>1. UNCHANGED dev
    BY <1>2 DEF Call, CutFirst, CutNext, CutTo, Return, Disable
  <2> QED
    BY <1>2, <2>1, ReadingBetween
<1>3. CASE QueueAddress \/ QueueRead \/ QueueWrite
  <2>1. UNCHANGED dev
    BY <1>3 DEF QueueAddress, QueueRead, QueueWrite
  <2> QED
    BY <1>3, <2>1, ReadingQueue
<1>4. CASE Receive
  <2>1. UNCHANGED dev
    BY <1>4 DEF Receive
  <2> QED
    BY <1>4, <2>1, ReadingReceive
<1>5. CASE Step \/ StepRead
  BY <1>5, ReadingStep, ReadingStepRead
<1> QED
  BY <1>1, <1>2, <1>3, <1>4, <1>5 DEF Next, Driver, Transfer

LEMMA ReadingInvariant == Spec => [](IInv /\ Reading)
<1>1. IInv /\ Reading /\ [Next]_vars => Reading'
  BY ReadingStays
<1> QED
  BY InitReading, EepromInvariant, <1>1, PTL DEF Spec

(* What a read of the lower block returns is what the device holds, for    *)
(* every alignment and length, and after whatever calls; and beyond its    *)
(* length it stores nothing but the rest of the first FIFO unit.           *)
THEOREM ReadsRight == Spec => []ReadRight
<1>1. IInv /\ Reading => ReadRight
  <2> SUFFICES ASSUME IInv, Reading PROVE ReadRight
    OBVIOUS
  <2>1. ASSUME pc = "idle", call.op = "read", call.addr + call.len <= BlockLen, NEW j \in DOMAIN dst, j < call.len
        PROVE  dst[j] = dev.mem[call.addr + j]
    <3>1. offs >= call.len /\ Covered(offs)
      BY <2>1 DEF Reading, Filled, Low
    <3>2. j < offs
      <4>1. j \in Int /\ offs \in Int /\ call.len \in Int
        BY SpanAssumption DEF Reading, Filled, IInv, Typed
      <4> QED
        BY <2>1, <3>1, <4>1
    <3> QED
      BY <2>1, <3>1, <3>2 DEF Covered
  <2>2. \A j \in DOMAIN dst : dst[j] # Unset => j < call.len \/ (Misaligned /\ j < FirstLen)
    BY DEF Reading, Filled
  <2> QED
    BY <2>1, <2>2 DEF ReadRight
<1> QED
  BY <1>1, ReadingInvariant, PTL

(* No call ever changes the device's memory, a write as little as a read:  *)
(* only a stop programs a page, and the driver ends only the address of a  *)
(* read with one.                                                          *)
NothingProgrammed == [][dev'.mem = dev.mem]_vars

THEOREM WritesNotProgrammed == Spec => NothingProgrammed
<1>1. IInv /\ Reading /\ [Next]_vars => [dev'.mem = dev.mem]_vars
  BY ReadingStays
<1> QED
  BY <1>1, ReadingInvariant, PTL DEF Spec, NothingProgrammed
=============================================================================
