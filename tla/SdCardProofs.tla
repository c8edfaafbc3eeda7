---------------------------- MODULE SdCardProofs ----------------------------
(***************************************************************************)
(* Theorems about SdCard, for every block length, FIFO depth, number of    *)
(* polls, sequence of calls and set of faults: what a call that returns 0  *)
(* has read or written, and that it leaves the card at rest.               *)
(*                                                                         *)
(* The invariant says for each place of the driver what the card is up to  *)
(* (InitSync, ReadSync, WriteSync), in calls that found it quiet, and how  *)
(* far buffer and disk have been filled (Filled, OnDisk).                  *)
(***************************************************************************)
EXTENDS SdCard, TLAPS

(* Types.                                                                  *)
Pcs   == {"down", "idle", "send", "stuff", "poll", "startBusy", "busy", "answered", "released",
          "startToken", "token", "block", "crc", "data", "written"}
InitCmds == {"CMD0", "CMD8", "CMD55", "ACMD41", "CMD58", "CMD16"}
Cmds  == InitCmds \union {"read", "write", "CMD12", "stop", "none"}
Modes == {"off", "idle", "ready", "stream", "stale", "recv"}
Calls == [op : {"init", "read", "write"}, addr : Nat, len : Nat]
Cards == [mode : Modes, owes : Int, busy : BOOLEAN, many : BOOLEAN,
          next : Nat, naps : Nat, echo : BOOLEAN, len : Nat]

Typed ==
  /\ pc \in Pcs /\ call \in Calls /\ cmd \in Cmds /\ rx \in Int /\ b \in Nat /\ offs \in 0 .. BlockLen
  /\ got \in Int /\ dst \in [Offsets -> Int] /\ cs \in BOOLEAN /\ card \in Cards
  /\ disk \in [0 .. MaxSpan -> Int] /\ quiet \in BOOLEAN /\ left \in Int /\ calls \in Nat

(* Which command is at which place of which call, and how far its loop has *)
(* come: whatever the card says.                                           *)
Commanding == {"send", "stuff", "poll", "startBusy", "busy", "answered"}
Control ==
  /\ pc \notin {"idle", "down"} => call.len > 0
  /\ pc \in Commanding /\ call.op = "init" => cmd \in InitCmds
  /\ pc \in Commanding /\ call.op = "read" =>
       (cmd = "read" /\ b = 0) \/ (cmd = "CMD12" /\ b = Blocks)
  /\ pc \in Commanding /\ call.op = "write" =>
       (cmd = "write" /\ b = 0) \/ (cmd = "none" /\ b < Blocks) \/ (cmd = "stop" /\ b = Blocks)
  /\ pc \in {"startToken", "token", "block", "crc"} => call.op = "read" /\ cmd = "read" /\ b < Blocks
  /\ (pc \in {"startBusy", "busy"} => cmd \in WithBusy) /\ (pc = "stuff" => cmd = "CMD12")
  /\ pc = "data"    => call.op = "write" /\ cmd = "write" /\ b < Blocks
  /\ pc = "written" => call.op = "write" /\ cmd = "none" /\ b < Blocks
  /\ pc = "released" => ~cs /\ (IF call.op = "init" THEN cmd \in InitCmds ELSE b = Blocks /\ cmd # "none")
  /\ (pc = "block" => offs < BlockLen) /\ (pc = "crc" => offs = BlockLen)
  /\ pc = "down" /\ calls > 0 => call.op = "init"

(* No read stores outside what its caller asked for.                       *)
Confined == call.op = "read" => \A k \in Offsets : dst[k] # Unset => k \in 0 .. call.len - 1

(* Card and driver in step, in a call that has found the card quiet.       *)
AtRest(c)     == c.mode \in {"off", "idle", "ready"}
Clear(c)      == c.owes = Unset /\ ~c.busy
Shares(mode, n) == card.mode = mode /\ card.next = n /\ card.many = (Blocks > 1)
Heard(mode)   == Shares(mode, Block + b) \/ AtRest(card)    (* or rejected      *)
Taken         == card.many = (Blocks > 1)
                 /\ IF Blocks > 1 THEN Shares("recv", Block + b + 1) ELSE card.mode = "ready"

(* During the initialisation the card is at rest but for its responses.    *)
InitSync ==
  /\ pc \in {"send", "poll", "answered", "released"} => AtRest(card) /\ ~card.busy
  /\ pc \in {"send", "answered", "released"} => card.owes = Unset
  /\ pc = "poll" => card.owes \in {0, 1, 64}
  /\ cmd \in {"CMD58", "CMD16"} => card.mode = "ready"
  /\ pc = "poll" /\ cmd = "ACMD41" /\ card.owes = 0 => card.mode = "ready"
  /\ pc \in {"answered", "released"} /\ cmd = "ACMD41" /\ rx = 0 => card.mode = "ready"
  /\ pc = "poll" /\ cmd = "CMD16" /\ card.owes = 0 => card.len = BlockLen
  /\ pc \in {"answered", "released"} /\ cmd = "CMD16" /\ rx = 0 => card.len = BlockLen

(* During a read it streams the block the driver waits for, until CMD12.   *)
ReadSync ==
  /\ pc = "send" => Clear(card) /\ (IF cmd = "read" THEN AtRest(card) ELSE card.mode = "stream")
  /\ pc = "poll" /\ cmd = "read" => ~card.busy /\ card.owes \in {0, 64} /\ Heard("stream")
  /\ pc \in {"answered", "startToken", "token"} /\ cmd = "read" => Clear(card) /\ Heard("stream")
  /\ pc \in {"block", "crc"} =>
       Clear(card) /\ Shares("stream", Block + b) /\ got \in {Noise, Block + b}
  /\ pc \in {"stuff", "poll"} /\ cmd = "CMD12" => card.mode = "ready" /\ card.owes = 0
  /\ pc \in {"startBusy", "busy"} => card.mode = "ready" /\ card.owes = Unset
  /\ (pc = "answered" /\ cmd = "CMD12") \/ pc = "released" => Quiet(card)

(* During a write it waits for the driver's block or is busy with the last.*)
WriteSync ==
  /\ pc = "send" => card.owes = Unset /\ CASE cmd = "write" -> AtRest(card) /\ ~card.busy
                                          [] cmd = "none"  -> Taken
                                          [] cmd = "stop"  -> card.mode = "recv" /\ ~card.busy
  /\ pc = "poll" /\ cmd = "write" => ~card.busy /\ card.owes \in {0, 64} /\ Heard("recv")
  /\ pc \in {"answered", "data"} /\ cmd = "write" => Clear(card) /\ Heard("recv")
  /\ pc \in {"poll", "startBusy", "busy", "answered", "written"} /\ cmd # "write" =>
       card.owes = Unset /\ IF cmd = "none" THEN Taken ELSE card.mode = "ready"
  /\ pc \in {"answered", "written"} => ~card.busy
  /\ pc = "released" => Quiet(card)

InCall == pc \notin {"idle", "down"}

(* The blocks before the one in transfer are where they belong, and so is  *)
(* what has come in of one that goes there without the swap buffer.        *)
Filled ==
  /\ \A k \in Offsets : k \in 0 .. call.len - 1 /\ k < BlockLen * b - FirstOffs => dst[k] = call.addr + k
  /\ pc \in {"block", "crc"} /\ got # Noise /\ ~FirstPart /\ ~LastPart =>
       \A k \in Offsets : k \in 0 .. call.len - 1 /\ k < BlockLen * b - FirstOffs + offs => dst[k] = call.addr + k

(* Exactly the blocks sent so far are on the disk.                         *)
Landed == IF cmd = "none" THEN b + 1 ELSE b
OnDisk == \A n \in 0 .. MaxSpan : disk[n] = IF n \in Block .. Block + Landed - 1 THEN n - Block ELSE Unset

InSync ==
  quiet /\ InCall =>
    /\ call.op = "init"  => InitSync
    /\ call.op = "read"  => ReadSync /\ Filled
    /\ call.op = "write" => WriteSync /\ OnDisk

IInv == Typed /\ Control /\ Confined /\ InSync /\ ReadRight /\ QuietAfterSuccess /\ WriteWhole
----------------------------------------------------------------------------
(* Arithmetic of blocks.                                                   *)
LEMMA Constants == BlockLen \in Nat \ {0} /\ Depth \in Nat \ {0} /\ MaxSpan \in Nat
  BY BlockAssumption, BoundAssumption

LEMMA Euclid ==
  ASSUME NEW B \in Nat \ {0}, NEW x \in Nat
  PROVE  x \div B \in Nat /\ x % B \in Nat /\ x % B < B /\ x = B * (x \div B) + (x % B)
  OBVIOUS

(* Quotient and remainder are unique.                                      *)
LEMMA Unique ==
  ASSUME NEW B \in Nat \ {0}, NEW x \in Nat, NEW q \in Nat, NEW r \in Nat, r < B, x = B * q + r
  PROVE  x \div B = q /\ x % B = r
<1> DEFINE p == x \div B
           s == x % B
<1>1. p \in Nat /\ s \in Nat /\ s < B /\ x = B * p + s
  BY Euclid
<1> HIDE DEF p, s
<1>2. \A d \in Nat : d > 0 => B * d >= B
  OBVIOUS
<1>3. CASE p < q
  <2>1. q - p \in Nat /\ q - p > 0
    BY <1>1, <1>3
  <2>2. B * (q - p) >= B
    BY <1>2, <2>1
  <2>3. B * (q - p) = B * q - B * p
    BY <1>1
  <2> QED
    BY <1>1, <2>2, <2>3
<1>4. CASE p > q
  <2>1. p - q \in Nat /\ p - q > 0
    BY <1>1, <1>4
  <2>2. B * (p - q) >= B
    BY <1>2, <2>1
  <2>3. B * (p - q) = B * p - B * q
    BY <1>1
  <2> QED
    BY <1>1, <2>2, <2>3
<1>5. CASE p = q
  BY <1>1, <1>5 DEF p, s
<1> QED
  BY <1>1, <1>3, <1>4, <1>5

(* The first and the last block of a read, and how many lie between.       *)
LEMMA Cutting ==
  ASSUME call \in Calls, call.op = "read", call.len > 0
  PROVE  /\ FirstOffs \in Nat /\ FirstOffs < BlockLen /\ Block \in Nat
         /\ call.addr = BlockLen * Block + FirstOffs
         /\ LastLen \in Nat /\ 0 < LastLen /\ LastLen <= BlockLen /\ Blocks \in Nat /\ Blocks > 0
         /\ BlockLen * (Blocks - 1) + LastLen = call.len + FirstOffs
<1> DEFINE B == BlockLen
           a == call.addr
           m == call.len
           f == a % B
           k == a \div B
           q == (m + f) \div B
           r == (m + f) % B
<1>1. B \in Nat \ {0} /\ a \in Nat /\ m \in Nat /\ m > 0
  BY Constants DEF Calls
<1>2. f \in Nat /\ f < B /\ k \in Nat /\ a = B * k + f
  BY <1>1, Euclid
<1>3. FirstOffs = f /\ Block = k /\ Blocks = (m + f + B - 1) \div B
      /\ LastLen = IF (a + m) % B = 0 THEN B ELSE (a + m) % B
  BY DEF FirstOffs, Block, Blocks, LastLen, PteOffs
<1> HIDE DEF f, k, B, a, m
<1>4. q \in Nat /\ r \in Nat /\ r < B /\ m + f = B * q + r
  <2>1. m + f \in Nat
    BY <1>1, <1>2
  <2> QED
    BY <1>1, <2>1, Euclid
<1> HIDE DEF q, r
<1>5. (a + m) % B = r
  <2>1. B * k + B * q = B * (k + q)
    BY <1>1, <1>2, <1>4
  <2>2. a + m = B * (k + q) + r
    BY <1>1, <1>2, <1>4, <2>1
  <2>3. a + m \in Nat /\ k + q \in Nat
    BY <1>1, <1>2, <1>4
  <2> QED
    BY <1>1, <1>4, <2>2, <2>3, Unique
<1>6. CASE r = 0
  <2>1. q > 0
    <3>1. q = 0 => B * q = 0
      BY <1>1
    <3> QED
      BY <1>1, <1>2, <1>4, <1>6, <3>1
  <2>2. Blocks = q
    <3>1. m + f + B - 1 = B * q + (B - 1) /\ m + f + B - 1 \in Nat /\ B - 1 \in Nat /\ B - 1 < B
      BY <1>1, <1>2, <1>4, <1>6
    <3> QED
      BY <1>1, <1>3, <1>4, <3>1, Unique
  <2>3. B * (q - 1) = B * q - B
    BY <1>1, <1>4
  <2> QED
    BY <1>1, <1>2, <1>3, <1>4, <1>5, <1>6, <2>1, <2>2, <2>3 DEF B, a, m
<1>7. CASE r # 0
  <2>1. B * (q + 1) = B * q + B
    BY <1>1, <1>4
  <2>2. Blocks = q + 1
    <3>1. m + f + B - 1 = B * (q + 1) + (r - 1) /\ m + f + B - 1 \in Nat /\ r - 1 \in Nat /\ r - 1 < B
      BY <1>1, <1>2, <1>4, <1>7, <2>1
    <3>2. q + 1 \in Nat
      BY <1>4
    <3> QED
      BY <1>1, <1>3, <3>1, <3>2, Unique
  <2>3. Blocks - 1 = q /\ LastLen = r
    BY <1>3, <1>4, <1>5, <1>7, <2>2
  <2>4. B * (Blocks - 1) + LastLen = m + f
    BY <1>4, <2>3
  <2> QED
    BY <1>1, <1>2, <1>3, <1>4, <1>7, <2>2, <2>3, <2>4 DEF B, a, m
<1> QED
  BY <1>4, <1>6, <1>7

(* How block x lies between the first block and the last.                  *)
LEMMA Lies ==
  ASSUME NEW B \in Nat \ {0}, NEW n \in Nat, NEW x \in Nat, x < n
  PROVE  /\ B * x \in Nat /\ B * (n - 1) \in Nat /\ B * (x + 1) = B * x + B
         /\ x = 0 => B * x = 0
         /\ x # 0 => B * x >= B
         /\ x = n - 1 => B * x = B * (n - 1)
         /\ x # n - 1 => B * x + B <= B * (n - 1)
<1>1. \A d \in Nat : B * d \in Nat /\ (d > 0 => B * d >= B)
  OBVIOUS
<1>2. B * x \in Nat /\ B * (n - 1) \in Nat /\ (x # 0 => B * x >= B)
  <2>1. n - 1 \in Nat
    OBVIOUS
  <2> QED
    BY <1>1, <2>1
<1>3. B * (x + 1) = B * x + B /\ (x = 0 => B * x = 0)
  OBVIOUS
<1>4. ASSUME x # n - 1 PROVE B * x + B <= B * (n - 1)
  <2>1. B * (n - 2 - x) >= 0
    <3>1. n - 2 - x \in Nat
      BY <1>4
    <3> QED
      BY <1>1, <3>1
  <2>2. B * (n - 2 - x) = B * (n - 1) - B - B * x
    OBVIOUS
  <2> QED
    BY <1>2, <2>1, <2>2
<1> QED
  BY <1>2, <1>3, <1>4

----------------------------------------------------------------------------
(* Where the bytes of a block go.                                          *)

(* What of block b was asked for, as a range of its bytes.                 *)
PartLo == IF b = 0 THEN FirstOffs ELSE 0
PartHi == IF b = Blocks - 1 THEN LastLen ELSE BlockLen

Transferring == call \in Calls /\ call.op = "read" /\ call.len > 0 /\ b \in Nat /\ b < Blocks

LEMMA Mine ==
  ASSUME Transferring
  PROVE  /\ BlockLen * b \in Nat /\ BlockLen * (b + 1) = BlockLen * b + BlockLen
         /\ FirstOffs \in Nat /\ PartLo \in 0 .. BlockLen /\ PartHi \in 0 .. BlockLen
         /\ \A j \in 0 .. BlockLen - 1 : Place(j) \in 0 .. call.len - 1 <=> j \in PartLo .. PartHi - 1
         /\ b = 0 => BlockLen * b = 0
         /\ BlockLen * Blocks - FirstOffs >= call.len
<1> DEFINE B == BlockLen
           m == B * b
           M == B * (Blocks - 1)
<1>1. /\ FirstOffs \in Nat /\ FirstOffs < B /\ LastLen \in Nat /\ 0 < LastLen /\ LastLen <= B
      /\ Blocks \in Nat /\ Blocks > 0 /\ M + LastLen = call.len + FirstOffs
  BY Cutting DEF Transferring
<1>2. B \in Nat \ {0} /\ b \in Nat /\ b < Blocks /\ call.len \in Nat
  BY Constants DEF Transferring, Calls
<1>3. /\ m \in Nat /\ M \in Nat /\ B * (b + 1) = m + B
      /\ (b = 0 => m = 0) /\ (b # 0 => m >= B) /\ (b = Blocks - 1 => m = M) /\ (b # Blocks - 1 => m + B <= M)
  BY <1>1, <1>2, Lies
<1>4. B * Blocks = M + B
  BY <1>1, <1>2
<1> HIDE DEF m, M, B
<1>5. PartLo = (IF b = 0 THEN FirstOffs ELSE 0) /\ PartHi = (IF b = Blocks - 1 THEN LastLen ELSE B)
  BY DEF PartLo, PartHi, B
<1>6. \A j \in 0 .. B - 1 : m + j - FirstOffs \in 0 .. call.len - 1 <=> j \in PartLo .. PartHi - 1
  BY <1>1, <1>2, <1>3, <1>5
<1>7. \A j \in 0 .. BlockLen - 1 : Place(j) = m + j - FirstOffs
  BY DEF Place, m, B
<1> QED
  BY <1>1, <1>2, <1>3, <1>4, <1>5, <1>6, <1>7 DEF m, B

(* Stored puts the bytes from .. to-1 of the block in their places.        *)
LEMMA Storing ==
  ASSUME Transferring, dst \in [Offsets -> Int], got \in Int,
         NEW from \in 0 .. BlockLen, NEW to \in 0 .. BlockLen
  PROVE  /\ Stored(from, to) \in [Offsets -> Int]
         /\ \A k \in Offsets :
              LET j == k + FirstOffs - BlockLen * b
              IN  Stored(from, to)[k] = IF j \in from .. to - 1 THEN Byte(j) ELSE dst[k]
<1>1. BlockLen * b \in Nat /\ FirstOffs \in Nat /\ BlockLen \in Nat /\ MaxSpan \in Nat
  BY Mine, Constants
<1>2. \A k \in Offsets : k \in Int
  BY <1>1 DEF Offsets
<1>3. \A j \in Int : Byte(j) \in Int
  BY <1>1 DEF Byte, Noise
<1>4. \A k \in Offsets : (\E j \in from .. to - 1 : Place(j) = k)
                           <=> k + FirstOffs - BlockLen * b \in from .. to - 1
  <2> SUFFICES ASSUME NEW k \in Offsets
               PROVE  (\E j \in from .. to - 1 : Place(j) = k)
                        <=> k + FirstOffs - BlockLen * b \in from .. to - 1
    OBVIOUS
  <2>1. \A j \in from .. to - 1 : Place(j) = k <=> j = k + FirstOffs - BlockLen * b
    BY <1>1, <1>2 DEF Place
  <2> QED
    BY <2>1
<1>5. \A k \in Offsets : k + FirstOffs - BlockLen * b \in Int
  BY <1>1, <1>2
<1> QED
  BY <1>3, <1>4, <1>5 DEF Stored

(* The swap buffer holds what was asked for of a first or last block.      *)
LEMMA Swapping ==
  ASSUME Transferring
  PROVE  /\ FirstPart \/ LastPart => Swap = Stored(PartLo, PartHi)
         /\ ~FirstPart /\ ~LastPart => Swap = dst /\ PartLo = 0 /\ PartHi = BlockLen
<1>1. FirstOffs \in Nat /\ LastLen \in Nat
  BY Cutting DEF Transferring
<1> QED
  BY <1>1 DEF Swap, FirstPart, LastPart, PartLo, PartHi, Transferring

----------------------------------------------------------------------------
(* What the card does, field by field.                                     *)

LEMMA BlockTyped == call \in Calls => Block \in Nat
<1> SUFFICES ASSUME call \in Calls PROVE Block \in Nat
  OBVIOUS
<1>1. call.addr \in Nat /\ call.addr \div BlockLen \in Nat
  BY Constants, Euclid DEF Calls
<1> QED
  BY <1>1 DEF Block

LEMMA MaySub == \A f, S : \A c \in May(f, S) : c \in S
  BY DEF May

LEMMA ModeNames == {"off", "idle", "ready", "stream", "stale", "recv"} \subseteq Modes
  BY DEF Modes

(* Card d differs from c in nothing but its mode, what it owes, whether it *)
(* is busy, and what no property is about.                                 *)
Keeps(c, d) == d.many = c.many /\ d.next = c.next /\ d.len = c.len

LEMMA Owes ==
  ASSUME NEW c \in Cards, NEW v \in Int
  PROVE  /\ Owing(c, v) \in Cards /\ Keeps(c, Owing(c, v))
         /\ Owing(c, v).mode = c.mode /\ Owing(c, v).owes = v /\ Owing(c, v).busy = c.busy
  BY DEF Owing, Cards, Keeps

(* A card whose mode, busy, ... has been set.                              *)
Moved(c, m)        == [c EXCEPT !.mode = m]
Working(c)         == [c EXCEPT !.busy = TRUE]
Rested(c)          == [c EXCEPT !.busy = FALSE]
MovedBusy(c, m)    == [c EXCEPT !.mode = m, !.busy = TRUE]
Opened(c, m, y, n) == [c EXCEPT !.mode = m, !.many = y, !.next = n]
Advanced(c, n, m)  == [c EXCEPT !.next = n, !.mode = m]
Reset(c)           == [c EXCEPT !.mode = "idle", !.naps = 0]
Echoed(c, y)       == [c EXCEPT !.echo = y]
Napped(c, n)       == [c EXCEPT !.naps = n]
Sized(c, n)        == [c EXCEPT !.len = n]

LEMMA Moves ==
  ASSUME NEW c \in Cards, NEW m \in Modes
  PROVE  /\ Moved(c, m) \in Cards /\ Keeps(c, Moved(c, m))
         /\ Moved(c, m).mode = m /\ Moved(c, m).owes = c.owes /\ Moved(c, m).busy = c.busy
  BY DEF Moved, Cards, Keeps

LEMMA Occupies ==
  ASSUME NEW c \in Cards
  PROVE  /\ Working(c) \in Cards /\ Keeps(c, Working(c))
         /\ Working(c).mode = c.mode /\ Working(c).owes = c.owes /\ Working(c).busy = TRUE
         /\ Rested(c) \in Cards /\ Keeps(c, Rested(c))
         /\ Rested(c).mode = c.mode /\ Rested(c).owes = c.owes /\ Rested(c).busy = FALSE
  BY DEF Working, Rested, Cards, Keeps

LEMMA MovesBusy ==
  ASSUME NEW c \in Cards, NEW m \in Modes
  PROVE  /\ MovedBusy(c, m) \in Cards /\ Keeps(c, MovedBusy(c, m))
         /\ MovedBusy(c, m).mode = m /\ MovedBusy(c, m).owes = c.owes /\ MovedBusy(c, m).busy = TRUE
  BY DEF MovedBusy, Cards, Keeps

LEMMA Advanceds ==
  ASSUME NEW c \in Cards, NEW n \in Nat, NEW m \in Modes
  PROVE  /\ Advanced(c, n, m) \in Cards /\ Advanced(c, n, m).mode = m /\ Advanced(c, n, m).next = n
         /\ Advanced(c, n, m).many = c.many /\ Advanced(c, n, m).owes = c.owes
         /\ Advanced(c, n, m).busy = c.busy
  BY DEF Advanced, Cards

LEMMA Advances ==
  ASSUME NEW c \in Cards
  PROVE  /\ Advance(c) \in Cards /\ Advance(c).mode = (IF c.many THEN c.mode ELSE "ready")
         /\ Advance(c).next = c.next + 1 /\ Advance(c).many = c.many
         /\ Advance(c).owes = c.owes /\ Advance(c).busy = c.busy
<1> DEFINE m == IF c.many THEN c.mode ELSE "ready"
           n == c.next + 1
<1>1. m \in Modes /\ n \in Nat
  BY ModeNames DEF Cards
<1>2. Advance(c) = Advanced(c, n, m)
  BY DEF Advance, Advanced
<1> HIDE DEF m, n
<1>3. /\ Advance(c) \in Cards /\ Advance(c).mode = m /\ Advance(c).next = n
      /\ Advance(c).many = c.many /\ Advance(c).owes = c.owes /\ Advance(c).busy = c.busy
  BY <1>1, <1>2, Advanceds
<1> QED
  BY <1>3 DEF m, n

LEMMA Resets ==
  ASSUME NEW c \in Cards
  PROVE  /\ Reset(c) \in Cards /\ Reset(c).mode = "idle" /\ Reset(c).owes = c.owes
         /\ Reset(c).busy = c.busy
<1>1. "idle" \in Modes /\ 0 \in Nat
  BY ModeNames
<1> QED
  BY <1>1 DEF Reset, Cards

LEMMA InitSets ==
  ASSUME NEW c \in Cards, NEW n \in Nat, NEW y \in BOOLEAN
  PROVE  /\ Echoed(c, y) \in Cards /\ Echoed(c, y).mode = c.mode /\ Echoed(c, y).owes = c.owes
         /\ Echoed(c, y).busy = c.busy
         /\ Napped(c, n) \in Cards /\ Napped(c, n).mode = c.mode /\ Napped(c, n).owes = c.owes
         /\ Napped(c, n).busy = c.busy
         /\ Sized(c, n) \in Cards /\ Sized(c, n).mode = c.mode /\ Sized(c, n).owes = c.owes
         /\ Sized(c, n).busy = c.busy /\ Sized(c, n).len = n
<1>3. /\ Echoed(c, y) \in Cards /\ Echoed(c, y).mode = c.mode /\ Echoed(c, y).owes = c.owes
      /\ Echoed(c, y).busy = c.busy
  BY DEF Echoed, Cards
<1>4. /\ Napped(c, n) \in Cards /\ Napped(c, n).mode = c.mode /\ Napped(c, n).owes = c.owes
      /\ Napped(c, n).busy = c.busy
  BY DEF Napped, Cards
<1>5. /\ Sized(c, n) \in Cards /\ Sized(c, n).mode = c.mode /\ Sized(c, n).owes = c.owes
      /\ Sized(c, n).busy = c.busy /\ Sized(c, n).len = n
  BY DEF Sized, Cards
<1> QED
  BY <1>3, <1>4, <1>5

(* The card does not listen, or falls out of step.                         *)
Deaf  == card.busy \/ cmd = "none" \/ (card.mode = "recv" /\ cmd \notin {"CMD0", "stop"})
Stale == card.mode \in {"stream", "stale"} /\ cmd \notin {"CMD0", "CMD12"}

LEMMA Hearing ==
  ASSUME card \in Cards, call \in Calls, cmd \in Cmds, NEW c \in Hears(card)
  PROVE  /\ c \in Cards
         /\ Deaf => c = card
         /\ ~Deaf /\ ~Stale =>
              /\ cmd \notin {"CMD12", "stop"} => c.busy = card.busy
              /\ cmd \in InitCmds => c.owes \in {0, 1, 64} /\ c.mode \in {card.mode, "idle", "ready"}
              /\ cmd \in {"CMD58", "CMD16"} => c.mode = card.mode
              /\ cmd = "ACMD41" /\ c.owes = 0 => c.mode = "ready"
              /\ cmd = "CMD16" /\ c.owes = 0 => c.len = BlockLen
              /\ cmd = "CMD12" => c.mode = "ready" /\ c.owes = 0
              /\ cmd = "stop" => c.mode = "ready" /\ c.owes = card.owes
              /\ cmd \in {"read", "write"} =>
                   \/ /\ c.mode = (IF cmd = "read" THEN "stream" ELSE "recv")
                      /\ c.owes = 0 /\ c.many = (Blocks > 1) /\ c.next = Block
                   \/ c.mode = card.mode /\ c.owes = 64
<1>1. CASE Deaf
  <2>1. Hears(card) = {card}
    BY <1>1, Zenon DEF Hears, Deaf
  <2> QED
    BY <1>1, <2>1
<1>2. CASE ~Deaf /\ Stale
  <2>1. Hears(card) = {Moved(card, "stale")}
    BY <1>2, Zenon DEF Hears, Deaf, Stale, Moved
  <2>2. c = Moved(card, "stale") /\ "stale" \in Modes
    BY <2>1, ModeNames
  <2> QED
    BY <1>2, <2>2, Moves
<1>3. CASE ~Deaf /\ ~Stale
  <2> SUFFICES ASSUME TRUE
               PROVE  /\ c \in Cards
                      /\ cmd \notin {"CMD12", "stop"} => c.busy = card.busy
                      /\ cmd \in InitCmds => c.owes \in {0, 1, 64} /\ c.mode \in {card.mode, "idle", "ready"}
                      /\ cmd \in {"CMD58", "CMD16"} => c.mode = card.mode
                      /\ cmd = "ACMD41" /\ c.owes = 0 => c.mode = "ready"
                      /\ cmd = "CMD16" /\ c.owes = 0 => c.len = BlockLen
                      /\ cmd = "CMD12" => c.mode = "ready" /\ c.owes = 0
                      /\ cmd = "stop" => c.mode = "ready" /\ c.owes = card.owes
                      /\ cmd \in {"read", "write"} =>
                           \/ /\ c.mode = (IF cmd = "read" THEN "stream" ELSE "recv")
                              /\ c.owes = 0 /\ c.many = (Blocks > 1) /\ c.next = Block
                           \/ c.mode = card.mode /\ c.owes = 64
    BY <1>3
  <2>0. /\ Owing(card, 0) \in Cards /\ Owing(card, 1) \in Cards /\ Owing(card, 64) \in Cards
        /\ "idle" \in Modes /\ "ready" \in Modes
    BY Owes, ModeNames
  <2>1. CASE cmd = "CMD0"
    <3>1. Hears(card) = {Reset(Owing(card, 1))}
      BY <1>3, <2>1 DEF Hears, Deaf, Stale, Reset
    <3>2. /\ c \in Cards /\ c.mode = "idle" /\ c.owes = Owing(card, 1).owes
          /\ c.busy = Owing(card, 1).busy
      BY <2>0, <3>1, Resets
    <3> QED
      BY <2>1, <3>2, Owes
  <2>2. CASE cmd = "CMD8"
    <3>1. Hears(card) = {Echoed(Owing(card, 1), TRUE)} \union May("noecho", {Echoed(Owing(card, 1), FALSE)})
      BY <1>3, <2>2 DEF Hears, Deaf, Stale, Echoed
    <3>2. \E y \in BOOLEAN : c = Echoed(Owing(card, 1), y)
      BY <3>1, MaySub
    <3>3. PICK y \in BOOLEAN : c = Echoed(Owing(card, 1), y)
      BY <3>2
    <3>4. 0 \in Nat
      OBVIOUS
    <3>5. /\ c \in Cards /\ c.mode = Owing(card, 1).mode /\ c.owes = Owing(card, 1).owes
          /\ c.busy = Owing(card, 1).busy
      BY <2>0, <3>3, <3>4, InitSets, Zenon
    <3> QED
      BY <2>2, <3>5, Owes
  <2>3. CASE cmd = "CMD55"
    <3>1. Hears(card) = {Owing(card, 1)}
      BY <1>3, <2>3 DEF Hears, Deaf, Stale
    <3>2. c \in Cards /\ c.mode = card.mode /\ c.owes = 1 /\ c.busy = card.busy
      BY <3>1, Owes
    <3> QED
      BY <2>3, <3>2
  <2>4. CASE cmd = "ACMD41"
    <3> DEFINE n == Owing(card, 1).naps + 1
    <3>1. Hears(card) = {Moved(Owing(card, 0), "ready")} \union
                        (IF card.naps < MaxNaps THEN {Napped(Owing(card, 1), n)} ELSE {})
      BY <1>3, <2>4 DEF Hears, Deaf, Stale, Moved, Napped
    <3>2. n \in Nat
      BY <2>0 DEF Cards
    <3>3. c \in {Moved(Owing(card, 0), "ready"), Napped(Owing(card, 1), n)}
      BY <3>1
    <3> HIDE DEF n
    <3>4. CASE c = Moved(Owing(card, 0), "ready")
      <4>1. /\ c \in Cards /\ c.mode = "ready" /\ c.owes = Owing(card, 0).owes
            /\ c.busy = Owing(card, 0).busy
        BY <2>0, <3>4, Moves
      <4> QED
        BY <2>4, <4>1, Owes
    <3>5. CASE c = Napped(Owing(card, 1), n)
      <4>1. /\ c \in Cards /\ c.mode = Owing(card, 1).mode /\ c.owes = Owing(card, 1).owes
            /\ c.busy = Owing(card, 1).busy
        BY <2>0, <3>2, <3>5, InitSets
      <4> QED
        BY <2>4, <4>1, Owes
    <3> QED
      BY <3>3, <3>4, <3>5
  <2>5. CASE cmd = "CMD58"
    <3>1. Hears(card) = {Owing(card, 0)}
      BY <1>3, <2>5 DEF Hears, Deaf, Stale
    <3>2. c \in Cards /\ c.mode = card.mode /\ c.owes = 0 /\ c.busy = card.busy
      BY <3>1, Owes
    <3> QED
      BY <2>5, <3>2
  <2>6. CASE cmd = "CMD16"
    <3>1. Hears(card) = {Sized(Owing(card, 0), BlockLen)} \union May("reject", {Owing(card, 64)})
      BY <1>3, <2>6 DEF Hears, Deaf, Stale, Sized
    <3>2. c \in {Sized(Owing(card, 0), BlockLen), Owing(card, 64)}
      BY <3>1, MaySub
    <3>3. CASE c = Sized(Owing(card, 0), BlockLen)
      <4>1. BlockLen \in Nat
        BY Constants
      <4>2. /\ c \in Cards /\ c.mode = Owing(card, 0).mode /\ c.owes = Owing(card, 0).owes
            /\ c.busy = Owing(card, 0).busy /\ c.len = BlockLen
        BY <2>0, <3>3, <4>1, InitSets
      <4> QED
        BY <2>6, <4>2, Owes
    <3>4. CASE c = Owing(card, 64)
      <4>1. c \in Cards /\ c.mode = card.mode /\ c.owes = 64 /\ c.busy = card.busy
        BY <3>4, Owes
      <4> QED
        BY <2>6, <4>1
    <3> QED
      BY <3>2, <3>3, <3>4
  <2>7. CASE cmd = "CMD12"
    <3>1. Hears(card) = {MovedBusy(Owing(card, 0), "ready")}
      BY <1>3, <2>7 DEF Hears, Deaf, Stale, MovedBusy
    <3>2. c = MovedBusy(Owing(card, 0), "ready")
      BY <3>1
    <3>3. c \in Cards /\ c.mode = "ready" /\ c.owes = Owing(card, 0).owes
      BY <2>0, <3>2, MovesBusy
    <3> QED
      BY <2>7, <3>3, Owes DEF InitCmds
  <2>8. CASE cmd = "stop"
    <3>1. Hears(card) = {MovedBusy(card, "ready")} \union May("fast", {Moved(card, "ready")})
      BY <1>3, <2>8 DEF Hears, Deaf, Stale, MovedBusy, Moved
    <3>2. c \in {MovedBusy(card, "ready"), Moved(card, "ready")}
      BY <3>1, MaySub
    <3>3. c = MovedBusy(card, "ready") \/ c = Moved(card, "ready")
      BY <3>2
    <3>4. /\ MovedBusy(card, "ready") \in Cards /\ MovedBusy(card, "ready").mode = "ready"
          /\ MovedBusy(card, "ready").owes = card.owes
      BY <2>0, MovesBusy
    <3>5. Moved(card, "ready") \in Cards /\ Moved(card, "ready").mode = "ready" /\ Moved(card, "ready").owes = card.owes
      BY <2>0, Moves
    <3> QED
      BY <2>8, <3>3, <3>4, <3>5 DEF InitCmds
  <2>9. CASE cmd \in {"read", "write"}
    <3> DEFINE m == IF cmd = "read" THEN "stream" ELSE "recv"
               y == Blocks > 1
    <3>1. Hears(card) = {Opened(Owing(card, 0), m, y, Block)} \union May("reject", {Owing(card, 64)})
      BY <1>3, <2>9 DEF Hears, Deaf, Stale, Opened
    <3>2. m \in Modes /\ y \in BOOLEAN /\ Block \in Nat
      BY ModeNames, BlockTyped
    <3>3. c \in {Opened(Owing(card, 0), m, y, Block), Owing(card, 64)}
      BY <3>1, MaySub
    <3> HIDE DEF m, y
    <3>4. CASE c = Opened(Owing(card, 0), m, y, Block)
      <4> DEFINE d == Owing(card, 0)
                 e == Opened(d, m, y, Block)
      <4>1. d \in Cards
        BY <2>0
      <4>2. /\ e \in Cards /\ e.mode = m /\ e.owes = d.owes
            /\ e.busy = d.busy /\ e.many = y /\ e.next = Block
        <5> HIDE DEF d
        <5> QED
          BY <4>1, <3>2 DEF Opened, Cards
      <4>3. c = e
        BY <3>4
      <4>4. d.owes = 0 /\ d.busy = card.busy
        BY Owes
      <4> HIDE DEF d, e
      <4> QED
        BY <2>9, <4>2, <4>3, <4>4 DEF InitCmds, m, y
    <3>5. CASE c = Owing(card, 64)
      <4>1. c \in Cards /\ c.mode = card.mode /\ c.owes = 64 /\ c.busy = card.busy
        BY <3>5, Owes
      <4> QED
        BY <2>9, <4>1 DEF InitCmds
    <3> QED
      BY <3>3, <3>4, <3>5
  <2> QED
    BY <1>3, <2>1, <2>2, <2>3, <2>4, <2>5, <2>6, <2>7, <2>8, <2>9 DEF Cmds, InitCmds, Deaf
<1> QED
  BY <1>1, <1>2, <1>3

(* A byte of the card, and what the card is after it.                      *)
LEMMA Speaking ==
  ASSUME card \in Cards, NEW s \in Bytes(card)
  PROVE  /\ s.card \in Cards /\ s.byte \in Int /\ Keeps(card, s.card)
         /\ card.owes # Unset =>
              /\ s.card.mode = card.mode /\ s.card.busy = card.busy
              /\ (s.byte = Free /\ s.card = card) \/ (s.byte = card.owes /\ s.card.owes = Unset)
         /\ card.owes = Unset => s.card.owes = Unset
         /\ card.owes = Unset /\ card.busy =>
              s.card.mode = card.mode /\ s.byte = (IF s.card.busy THEN 0 ELSE Free)
         /\ card.owes = Unset /\ ~card.busy =>
              /\ ~s.card.busy
              /\ card.mode \notin {"stream", "stale"} => s.byte = Free /\ s.card.mode = card.mode
              /\ card.mode = "stream" =>
                   \/ s.byte \in {Free, Token} /\ s.card.mode = "stream"
                   \/ s.byte = 8 /\ s.card.mode = "ready"
<1>1. card.owes \in Int /\ Free \in Int /\ Token \in Int /\ Unset \in Int
  BY DEF Cards, Free, Token, Unset
<1>2. Keeps(card, card)
  BY DEF Keeps
<1>3. CASE card.owes # Unset
  <2>1. Bytes(card) = {Says(Free, card), Says(card.owes, Owing(card, Unset))}
    BY <1>3, Zenon DEF Bytes
  <2>2. s = Says(Free, card) \/ s = Says(card.owes, Owing(card, Unset))
    BY <2>1, Zenon
  <2>3. (s.byte = Free /\ s.card = card) \/ (s.byte = card.owes /\ s.card = Owing(card, Unset))
    BY <2>2 DEF Says
  <2>4. /\ Owing(card, Unset) \in Cards /\ Keeps(card, Owing(card, Unset))
        /\ Owing(card, Unset).mode = card.mode /\ Owing(card, Unset).owes = Unset
        /\ Owing(card, Unset).busy = card.busy
    BY <1>1, Owes
  <2> QED
    BY <1>1, <1>2, <1>3, <2>3, <2>4
<1>4. CASE card.owes = Unset /\ card.busy
  <2>1. Bytes(card) = {Says(0, card), Says(Free, Rested(card))}
    BY <1>4, Zenon DEF Bytes, Rested
  <2>2. s = Says(0, card) \/ s = Says(Free, Rested(card))
    BY <2>1, Zenon
  <2>3. (s.byte = 0 /\ s.card = card) \/ (s.byte = Free /\ s.card = Rested(card))
    BY <2>2 DEF Says
  <2>5. /\ Rested(card) \in Cards /\ Keeps(card, Rested(card))
        /\ Rested(card).mode = card.mode /\ Rested(card).owes = card.owes
        /\ Rested(card).busy = FALSE
    BY Occupies
  <2>6. card.busy = TRUE
    BY <1>4 DEF Cards
  <2> QED
    BY <1>1, <1>2, <1>4, <2>3, <2>5, <2>6
<1>5. CASE card.owes = Unset /\ ~card.busy
  <2>1. CASE card.mode = "stream"
    <3>1. Bytes(card) = {Says(Free, card), Says(Token, card)} \union May("token", {Says(8, Moved(card, "ready"))})
      BY <1>5, <2>1 DEF Bytes, Moved
    <3>2. s \in {Says(Free, card), Says(Token, card), Says(8, Moved(card, "ready"))}
      BY <3>1, MaySub
    <3>3. (s.byte \in {Free, Token} /\ s.card = card) \/ (s.byte = 8 /\ s.card = Moved(card, "ready"))
      BY <3>2 DEF Says
    <3>4. "ready" \in Modes
      BY ModeNames
    <3>5. /\ Moved(card, "ready") \in Cards /\ Keeps(card, Moved(card, "ready"))
          /\ Moved(card, "ready").mode = "ready" /\ Moved(card, "ready").owes = card.owes
          /\ Moved(card, "ready").busy = card.busy
      BY <3>4, Moves
    <3> QED
      BY <1>1, <1>2, <1>5, <2>1, <3>3, <3>5
  <2>2. CASE card.mode # "stream"
    <3>1. Bytes(card) = IF card.mode = "stale" THEN {Says(Free, card), Says(Token, card), Says(0, card)}
                                               ELSE {Says(Free, card)}
      BY <1>5, <2>2 DEF Bytes
    <3>2. /\ s \in {Says(Free, card), Says(Token, card), Says(0, card)}
          /\ card.mode # "stale" => s = Says(Free, card)
      BY <3>1
    <3>3. s.card = card /\ s.byte \in {Free, Token, 0} /\ (card.mode # "stale" => s.byte = Free)
      BY <3>2 DEF Says
    <3> QED
      BY <1>1, <1>2, <1>5, <2>2, <3>3
  <2> QED
    BY <2>1, <2>2
<1> QED
  BY <1>3, <1>4, <1>5

(* The answer to a block of data.                                          *)
LEMMA Answering ==
  ASSUME card \in Cards, NEW s \in DataResponse(card)
  PROVE  /\ s.card \in Cards /\ s.byte \in Int /\ Keeps(card, s.card) /\ s.card.owes = card.owes
         /\ card.mode = "recv" => (s.byte = 229 /\ s.card.mode = "recv") \/ s.byte \in {235, 237}
         /\ card.mode \notin {"recv", "stale"} => s.card = card /\ s.byte \in {0, Free}
<1>1. Keeps(card, card) /\ Free \in Int
  BY DEF Keeps, Free
<1>2. CASE card.mode = "recv"
  <2> DEFINE m == IF card.many THEN card.mode ELSE "ready"
  <2>1. Refused(card) = Moved(card, m)
    BY DEF Refused, Moved
  <2>2. DataResponse(card) = {Says(229, Working(card))} \union May("fast", {Says(229, card)}) \union
                             May("resp", {Says(235, Moved(card, m)), Says(237, Moved(card, m))})
    BY <1>2, <2>1 DEF DataResponse, Working
  <2>3. m \in Modes
    BY ModeNames DEF Cards
  <2> HIDE DEF m
  <2>4. s \in {Says(229, Working(card)), Says(229, card), Says(235, Moved(card, m)), Says(237, Moved(card, m))}
    BY <2>2, MaySub
  <2>5. \/ s.byte = 229 /\ s.card \in {card, Working(card)}
        \/ s.byte \in {235, 237} /\ s.card = Moved(card, m)
    BY <2>4 DEF Says
  <2>6. /\ Moved(card, m) \in Cards /\ Keeps(card, Moved(card, m)) /\ Moved(card, m).owes = card.owes
    BY <2>3, Moves
  <2>7. /\ Working(card) \in Cards /\ Keeps(card, Working(card))
        /\ Working(card).mode = card.mode /\ Working(card).owes = card.owes
    BY Occupies
  <2> QED
    BY <1>1, <1>2, <2>5, <2>6, <2>7
<1>3. CASE card.mode # "recv"
  <2>1. s \in {Says(Free, card), Says(229, card), Says(0, card)} /\ (card.mode # "stale" => s \in {Says(Free, card), Says(0, card)})
    BY <1>3 DEF DataResponse
  <2>2. s.card = card /\ s.byte \in {Free, 229, 0} /\ (card.mode # "stale" => s.byte \in {Free, 0})
    BY <2>1 DEF Says
  <2> QED
    BY <1>1, <1>3, <2>2
<1> QED
  BY <1>2, <1>3

----------------------------------------------------------------------------
(* Types, and the place of the driver in its call.                         *)

LEMMA Counted == call \in Calls => Blocks \in Nat /\ Block \in Nat /\ FirstOffs \in Nat
<1> SUFFICES ASSUME call \in Calls PROVE Blocks \in Nat /\ Block \in Nat /\ FirstOffs \in Nat
  OBVIOUS
<1>1. BlockLen \in Nat \ {0} /\ call.addr \in Nat /\ call.len \in Nat
  BY Constants DEF Calls
<1>2. FirstOffs \in Nat
  BY <1>1, Euclid DEF FirstOffs
<1>3. call.len + FirstOffs + BlockLen - 1 \in Nat
  BY <1>1, <1>2
<1>4. (call.len + FirstOffs + BlockLen - 1) \div BlockLen \in Nat
  BY <1>1, <1>3, Euclid
<1> QED
  BY <1>1, <1>2, <1>4, BlockTyped DEF Blocks

LEMMA Steady ==
  call' = call => /\ FirstOffs' = FirstOffs /\ PteOffs' = PteOffs /\ LastLen' = LastLen
                  /\ Blocks' = Blocks /\ Block' = Block
  BY DEF FirstOffs, PteOffs, LastLen, Blocks, Block

(* The values that Typed is about, apart from the card and the buffers.    *)
Plain == pc \in Pcs /\ call \in Calls /\ cmd \in Cmds /\ rx \in Int /\ b \in Nat /\ offs \in 0 .. BlockLen
         /\ got \in Int /\ cs \in BOOLEAN /\ quiet \in BOOLEAN /\ left \in Int /\ calls \in Nat
Bulk  == dst \in [Offsets -> Int] /\ card \in Cards /\ disk \in [0 .. MaxSpan -> Int]

LEMMA Parts == Typed <=> Plain /\ Bulk
  BY DEF Typed, Plain, Bulk

LEMMA Chunks ==
  ASSUME offs \in 0 .. BlockLen
  PROVE  ChunkEnd \in 0 .. BlockLen /\ ChunkEnd >= offs /\ (offs < BlockLen => ChunkEnd > offs)
  BY Constants DEF ChunkEnd

LEMMA InTransfer == Typed /\ Control /\ pc \in {"startToken", "token", "block", "crc"} => Transferring
  BY DEF Typed, Control, Transferring

LEMMA BulkStep == Typed /\ Control /\ [Next]_vars => Bulk'
<1> SUFFICES ASSUME Typed, Control, [Next]_vars
             PROVE  Bulk'
  OBVIOUS
<1>1. /\ dst \in [Offsets -> Int] /\ card \in Cards /\ disk \in [0 .. MaxSpan -> Int]
      /\ call \in Calls /\ cmd \in Cmds /\ b \in Nat /\ got \in Int /\ offs \in 0 .. BlockLen
  BY DEF Typed
<1>2. CASE Call
  <2>1. Unset \in Int
    BY DEF Unset
  <2> QED
    BY <1>1, <1>2, <2>1 DEF Call, Bulk
<1>3. CASE UNCHANGED <<dst, disk>> /\ card' \in Hears(card)
  BY <1>1, <1>3, Hearing DEF Bulk
<1>4. CASE UNCHANGED <<dst, disk>> /\ \E s \in Bytes(card) : card' = s.card
  BY <1>1, <1>4, Speaking DEF Bulk
<1>5. CASE UNCHANGED <<dst, card, disk>>
  BY <1>1, <1>5 DEF Bulk
<1>6. CASE ReadChunk
  <2>1. pc = "block"
    BY <1>6 DEF ReadChunk, Goto
  <2>2. offs \in 0 .. BlockLen /\ ChunkEnd \in 0 .. BlockLen
    BY <1>1, Chunks
  <2>3. Stored(offs, ChunkEnd) \in [Offsets -> Int]
    BY <1>1, <2>1, <2>2, InTransfer, Storing, Zenon
  <2>4. dst' \in [Offsets -> Int] /\ UNCHANGED <<card, disk>>
    BY <1>1, <1>6, <2>3 DEF ReadChunk
  <2> QED
    BY <1>1, <2>4 DEF Bulk
<1>7. CASE CheckCrc
  <2>1. pc = "crc"
    BY <1>7 DEF CheckCrc
  <2>2. Transferring
    BY <2>1, InTransfer
  <2>3. PartLo \in 0 .. BlockLen /\ PartHi \in 0 .. BlockLen
    BY <2>2, Mine
  <2>4. Stored(PartLo, PartHi) \in [Offsets -> Int]
    BY <1>1, <2>2, <2>3, Storing, Zenon
  <2>5. Swap \in [Offsets -> Int]
    BY <1>1, <2>2, <2>4, Swapping
  <2>6. dst' \in [Offsets -> Int] /\ UNCHANGED disk /\ card' = Advance(card)
    BY <1>1, <1>7, <2>5 DEF CheckCrc
  <2> QED
    BY <1>1, <2>6, Advances DEF Bulk
<1>8. CASE WriteBlock
  <2>1. PICK s \in DataResponse(card) :
           IF s.byte = 229 /\ card.mode = "recv"
             THEN disk' = [disk EXCEPT ![card.next] = b] /\ card' = Advance(s.card)
             ELSE disk' = disk /\ card' = s.card
    BY <1>8 DEF WriteBlock
  <2>2. s.card \in Cards
    BY <1>1, Answering
  <2>3. card' \in Cards
    BY <2>1, <2>2, Advances
  <2>4. disk' \in [0 .. MaxSpan -> Int]
    BY <1>1, <2>1
  <2>5. dst' = dst
    BY <1>8 DEF WriteBlock
  <2> QED
    BY <1>1, <2>3, <2>4, <2>5 DEF Bulk
<1>9. CASE Send
  BY <1>3, <1>9 DEF Send
<1>10. CASE Poll
  BY <1>4, <1>10 DEF Poll, PollOnce
<1>11. CASE PollBusy
  BY <1>4, <1>11 DEF PollBusy, PollOnce
<1>12. CASE PollToken
  BY <1>4, <1>12 DEF PollToken, PollOnce
<1>13. CASE DropStuff \/ StartBusy \/ Answered \/ StartToken \/ NextBlock \/ Done \/ UNCHANGED vars
  BY <1>5, <1>13 DEF DropStuff, StartBusy, Answered, StartToken, NextBlock, Done, vars
<1>14. CASE Activate
  BY <1>5, <1>14 DEF Activate, AfterCmd0, AfterCmd8, AfterCmd55, AfterAcmd41, AfterCmd58, AfterCmd16, InitStep
<1> QED
  BY <1>2, <1>6, <1>7, <1>8, <1>9, <1>10, <1>11, <1>12, <1>13, <1>14 DEF Next, Driver

LEMMA Remainders == 229 % 32 = 5 /\ 235 % 32 # 5 /\ 237 % 32 # 5 /\ 0 % 32 # 5 /\ 255 % 32 # 5
  OBVIOUS

(* Returning ends a call.                                                  *)
LEMMA Returned ==
  ASSUME Typed, NEW r, Return(r), call' = call
  PROVE  pc' \in {"idle", "down"} /\ (pc' = "down" => call.op = "init") /\ ret' = r
  BY DEF Return

LEMMA SomeBlocks == call \in Calls /\ call.len > 0 => Blocks \in Nat /\ Blocks > 0
<1> SUFFICES ASSUME call \in Calls, call.len > 0 PROVE Blocks \in Nat /\ Blocks > 0
  OBVIOUS
<1>1. CASE call.op = "read"
  BY <1>1, Cutting
<1>2. CASE call.op # "read"
  BY <1>2 DEF Blocks, Calls
<1> QED
  BY <1>1, <1>2

(* The end of a block: another one, or a transfer to close, or the bus.    *)
LEMMA Ends ==
  ASSUME NEW again, NEW stop, EndBlock(again, stop), b \in Nat, Blocks \in Nat, b < Blocks
  PROVE  /\ b' = b + 1 /\ cs' \in BOOLEAN /\ ret' = ret
         /\ \/ b + 1 < Blocks /\ cmd' = call.op /\ pc' = again
            \/ b + 1 = Blocks /\ Blocks = 1 /\ cmd' = call.op /\ pc' = "released" /\ ~cs'
            \/ b + 1 = Blocks /\ Blocks > 1 /\ cmd' = stop /\ pc' = "send"
<1>1. cs' = (More \/ Blocks > 1)
  BY DEF EndBlock
<1>2. cs' \in BOOLEAN
  BY <1>1
<1>3. CASE b + 1 < Blocks
  BY <1>2, <1>3 DEF EndBlock, More
<1>4. CASE b + 1 = Blocks
  <2>1. ~More
    BY <1>4 DEF More
  <2>2. Blocks = 1 => ~(Blocks > 1)
    OBVIOUS
  <2>3. Blocks = 1 => ~cs'
    BY <1>1, <2>1, <2>2, Zenon
  <2>4. Blocks = 1 \/ Blocks > 1
    BY <1>4
  <2>5. /\ b' = b + 1 /\ ret' = ret /\ cmd' = (IF Blocks = 1 THEN call.op ELSE stop)
        /\ pc' = (IF Blocks = 1 THEN "released" ELSE "send")
    BY <2>1, Zenon DEF EndBlock
  <2> QED
    BY <1>2, <1>4, <2>3, <2>4, <2>5
<1> QED
  BY <1>3, <1>4

PlaceNow == Plain /\ Control

LEMMA PlaceStep == Typed /\ Control /\ [Next]_vars => PlaceNow'
<1> SUFFICES ASSUME Typed, Control, [Next]_vars
             PROVE  PlaceNow'
  OBVIOUS
<1>1. /\ pc \in Pcs /\ call \in Calls /\ cmd \in Cmds /\ rx \in Int /\ b \in Nat /\ offs \in 0 .. BlockLen
      /\ got \in Int /\ cs \in BOOLEAN /\ card \in Cards /\ quiet \in BOOLEAN /\ left \in Int /\ calls \in Nat
  BY DEF Typed
<1>2. Blocks \in Nat
  BY <1>1, Counted
<1>3. call' = call => Blocks' = Blocks
  BY Steady
<1>4. BlockLen \in Nat \ {0} /\ {CmdPolls, BusyPolls, TokenPolls} \subseteq Nat /\ Free \in Int /\ Noise \in Int
  BY BlockAssumption, PollAssumption DEF Free, Noise
<1>5. /\ {"CMD0", "CMD8", "CMD55", "ACMD41", "CMD58", "CMD16", "read", "write", "CMD12", "stop", "none"} \subseteq Cmds
      /\ {"CMD0", "CMD8", "CMD55", "ACMD41", "CMD58", "CMD16"} = InitCmds
  BY DEF Cmds, InitCmds
<1>6. CASE Call
  <2>1. PICK r \in Requests : /\ pc = "idle" \/ (pc = "down" /\ r.op = "init")
                              /\ call' = r
                              /\ IF r.len = 0 THEN pc' = pc ELSE pc' = "send"
                              /\ cmd' = First(r.op)
    BY <1>6 DEF Call
  <2>2. r \in Calls /\ (r.op = "init" => r.len = 1)
    BY RequestAssumption DEF Calls
  <2>3. cmd' = (IF r.op = "init" THEN "CMD0" ELSE r.op) /\ r.op \in {"init", "read", "write"} /\ r.len \in Nat
    BY <2>1, <2>2 DEF First, Calls
  <2>4. calls' = calls + 1 /\ b' = 0 /\ UNCHANGED <<left, rx, offs, got, cs>> /\ quiet' = Quiet(card)
    BY <1>6 DEF Call
  <2>5. quiet' \in BOOLEAN
    BY <2>4 DEF Quiet
  <2>6. pc' \in {"idle", "send"} \/ (pc' = "down" /\ r.op = "init")
    BY <2>1, <2>2
  <2>7. Plain'
    BY <1>1, <1>5, <2>1, <2>2, <2>3, <2>4, <2>5, <2>6 DEF Plain, Pcs
  <2>8. pc' = "send" => r.len > 0
    BY <2>1, <2>3
  <2>9. Control'
    BY <1>5, <2>1, <2>3, <2>4, <2>6, <2>8 DEF Control, Commanding
  <2> QED
    BY <2>7, <2>9 DEF PlaceNow
<1>7. CASE Send \/ DropStuff \/ StartBusy \/ StartToken \/ Answered
  <2>1. UNCHANGED <<call, calls, cmd, b, offs, got, quiet>>
    BY <1>7 DEF Send, DropStuff, StartBusy, StartToken, Answered, driver
  <2>2. rx' \in Int /\ left' \in Int
    BY <1>1, <1>4, <1>7 DEF Send, DropStuff, StartBusy, StartToken, Answered
  <2>3. cs' \in BOOLEAN
    <3>1. CASE cs' = (cmd \in {"read", "write", "none"})
      BY <3>1
    <3>2. CASE cs' \in {cs, TRUE}
      BY <1>1, <3>2
    <3> QED
      BY <1>7, <3>1, <3>2 DEF Send, DropStuff, StartBusy, StartToken, Answered
  <2>4. \/ pc = "send" /\ pc' = (IF cmd = "CMD12" THEN "stuff" ELSE "poll")
        \/ pc = "stuff" /\ pc' = "poll"
        \/ pc = "startBusy" /\ pc' = "busy"
        \/ pc = "startToken" /\ pc' = "token"
        \/ /\ pc = "answered" /\ (pc' = "released" => ~cs')
           /\ pc' = CASE cmd = "read"  -> "startToken"
                      [] cmd = "write" -> "data"
                      [] cmd = "none"  -> "written"
                      [] OTHER         -> "released"
    BY <1>7 DEF Send, DropStuff, StartBusy, StartToken, Answered, Goto
  <2>5. Plain'
    BY <1>1, <2>1, <2>2, <2>3, <2>4 DEF Plain, Pcs
  <2>6. ASSUME pc # "answered" PROVE Control'
    <3>2. CASE pc \in Commanding /\ pc' \in Commanding /\ pc \notin {"idle", "down"} /\ pc' \in {"stuff", "poll", "busy"}
      <4>1. (pc' = "busy" => pc = "startBusy") /\ (pc' = "stuff" => cmd = "CMD12")
        BY <2>4, <2>6
      <4> QED
        BY <1>3, <2>1, <3>2, <4>1 DEF Control, Commanding
    <3>3. CASE pc = "startToken" /\ pc' = "token"
      BY <1>3, <2>1, <3>3 DEF Control, Commanding
    <3> QED
      BY <2>4, <2>6, <3>2, <3>3 DEF Commanding
  <2>7. ASSUME pc = "answered" PROVE Control'
    <3>1. pc' \notin Commanding /\ pc' \notin {"idle", "down", "token", "block", "crc"}
      BY <2>4, <2>7 DEF Commanding
    <3>2. \/ call.op = "init" /\ cmd \in InitCmds
          \/ call.op = "read"  /\ ((cmd = "read" /\ b = 0) \/ (cmd = "CMD12" /\ b = Blocks))
          \/ call.op = "write" /\ ((cmd = "write" /\ b = 0) \/ (cmd = "none" /\ b < Blocks) \/ (cmd = "stop" /\ b = Blocks))
      BY <1>1, <2>7 DEF Control, Commanding, Calls
    <3>3. call.len > 0
      BY <2>7 DEF Control
    <3>4. b = 0 /\ call.op # "init" => b < Blocks
      BY <1>1, <1>2, <3>3, SomeBlocks
    <3> QED
      <4>1. CASE cmd = "read"
        BY <1>3, <1>5, <2>1, <2>4, <2>7, <3>1, <3>2, <3>3, <3>4, <4>1 DEF Control, InitCmds, Commanding
      <4>2. CASE cmd = "write"
        BY <1>3, <1>5, <2>1, <2>4, <2>7, <3>1, <3>2, <3>3, <3>4, <4>2 DEF Control, InitCmds, Commanding
      <4>3. CASE cmd = "none"
        BY <1>3, <1>5, <2>1, <2>4, <2>7, <3>1, <3>2, <3>3, <3>4, <4>3 DEF Control, InitCmds, Commanding
      <4>4. CASE cmd \notin {"read", "write", "none"}
        <5>1. pc' = "released" /\ ~cs'
          BY <2>4, <2>7, <4>4
        <5>2. IF call.op = "init" THEN cmd \in InitCmds ELSE b = Blocks
          BY <3>2, <4>4
        <5> QED
          BY <1>3, <2>1, <3>1, <3>3, <4>4, <5>1, <5>2 DEF Control, Commanding
      <4> QED
        BY <4>1, <4>2, <4>3, <4>4
  <2> QED
    BY <2>5, <2>6, <2>7 DEF PlaceNow
<1>8. CASE Poll \/ PollBusy
  <2>1. PICK s \in Bytes(card) : rx' = s.byte /\ left' = left - 1
    BY <1>8 DEF Poll, PollBusy, PollOnce
  <2>2. s.byte \in Int
    BY <1>1, Speaking
  <2>3. UNCHANGED <<call, calls, cmd, b, offs, got, quiet, cs>>
    BY <1>8 DEF Poll, PollBusy, driver
  <2>4. \/ pc' \in {"idle", "down"} /\ (pc' = "down" => call.op = "init")
        \/ pc \in {"poll", "busy"} /\ pc' \in {"poll", "busy", "startBusy", "answered"}
           /\ (pc' \in {"startBusy", "busy"} => cmd \in WithBusy)
    BY <1>1, <1>8 DEF Poll, PollBusy, PollOnce, Return, Control
  <2>5. Plain'
    BY <1>1, <2>1, <2>2, <2>3, <2>4 DEF Plain, Pcs
  <2>6. Control'
    BY <1>3, <2>3, <2>4 DEF Control, Commanding
  <2> QED
    BY <2>5, <2>6 DEF PlaceNow
<1>9. CASE Activate
  <2>1. UNCHANGED <<call, calls, left, rx, b, offs, got, quiet, cs>> /\ call.op = "init" /\ pc = "released"
    BY <1>9 DEF Activate, AfterCmd0, AfterCmd8, AfterCmd55, AfterAcmd41, AfterCmd58, AfterCmd16, InitStep
  <2>2. cmd' \in Cmds /\ (pc' \in {"idle", "down"} \/ (pc' = "send" /\ cmd' \in InitCmds))
    BY <1>5, <1>9 DEF Activate, AfterCmd0, AfterCmd8, AfterCmd55, AfterAcmd41, AfterCmd58, AfterCmd16, InitStep,
                      Proceed, Return
  <2>3. Plain'
    BY <1>1, <2>1, <2>2 DEF Plain, Pcs
  <2>4. Control'
    BY <1>3, <2>1, <2>2 DEF Control, Commanding
  <2> QED
    BY <2>3, <2>4 DEF PlaceNow
<1>10. CASE PollToken
  <2>1. PICK s \in Bytes(card) : rx' = s.byte /\ left' = left - 1
    BY <1>10 DEF PollToken, PollOnce
  <2>2. s.byte \in Int
    BY <1>1, Speaking
  <2>3. UNCHANGED <<call, calls, cmd, b, quiet, cs>> /\ offs' = 0 /\ pc = "token"
    BY <1>10 DEF PollToken
  <2>4. got' \in {got, card.next, Noise}
    BY <1>10 DEF PollToken
  <2>5. got' \in Int
    BY <1>1, <1>4, <2>4 DEF Cards
  <2>6. pc' \in {"idle", "down", "token", "block"} /\ (pc' = "down" => call.op = "init")
    BY <1>1, <1>10 DEF PollToken, PollOnce, Return
  <2>7. Plain'
    BY <1>1, <1>4, <2>1, <2>2, <2>3, <2>5, <2>6 DEF Plain, Pcs
  <2>8. Control'
    BY <1>3, <1>4, <2>3, <2>6 DEF Control, Commanding
  <2> QED
    BY <2>7, <2>8 DEF PlaceNow
<1>11. CASE ReadChunk
  <2>1. ChunkEnd \in 0 .. BlockLen
    BY <1>1, Chunks
  <2>2. /\ UNCHANGED <<call, calls, cmd, b, quiet, cs, rx, left, got>> /\ pc = "block"
        /\ offs' = ChunkEnd /\ pc' = IF ChunkEnd = BlockLen THEN "crc" ELSE "block"
    BY <1>11 DEF ReadChunk, Goto
  <2>3. Plain'
    BY <1>1, <2>1, <2>2 DEF Plain, Pcs
  <2>4. Control'
    BY <1>3, <1>4, <2>1, <2>2 DEF Control, Commanding
  <2> QED
    BY <2>3, <2>4 DEF PlaceNow
<1>12. CASE CheckCrc
  <2>1. /\ UNCHANGED <<call, calls, quiet, rx, left, got, offs>> /\ pc = "crc"
        /\ call.op = "read" /\ b < Blocks /\ cmd = "read" /\ call.len > 0
    BY <1>12 DEF CheckCrc, Control
  <2>2. \/ pc' = "idle" /\ UNCHANGED <<b, cmd, cs>>
        \/ /\ b' = b + 1 /\ cs' \in BOOLEAN
           /\ \/ b + 1 < Blocks /\ cmd' = "read" /\ pc' = "startToken"
              \/ b + 1 = Blocks /\ Blocks = 1 /\ cmd' = "read" /\ pc' = "released" /\ ~cs'
              \/ b + 1 = Blocks /\ Blocks > 1 /\ cmd' = "CMD12" /\ pc' = "send"
    <3>1. CASE Return("0x21") /\ UNCHANGED <<dst, b, cmd, cs>>
      BY <2>1, <3>1 DEF Return
    <3>2. CASE EndBlock("startToken", "CMD12")
      BY <1>1, <1>2, <2>1, <3>2, Ends
    <3> QED
      BY <1>12, <3>1, <3>2 DEF CheckCrc
  <2>3. Plain'
    BY <1>1, <1>5, <2>1, <2>2 DEF Plain, Pcs
  <2>4. Control'
    BY <1>2, <1>3, <2>1, <2>2 DEF Control, Commanding
  <2> QED
    BY <2>3, <2>4 DEF PlaceNow
<1>13. CASE NextBlock
  <2>1. /\ UNCHANGED <<call, calls, quiet, rx, left, got, offs>> /\ pc = "written"
        /\ call.op = "write" /\ b < Blocks /\ call.len > 0
    BY <1>13 DEF NextBlock, Control
  <2>2. /\ b' = b + 1 /\ cs' \in BOOLEAN
        /\ \/ b + 1 < Blocks /\ cmd' = "write" /\ pc' = "data"
           \/ b + 1 = Blocks /\ Blocks = 1 /\ cmd' = "write" /\ pc' = "released" /\ ~cs'
           \/ b + 1 = Blocks /\ Blocks > 1 /\ cmd' = "stop" /\ pc' = "send"
    <3>1. EndBlock("data", "stop")
      BY <1>13 DEF NextBlock
    <3> QED
      BY <1>1, <1>2, <2>1, <3>1, Ends
  <2>3. Plain'
    BY <1>1, <1>5, <2>1, <2>2 DEF Plain, Pcs
  <2>4. Control'
    BY <1>2, <1>3, <2>1, <2>2 DEF Control, Commanding
  <2> QED
    BY <2>3, <2>4 DEF PlaceNow
<1>14. CASE WriteBlock
  <2>1. PICK s \in DataResponse(card) :
           /\ rx' = s.byte
           /\ IF s.byte % 32 = 5 THEN pc' = "send" /\ cmd' = "none" /\ ret' = ret
                                 ELSE Return("0x22") /\ cmd' = cmd
    BY <1>14 DEF WriteBlock
  <2>2. s.byte \in Int
    BY <1>1, Answering
  <2>3. UNCHANGED <<call, calls, b, offs, got, left, cs, quiet>> /\ pc = "data" /\ call.op = "write" /\ b < Blocks
        /\ call.len > 0
    BY <1>14 DEF WriteBlock, Control
  <2>4. (pc' = "send" /\ cmd' = "none") \/ (pc' = "idle" /\ cmd' = cmd)
    BY <2>1, <2>3 DEF Return
  <2>5. Plain'
    BY <1>1, <1>5, <2>1, <2>2, <2>3, <2>4 DEF Plain, Pcs
  <2>6. Control'
    BY <1>3, <2>3, <2>4 DEF Control, Commanding
  <2> QED
    BY <2>5, <2>6 DEF PlaceNow
<1>15. CASE Done
  <2>1. UNCHANGED <<call, calls, cmd, b, offs, got, left, rx, cs, quiet>> /\ pc' = "idle"
    BY <1>15 DEF Done, Return, driver
  <2>2. Plain'
    BY <1>1, <2>1 DEF Plain, Pcs
  <2>3. Control'
    BY <1>3, <2>1 DEF Control, Commanding
  <2> QED
    BY <2>2, <2>3 DEF PlaceNow
<1>16. CASE UNCHANGED vars
  <2>1. UNCHANGED <<pc, call, calls, cmd, b, offs, got, left, rx, cs, quiet>>
    BY <1>16 DEF vars, driver
  <2> QED
    BY <1>1, <1>3, <2>1 DEF PlaceNow, Plain, Control, Commanding
<1> QED
  BY <1>6, <1>7, <1>8, <1>9, <1>10, <1>11, <1>12, <1>13, <1>14, <1>15, <1>16 DEF Next, Driver

----------------------------------------------------------------------------
(* The card and the driver stay in step.                                   *)

LEMMA Bytes128 == Msb(Free) /\ ~Msb(0) /\ ~Msb(1) /\ ~Msb(64) /\ Unset \notin {0, 1, 64} /\ Free \notin {0, 1, 64, 8, Token}
                  /\ Token # 8
  BY DEF Msb, Free, Unset, Token

(* A poll of a card that owes a response: the idle line, or the response.  *)
LEMMA Responds ==
  ASSUME Typed, Poll, InCall', card.owes \in {0, 1, 64}
  PROVE  /\ card'.mode = card.mode /\ card'.busy = card.busy /\ Keeps(card, card')
         /\ \/ pc' = "poll" /\ card' = card
            \/ /\ pc' = IF cmd \in WithBusy THEN "startBusy" ELSE "answered"
               /\ rx' = card.owes /\ card'.owes = Unset
<1>1. card \in Cards /\ card.owes # Unset
  BY Bytes128 DEF Typed
<1>2. PICK s \in Bytes(card) :
         /\ rx' = s.byte /\ card' = s.card
         /\ IF left' = 0 THEN Return("0x12")
            ELSE pc' = IF Msb(rx') THEN "poll" ELSE IF cmd \in WithBusy THEN "startBusy" ELSE "answered"
  BY DEF Poll, PollOnce
<1>3. pc' = IF Msb(rx') THEN "poll" ELSE IF cmd \in WithBusy THEN "startBusy" ELSE "answered"
  BY <1>2 DEF InCall, Return
<1>4. /\ s.card.mode = card.mode /\ s.card.busy = card.busy /\ Keeps(card, s.card)
      /\ (s.byte = Free /\ s.card = card) \/ (s.byte = card.owes /\ s.card.owes = Unset)
  BY <1>1, Speaking
<1> QED
  BY <1>2, <1>3, <1>4, Bytes128

(* A poll of a card that owes none: it is busy, or the line is idle.       *)
LEMMA Waits ==
  ASSUME Typed, Poll \/ PollBusy, InCall', card.owes = Unset, card.mode \notin {"stream", "stale"}
  PROVE  /\ card'.mode = card.mode /\ card'.owes = Unset /\ Keeps(card, card')
         /\ rx' = (IF card'.busy THEN 0 ELSE Free) /\ (card'.busy => card.busy)
         /\ pc' = IF pc = "busy" THEN IF card'.busy THEN "busy" ELSE "answered"
                  ELSE IF ~card'.busy THEN "poll"
                  ELSE IF cmd \in WithBusy THEN "startBusy" ELSE "answered"
<1>1. card \in Cards
  BY DEF Typed
<1>2. PICK s \in Bytes(card) :
         /\ rx' = s.byte /\ card' = s.card
         /\ pc' = IF pc = "busy" THEN IF rx' = 0 THEN "busy" ELSE "answered"
                  ELSE IF Msb(rx') THEN "poll" ELSE IF cmd \in WithBusy THEN "startBusy" ELSE "answered"
  BY DEF Poll, PollBusy, PollOnce, InCall, Return
<1>3. /\ s.card.mode = card.mode /\ s.card.owes = Unset /\ Keeps(card, s.card) /\ s.card \in Cards
      /\ s.byte = (IF s.card.busy THEN 0 ELSE Free) /\ (s.card.busy => card.busy)
  BY <1>1, Speaking
<1> QED
  BY <1>2, <1>3, Bytes128

(* What the driver sees of the card it sends a command to.                 *)
LEMMA Sends ==
  ASSUME Typed, Send, cmd # "none", ~card.busy, card.mode # "stale",
         card.mode = "recv" => cmd = "stop", card.mode = "stream" => cmd = "CMD12"
  PROVE  /\ pc' = (IF cmd = "CMD12" THEN "stuff" ELSE "poll")
         /\ cmd \notin {"CMD12", "stop"} => ~card'.busy
         /\ cmd \in InitCmds => card'.owes \in {0, 1, 64} /\ card'.mode \in {card.mode, "idle", "ready"}
         /\ cmd \in {"CMD58", "CMD16"} => card'.mode = card.mode
         /\ cmd = "ACMD41" /\ card'.owes = 0 => card'.mode = "ready"
         /\ cmd = "CMD16" /\ card'.owes = 0 => card'.len = BlockLen
         /\ cmd = "CMD12" => card'.mode = "ready" /\ card'.owes = 0
         /\ cmd = "stop" => card'.mode = "ready" /\ card'.owes = card.owes
         /\ cmd \in {"read", "write"} =>
              \/ /\ card'.mode = (IF cmd = "read" THEN "stream" ELSE "recv")
                 /\ card'.owes = 0 /\ card'.many = (Blocks > 1) /\ card'.next = Block
              \/ card'.mode = card.mode /\ card'.owes = 64
<1>1. card \in Cards /\ call \in Calls /\ cmd \in Cmds
  BY DEF Typed
<1>2. card' \in Hears(card) /\ pc' = (IF cmd = "CMD12" THEN "stuff" ELSE "poll")
  BY DEF Send, Goto
<1>3. ~Deaf /\ ~Stale
  BY DEF Deaf, Stale
<1> QED
  BY <1>1, <1>2, <1>3, Hearing

LEMMA InitStays ==
  ASSUME Typed, Control, Driver, InCall, InCall', call.op = "init", InitSync
  PROVE  InitSync'
<1>1. /\ cmd \in InitCmds /\ cmd # "CMD12" /\ cmd \notin WithBusy
      /\ pc \in {"send", "poll", "answered", "released"}
  BY DEF Typed, Control, InCall, InitCmds, WithBusy, Commanding, Pcs
<1>2. CASE Send
  <2>1. pc = "send" /\ cmd' = cmd
    BY <1>2 DEF Send, Goto, driver
  <2>2. AtRest(card) /\ ~card.busy /\ card.owes = Unset /\ (cmd \in {"CMD58", "CMD16"} => card.mode = "ready")
    BY <2>1 DEF InitSync
  <2>3. card.mode \notin {"stale", "recv", "stream"} /\ cmd # "none"
    BY <1>1, <2>2 DEF AtRest, InitCmds
  <2>4. /\ pc' = "poll" /\ ~card'.busy
        /\ card'.owes \in {0, 1, 64} /\ card'.mode \in {card.mode, "idle", "ready"}
        /\ cmd \in {"CMD58", "CMD16"} => card'.mode = card.mode
        /\ cmd = "ACMD41" /\ card'.owes = 0 => card'.mode = "ready"
        /\ cmd = "CMD16" /\ card'.owes = 0 => card'.len = BlockLen
    BY <1>1, <1>2, <2>2, <2>3, Sends DEF InitCmds
  <2> QED
    BY <2>1, <2>2, <2>4 DEF InitSync, AtRest
<1>3. CASE Poll
  <2>1. pc = "poll" /\ cmd' = cmd
    BY <1>3 DEF Poll, driver
  <2>2. card.owes \in {0, 1, 64}
    BY <2>1 DEF InitSync
  <2>3. /\ card'.mode = card.mode /\ card'.busy = card.busy /\ card'.len = card.len
        /\ \/ pc' = "poll" /\ card' = card
           \/ pc' = "answered" /\ rx' = card.owes /\ card'.owes = Unset
    BY <1>1, <1>3, <2>2, Responds DEF Keeps
  <2> QED
    BY <2>1, <2>3 DEF InitSync, AtRest
<1>4. CASE Answered
  <2>1. pc = "answered" /\ pc' = "released" /\ UNCHANGED <<cmd, rx, card>>
    BY <1>1, <1>4 DEF Answered, Goto, driver, InitCmds
  <2> QED
    BY <2>1 DEF InitSync, AtRest
<1>5. CASE Activate
  <2>1. /\ pc = "released" /\ UNCHANGED <<rx, card>> /\ pc' = "send"
        /\ cmd' \in {"CMD8", "CMD55", "ACMD41", "CMD58", "CMD16"}
        /\ cmd' = "CMD58" => cmd = "ACMD41" /\ rx = 0
        /\ cmd' = "CMD16" => cmd = "CMD58"
    BY <1>5 DEF Activate, AfterCmd0, AfterCmd8, AfterCmd55, AfterAcmd41, AfterCmd58, AfterCmd16, InitStep,
                Proceed, Return, InCall
  <2> QED
    BY <2>1 DEF InitSync, AtRest
<1> QED
  BY <1>1, <1>2, <1>3, <1>4, <1>5
    DEF Driver, DropStuff, StartBusy, PollBusy, StartToken, PollToken, ReadChunk, CheckCrc, WriteBlock, NextBlock,
        Done, Goto

LEMMA ReadStays ==
  ASSUME Typed, Control, Driver, InCall, InCall', call.op = "read", ReadSync
  PROVE  ReadSync'
<1>1. Blocks \in Nat /\ Block \in Nat /\ b \in Nat /\ card \in Cards /\ call \in Calls /\ cmd \in Cmds
  BY Counted DEF Typed
<1>2. /\ pc \in {"send", "poll", "answered"} => (cmd = "read" /\ b = 0) \/ (cmd = "CMD12" /\ b = Blocks)
      /\ pc \in {"startBusy", "busy", "stuff"} => cmd = "CMD12"
      /\ pc \in {"startToken", "token", "block", "crc"} => cmd = "read" /\ b < Blocks
      /\ pc \notin {"data", "written"}
  BY DEF Control, Commanding, WithBusy
<1>3. call' = call => Blocks' = Blocks /\ Block' = Block
  BY Steady
<1>4. CASE Send
  <2>1. /\ pc = "send" /\ UNCHANGED <<call, cmd, b>>
        /\ card.owes = Unset /\ ~card.busy
        /\ IF cmd = "read" THEN AtRest(card) ELSE card.mode = "stream"
    BY <1>4 DEF Send, Goto, driver, ReadSync, Clear
  <2>2. CASE cmd = "read"
    <3>1. card.mode \notin {"stale", "recv", "stream"}
      BY <2>1, <2>2 DEF AtRest
    <3>2. /\ pc' = "poll" /\ ~card'.busy
          /\ \/ card'.mode = "stream" /\ card'.owes = 0 /\ card'.many = (Blocks > 1) /\ card'.next = Block
             \/ card'.mode = card.mode /\ card'.owes = 64
      BY <1>4, <2>1, <2>2, <3>1, Sends
    <3>3. b = 0 /\ Block + b = Block
      BY <1>1, <1>2, <2>1, <2>2
    <3> QED
      BY <1>3, <2>1, <2>2, <3>2, <3>3 DEF ReadSync, Heard, Shares, AtRest
  <2>3. CASE cmd = "CMD12"
    <3>1. pc' = "stuff" /\ card'.mode = "ready" /\ card'.owes = 0
      BY <1>4, <2>1, <2>3, Sends
    <3> QED
      BY <2>1, <2>3, <3>1 DEF ReadSync
  <2> QED
    BY <1>2, <2>1, <2>2, <2>3
<1>5. CASE DropStuff
  BY <1>2, <1>5 DEF DropStuff, Goto, driver, ReadSync
<1>6. CASE Poll
  <2>1. pc = "poll" /\ UNCHANGED <<call, cmd, b>>
    BY <1>6 DEF Poll, driver
  <2>2. card.owes \in {0, 1, 64} /\ (cmd = "read" => ~card.busy /\ Heard("stream"))
        /\ (cmd = "CMD12" => card.mode = "ready" /\ card.owes = 0)
    BY <1>2, <2>1 DEF ReadSync
  <2>3. /\ card'.mode = card.mode /\ card'.busy = card.busy /\ card'.many = card.many /\ card'.next = card.next
        /\ \/ pc' = "poll" /\ card' = card
           \/ /\ pc' = IF cmd = "CMD12" THEN "startBusy" ELSE "answered"
              /\ rx' = card.owes /\ card'.owes = Unset
    BY <1>2, <1>6, <2>1, <2>2, Responds DEF Keeps, WithBusy
  <2>4. CASE pc' = "poll" /\ card' = card
    BY <1>3, <2>1, <2>4 DEF ReadSync, Heard, Shares, AtRest
  <2>5. CASE pc' = "answered" /\ cmd = "read" /\ card'.owes = Unset
    BY <1>3, <2>1, <2>2, <2>3, <2>5 DEF ReadSync, Heard, Shares, AtRest, Clear
  <2>6. CASE pc' = "startBusy" /\ cmd = "CMD12" /\ card'.owes = Unset
    BY <2>1, <2>2, <2>3, <2>6 DEF ReadSync
  <2> QED
    BY <1>2, <2>1, <2>3, <2>4, <2>5, <2>6
<1>7. CASE StartBusy
  BY <1>2, <1>7 DEF StartBusy, Goto, driver, ReadSync
<1>8. CASE PollBusy
  <2>1. pc = "busy" /\ UNCHANGED <<call, cmd, b>> /\ cmd = "CMD12"
    BY <1>2, <1>8 DEF PollBusy, driver
  <2>2. card.mode = "ready" /\ card.owes = Unset
    BY <2>1 DEF ReadSync
  <2>3. /\ card'.mode = card.mode /\ card'.owes = Unset
        /\ pc' = IF card'.busy THEN "busy" ELSE "answered"
    BY <1>8, <2>1, <2>2, Waits
  <2> QED
    BY <2>1, <2>2, <2>3 DEF ReadSync, Quiet
<1>9. CASE Answered
  <2>1. /\ pc = "answered" /\ UNCHANGED <<call, cmd, b, card>>
        /\ pc' = IF cmd = "read" THEN "startToken" ELSE "released"
    BY <1>2, <1>9 DEF Answered, Goto, driver
  <2> QED
    BY <1>2, <1>3, <2>1 DEF ReadSync, Heard, Shares, AtRest, Clear, Quiet
<1>10. CASE StartToken
  <2>1. pc = "startToken" /\ pc' = "token" /\ UNCHANGED <<call, cmd, b, card>>
    BY <1>10 DEF StartToken, Goto, driver
  <2> QED
    BY <1>2, <1>3, <2>1 DEF ReadSync, Heard, Shares, AtRest, Clear
<1>11. CASE PollToken
  <2>1. pc = "token" /\ UNCHANGED <<call, cmd, b>> /\ cmd = "read"
    BY <1>2, <1>11 DEF PollToken
  <2>2. PICK s \in Bytes(card) :
           /\ rx' = s.byte /\ card' = s.card
           /\ rx' \in {Free, Token} /\ pc' = IF rx' = Free THEN "token" ELSE "block"
    BY <1>11 DEF PollToken, PollOnce, InCall, Return
  <2>3. card.owes = Unset /\ ~card.busy /\ Heard("stream")
    BY <2>1 DEF ReadSync, Clear
  <2>4. /\ s.card.many = card.many /\ s.card.next = card.next /\ s.card.owes = Unset /\ ~s.card.busy
        /\ card.mode \notin {"stream", "stale"} => s.byte = Free /\ s.card.mode = card.mode
        /\ card.mode = "stream" => s.byte = 8 \/ s.card.mode = "stream"
    BY <1>1, <2>3, Speaking DEF Keeps
  <2>5. s.card.mode = card.mode
    BY <2>2, <2>3, <2>4, Bytes128 DEF Heard, AtRest, Shares
  <2>6. CASE pc' = "token"
    BY <1>3, <2>1, <2>2, <2>3, <2>4, <2>5, <2>6 DEF ReadSync, Heard, Shares, AtRest, Clear
  <2>7. CASE pc' = "block"
    <3>1. Shares("stream", Block + b)
      BY <2>2, <2>3, <2>4, <2>7 DEF Heard, Shares, AtRest
    <3>2. got' \in {card.next, Noise}
      BY <1>11, <2>7 DEF PollToken
    <3> QED
      BY <1>3, <2>1, <2>2, <2>4, <2>5, <2>7, <3>1, <3>2 DEF ReadSync, Shares, Clear
  <2> QED
    BY <2>2, <2>6, <2>7
<1>12. CASE ReadChunk
  <2>1. pc = "block" /\ pc' \in {"block", "crc"} /\ UNCHANGED <<call, cmd, b, card, got>>
    BY <1>12 DEF ReadChunk, Goto
  <2> QED
    BY <1>3, <2>1 DEF ReadSync, Shares, Clear
<1>13. CASE CheckCrc
  <2>1. pc = "crc" /\ UNCHANGED call /\ card' = Advance(card) /\ EndBlock("startToken", "CMD12")
    BY <1>13 DEF CheckCrc, Return, InCall
  <2>2. card.owes = Unset /\ ~card.busy /\ card.mode = "stream" /\ card.next = Block + b /\ card.many = (Blocks > 1)
    BY <2>1 DEF ReadSync, Clear, Shares
  <2>3. /\ card'.mode = (IF card.many THEN "stream" ELSE "ready") /\ card'.next = Block + b + 1
        /\ card'.many = card.many /\ card'.owes = Unset /\ ~card'.busy
    BY <1>1, <2>1, <2>2, Advances
  <2>4. b' = b + 1 /\ b < Blocks
        /\ \/ b + 1 < Blocks /\ cmd' = "read" /\ pc' = "startToken"
           \/ b + 1 = Blocks /\ Blocks = 1 /\ cmd' = "read" /\ pc' = "released"
           \/ b + 1 = Blocks /\ Blocks > 1 /\ cmd' = "CMD12" /\ pc' = "send"
    BY <1>1, <1>2, <2>1, Ends
  <2>5. CASE pc' = "startToken"
    <3>1. Blocks > 1 /\ Block + (b + 1) = Block + b + 1
      BY <1>1, <2>4, <2>5
    <3>2. card.many
      BY <2>2, <3>1, Zenon
    <3> QED
      BY <1>3, <2>1, <2>2, <2>3, <2>4, <2>5, <3>1, <3>2 DEF ReadSync, Heard, Shares, Clear
  <2>6. CASE pc' = "released"
    <3>1. ~(Blocks > 1)
      BY <2>4, <2>6
    <3>2. ~card.many
      BY <2>2, <3>1, Zenon
    <3> QED
      BY <2>3, <2>6, <3>2 DEF ReadSync, Quiet
  <2>7. CASE pc' = "send"
    <3>1. card.many /\ cmd' = "CMD12"
      BY <2>2, <2>4, <2>7
    <3> QED
      BY <2>3, <2>7, <3>1 DEF ReadSync, Clear
  <2> QED
    BY <2>4, <2>5, <2>6, <2>7
<1>14. CASE Activate \/ WriteBlock \/ NextBlock
  BY <1>2, <1>14 DEF Activate, AfterCmd0, AfterCmd8, AfterCmd55, AfterAcmd41, AfterCmd58, AfterCmd16, InitStep,
                     WriteBlock, NextBlock
<1>15. ~Done
  BY DEF Done, Return, InCall
<1> QED
  BY <1>4, <1>5, <1>6, <1>7, <1>8, <1>9, <1>10, <1>11, <1>12, <1>13, <1>14, <1>15 DEF Driver

LEMMA WriteStays ==
  ASSUME Typed, Control, Driver, InCall, InCall', call.op = "write", WriteSync
  PROVE  WriteSync'
<1>1. Blocks \in Nat /\ Block \in Nat /\ b \in Nat /\ card \in Cards /\ call \in Calls /\ cmd \in Cmds
  BY Counted DEF Typed
<1>2. /\ pc \in {"send", "poll", "answered"} =>
           (cmd = "write" /\ b = 0) \/ (cmd = "none" /\ b < Blocks) \/ (cmd = "stop" /\ b = Blocks)
      /\ pc \in {"startBusy", "busy"} => cmd \in {"none", "stop"}
      /\ pc \notin {"stuff", "startToken", "token", "block", "crc"}
      /\ pc = "data" => cmd = "write" /\ b < Blocks
      /\ pc = "written" => cmd = "none" /\ b < Blocks
  BY DEF Control, Commanding, WithBusy
<1>3. call' = call => Blocks' = Blocks /\ Block' = Block
  BY Steady
<1>4. CASE Send
  <2>1. pc = "send" /\ UNCHANGED <<call, cmd, b>>
    BY <1>4 DEF Send, Goto, driver
  <2>2. CASE cmd = "write"
    <3>1. card.owes = Unset /\ ~card.busy /\ AtRest(card) /\ card.mode \notin {"stale", "recv", "stream"}
      BY <2>1, <2>2 DEF WriteSync, AtRest
    <3>2. /\ pc' = "poll" /\ ~card'.busy
          /\ \/ card'.mode = "recv" /\ card'.owes = 0 /\ card'.many = (Blocks > 1) /\ card'.next = Block
             \/ card'.mode = card.mode /\ card'.owes = 64
      BY <1>4, <2>2, <3>1, Sends
    <3>3. b = 0 /\ Block + b = Block
      BY <1>1, <1>2, <2>1, <2>2
    <3> QED
      BY <1>3, <2>1, <2>2, <3>1, <3>2, <3>3 DEF WriteSync, Heard, Shares, AtRest
  <2>3. CASE cmd = "none"
    <3>1. Deaf /\ card' \in Hears(card) /\ pc' = "poll"
      BY <1>4, <2>3 DEF Deaf, Send, Goto
    <3>2. card' = card
      BY <1>1, <3>1, Hearing
    <3>3. card.owes = Unset /\ Taken
      BY <2>1, <2>3 DEF WriteSync
    <3> QED
      BY <1>3, <2>1, <2>3, <3>1, <3>2, <3>3 DEF WriteSync, Taken, Shares
  <2>4. CASE cmd = "stop"
    <3>1. card.owes = Unset /\ card.mode = "recv" /\ ~card.busy
      BY <2>1, <2>4 DEF WriteSync
    <3>2. pc' = "poll" /\ card'.mode = "ready" /\ card'.owes = Unset
      BY <1>4, <2>4, <3>1, Sends
    <3> QED
      BY <2>1, <2>4, <3>2 DEF WriteSync
  <2> QED
    BY <1>2, <2>1, <2>2, <2>3, <2>4
<1>5. CASE Poll /\ cmd = "write"
  <2>1. pc = "poll" /\ UNCHANGED <<call, cmd, b>>
    BY <1>5 DEF Poll, driver
  <2>2. card.owes \in {0, 1, 64} /\ ~card.busy /\ Heard("recv")
    BY <1>5, <2>1 DEF WriteSync
  <2>3. /\ card'.mode = card.mode /\ card'.busy = card.busy /\ card'.many = card.many /\ card'.next = card.next
        /\ \/ pc' = "poll" /\ card' = card
           \/ pc' = "answered" /\ card'.owes = Unset
    BY <1>5, <2>1, <2>2, Responds DEF Keeps, WithBusy
  <2>4. CASE pc' = "poll" /\ card' = card
    BY <1>3, <1>5, <2>1, <2>4 DEF WriteSync, Heard, Shares, AtRest
  <2>5. CASE pc' = "answered" /\ card'.owes = Unset
    BY <1>3, <1>5, <2>1, <2>2, <2>3, <2>5 DEF WriteSync, Heard, Shares, AtRest, Clear
  <2> QED
    BY <2>3, <2>4, <2>5
<1>6. CASE (Poll /\ cmd # "write") \/ PollBusy
  <2>1. pc \in {"poll", "busy"} /\ UNCHANGED <<call, cmd, b>> /\ cmd \in {"none", "stop"}
    BY <1>2, <1>6 DEF Poll, PollBusy, driver
  <2>2. card.owes = Unset /\ IF cmd = "none" THEN Taken ELSE card.mode = "ready"
    BY <2>1 DEF WriteSync
  <2>3. card.mode \in {"recv", "ready"}
    BY <2>2 DEF Taken, Shares
  <2>4. /\ card'.mode = card.mode /\ card'.owes = Unset /\ card'.many = card.many /\ card'.next = card.next
        /\ pc' = IF pc = "busy" THEN IF card'.busy THEN "busy" ELSE "answered"
                 ELSE IF ~card'.busy THEN "poll" ELSE "startBusy"
    BY <1>6, <2>1, <2>2, <2>3, Waits DEF Keeps, WithBusy
  <2>5. IF cmd' = "none" THEN Taken' ELSE card'.mode = "ready"
    BY <1>3, <2>1, <2>2, <2>4 DEF Taken, Shares
  <2> QED
    BY <2>1, <2>4, <2>5 DEF WriteSync
<1>7. CASE StartBusy
  <2>1. pc = "startBusy" /\ pc' = "busy" /\ UNCHANGED <<call, cmd, b, card>> /\ cmd \in {"none", "stop"}
    BY <1>2, <1>7 DEF StartBusy, Goto, driver
  <2> QED
    BY <1>3, <2>1 DEF WriteSync, Taken, Shares
<1>8. CASE Answered
  <2>1. /\ pc = "answered" /\ UNCHANGED <<call, cmd, b, card>>
        /\ pc' = IF cmd = "write" THEN "data" ELSE IF cmd = "none" THEN "written" ELSE "released"
    BY <1>2, <1>8 DEF Answered, Goto, driver
  <2>2. CASE cmd = "write"
    BY <1>3, <2>1, <2>2 DEF WriteSync, Heard, Shares, AtRest, Clear
  <2>3. CASE cmd = "none"
    BY <1>3, <2>1, <2>3 DEF WriteSync, Taken, Shares
  <2>4. CASE cmd = "stop"
    BY <2>1, <2>4 DEF WriteSync, Quiet
  <2> QED
    BY <1>2, <2>1, <2>2, <2>3, <2>4
<1>9. CASE WriteBlock
  <2>1. pc = "data" /\ UNCHANGED <<call, b>>
    BY <1>9 DEF WriteBlock
  <2>2. PICK s \in DataResponse(card) :
           /\ rx' = s.byte
           /\ IF s.byte = 229 /\ card.mode = "recv" THEN card' = Advance(s.card) ELSE card' = s.card
           /\ s.byte % 32 = 5 /\ pc' = "send" /\ cmd' = "none"
    BY <1>9 DEF WriteBlock, InCall, Return
  <2>3. card.owes = Unset /\ ~card.busy /\ Heard("recv")
    BY <1>2, <2>1 DEF WriteSync, Clear
  <2>4. card.mode \notin {"recv", "stale"} => s.byte \in {0, Free}
    BY <1>1, Answering
  <2>5. Shares("recv", Block + b)
    BY <2>2, <2>3, <2>4, Remainders DEF Heard, AtRest, Free
  <2>6. s.byte = 229 /\ s.card.mode = "recv" /\ s.card \in Cards /\ Keeps(card, s.card) /\ s.card.owes = Unset
    BY <1>1, <2>2, <2>3, <2>5, Answering, Remainders DEF Shares
  <2>7. card' = Advance(s.card)
    BY <2>2, <2>5, <2>6 DEF Shares
  <2>8. /\ card'.mode = (IF card.many THEN "recv" ELSE "ready") /\ card'.next = Block + b + 1
        /\ card'.many = (Blocks > 1) /\ card'.owes = Unset /\ card.many = (Blocks > 1)
    BY <2>5, <2>6, <2>7, Advances DEF Keeps, Shares
  <2>9. CASE Blocks > 1
    <3>1. card.many
      BY <2>8, <2>9, Zenon
    <3> QED
      BY <1>3, <2>1, <2>2, <2>8, <2>9, <3>1 DEF WriteSync, Taken, Shares
  <2>10. CASE ~(Blocks > 1)
    <3>1. ~card.many
      BY <2>8, <2>10, Zenon
    <3> QED
      BY <1>3, <2>1, <2>2, <2>8, <2>10, <3>1 DEF WriteSync, Taken, Shares
  <2> QED
    BY <2>9, <2>10
<1>10. CASE NextBlock
  <2>1. pc = "written" /\ UNCHANGED <<call, card>> /\ EndBlock("data", "stop") /\ cmd = "none" /\ b < Blocks
    BY <1>2, <1>10 DEF NextBlock
  <2>2. card.owes = Unset /\ ~card.busy /\ Taken
    BY <2>1 DEF WriteSync
  <2>3. b' = b + 1
        /\ \/ b + 1 < Blocks /\ cmd' = "write" /\ pc' = "data"
           \/ b + 1 = Blocks /\ Blocks = 1 /\ cmd' = "write" /\ pc' = "released"
           \/ b + 1 = Blocks /\ Blocks > 1 /\ cmd' = "stop" /\ pc' = "send"
    BY <1>1, <2>1, Ends
  <2>4. CASE pc' = "data"
    <3>1. Blocks > 1 /\ Block + (b + 1) = Block + b + 1
      BY <1>1, <2>3, <2>4
    <3> QED
      BY <1>3, <2>1, <2>2, <2>3, <2>4, <3>1 DEF WriteSync, Heard, Shares, Clear, Taken
  <2>5. CASE pc' = "released"
    <3>1. ~(Blocks > 1)
      BY <2>3, <2>5
    <3> QED
      BY <2>1, <2>2, <2>5, <3>1 DEF WriteSync, Quiet, Taken
  <2>6. CASE pc' = "send"
    BY <2>1, <2>2, <2>3, <2>6 DEF WriteSync, Taken, Shares
  <2> QED
    BY <2>3, <2>4, <2>5, <2>6
<1>11. ~Done
  BY DEF Done, Return, InCall
<1> QED
  BY <1>2, <1>4, <1>5, <1>6, <1>7, <1>8, <1>9, <1>10, <1>11
    DEF Driver, Activate, AfterCmd0, AfterCmd8, AfterCmd55, AfterAcmd41, AfterCmd58, AfterCmd16, InitStep,
        DropStuff, StartToken, PollToken, ReadChunk, CheckCrc, Goto

----------------------------------------------------------------------------
(* The caller's buffer.                                                    *)

(* The byte of the block in transfer that offset k asks for.               *)
Source(k) == k + FirstOffs - BlockLen * b

LEMMA Sources ==
  ASSUME Typed, Transferring
  PROVE  /\ \A k \in Offsets : Source(k) \in Int /\ Place(Source(k)) = k /\ k \in Int
         /\ BlockLen * b \in Nat /\ FirstOffs \in Nat /\ BlockLen \in Nat
<1>1. BlockLen * b \in Nat /\ FirstOffs \in Nat /\ BlockLen \in Nat /\ MaxSpan \in Nat
  BY Mine, Constants
<1>2. \A k \in Offsets : k \in Int
  BY <1>1 DEF Offsets
<1> QED
  BY <1>1, <1>2 DEF Source, Place

LEMMA StoredAt ==
  ASSUME Typed, Transferring, NEW from \in 0 .. BlockLen, NEW to \in 0 .. BlockLen, NEW k \in Offsets
  PROVE  Stored(from, to)[k] = IF Source(k) \in from .. to - 1 THEN Byte(Source(k)) ELSE dst[k]
<1>1. dst \in [Offsets -> Int] /\ got \in Int
  BY DEF Typed
<1>2. \A i \in Offsets :
        LET j == i + FirstOffs - BlockLen * b
        IN  Stored(from, to)[i] = IF j \in from .. to - 1 THEN Byte(j) ELSE dst[i]
  BY <1>1, Storing, Zenon
<1> QED
  BY <1>2, Zenon DEF Source

(* Only what was asked for of a block is stored.                           *)
LEMMA StoredMine ==
  ASSUME Typed, Transferring, NEW from \in 0 .. BlockLen, NEW to \in 0 .. BlockLen,
         PartLo <= from, to <= PartHi, NEW k \in Offsets, Stored(from, to)[k] # dst[k]
  PROVE  k \in 0 .. call.len - 1
<1>1. Source(k) \in from .. to - 1 /\ Source(k) \in Int /\ Place(Source(k)) = k
  BY StoredAt, Sources
<1>2. PartLo \in 0 .. BlockLen /\ PartHi \in 0 .. BlockLen
  BY Mine
<1>3. Source(k) \in 0 .. BlockLen - 1 /\ Source(k) \in PartLo .. PartHi - 1
  BY <1>1, <1>2, Constants
<1>4. \A j \in 0 .. BlockLen - 1 : j \in PartLo .. PartHi - 1 => Place(j) \in 0 .. call.len - 1
  BY Mine
<1> QED
  BY <1>1, <1>3, <1>4, Zenon

LEMMA WholeBlock == Transferring /\ ~FirstPart /\ ~LastPart => PartLo = 0 /\ PartHi = BlockLen
<1> SUFFICES ASSUME Transferring, ~FirstPart, ~LastPart PROVE PartLo = 0 /\ PartHi = BlockLen
  OBVIOUS
<1> QED
  BY Swapping

(* What a block adds to the buffer.                                        *)
LEMMA Adds ==
  ASSUME Typed, Control, ReadChunk \/ (CheckCrc /\ got # Noise)
  PROVE  /\ Transferring /\ call' = call
         /\ \/ dst' = dst
            \/ \E from \in 0 .. BlockLen, to \in 0 .. BlockLen :
                 PartLo <= from /\ to <= PartHi /\ dst' = Stored(from, to)
<1>1. Transferring /\ offs \in 0 .. BlockLen
  BY InTransfer DEF ReadChunk, CheckCrc, Goto, Typed
<1>2. PartLo \in 0 .. BlockLen /\ PartHi \in 0 .. BlockLen
  BY <1>1, Mine
<1>3. CASE ReadChunk
  <2>1. ChunkEnd \in 0 .. BlockLen
    BY <1>1, Chunks
  <2>2. call' = call /\ dst' = IF FirstPart \/ LastPart THEN dst ELSE Stored(offs, ChunkEnd)
    BY <1>3 DEF ReadChunk
  <2>3. ~FirstPart /\ ~LastPart => PartLo <= offs /\ ChunkEnd <= PartHi
    BY <1>1, <2>1, WholeBlock, Constants
  <2> QED
    BY <1>1, <2>1, <2>2, <2>3
<1>4. CASE CheckCrc /\ got # Noise
  <2>1. call' = call /\ dst' = Swap
    BY <1>4 DEF CheckCrc
  <2>2. dst' = dst \/ dst' = Stored(PartLo, PartHi)
    BY <1>1, <2>1, Swapping
  <2>3. PartLo <= PartLo /\ PartHi <= PartHi
    BY <1>2
  <2> QED
    BY <1>1, <1>2, <2>1, <2>2, <2>3
<1> QED
  BY <1>3, <1>4

(* Nothing else changes it within a call.                                  *)
LEMMA Leaves ==
  ASSUME [Next]_vars, ~Call, ~ReadChunk, ~(CheckCrc /\ got # Noise)
  PROVE  call' = call /\ dst' = dst
  BY DEF Next, Driver, Send, DropStuff, Poll, StartBusy, PollBusy, Answered, Activate, AfterCmd0, AfterCmd8,
         AfterCmd55, AfterAcmd41, AfterCmd58, AfterCmd16, InitStep, StartToken, PollToken, CheckCrc, WriteBlock,
         NextBlock, Done, driver, vars

LEMMA ConfinedStep == Typed /\ Control /\ Confined /\ [Next]_vars => Confined'
<1> SUFFICES ASSUME Typed, Control, Confined, [Next]_vars
             PROVE  Confined'
  OBVIOUS
<1>1. CASE Call
  BY <1>1 DEF Call, Confined
<1>2. CASE ReadChunk \/ (CheckCrc /\ got # Noise)
  <2>1. Transferring /\ call' = call
    BY <1>2, Adds
  <2>2. CASE dst' = dst
    BY <2>1, <2>2 DEF Confined
  <2>3. CASE dst' # dst
    <3>1. PICK from \in 0 .. BlockLen, to \in 0 .. BlockLen :
             PartLo <= from /\ to <= PartHi /\ dst' = Stored(from, to)
      BY <1>2, <2>3, Adds, Zenon
    <3>2. \A k \in Offsets : dst'[k] # dst[k] => k \in 0 .. call.len - 1
      BY <2>1, <3>1, StoredMine, Zenon
    <3> QED
      BY <2>1, <3>2 DEF Confined
  <2> QED
    BY <2>2, <2>3
<1>3. CASE ~Call /\ ~ReadChunk /\ ~(CheckCrc /\ got # Noise)
  BY <1>3, Leaves DEF Confined
<1> QED
  BY <1>1, <1>2, <1>3

LEMMA Times == \A B, x \in Nat : B * x \in Nat
  OBVIOUS

(* A byte of the right block is the byte that its place asks for.          *)
LEMMA Told ==
  ASSUME Typed, Transferring, got = Block + b, NEW k \in Offsets
  PROVE  Byte(Source(k)) = call.addr + k
<1>1. /\ call.addr = BlockLen * Block + FirstOffs /\ Block \in Nat /\ b \in Nat /\ BlockLen \in Nat /\ FirstOffs \in Nat
  BY Cutting, Constants DEF Transferring
<1>2. got # Noise
  BY <1>1 DEF Noise
<1>3. BlockLen * (Block + b) = BlockLen * Block + BlockLen * b /\ BlockLen * Block \in Nat /\ BlockLen * b \in Nat
  BY <1>1, Times
<1>4. k \in Int
  BY Sources
<1>5. Byte(Source(k)) = BlockLen * (Block + b) + (k + FirstOffs - BlockLen * b)
  BY <1>2 DEF Byte, Source
<1> QED
  BY <1>1, <1>3, <1>4, <1>5

LEMMA FilledStep ==
  ASSUME Typed, Control, Driver, InCall, InCall', call.op = "read", ReadSync, Filled
  PROVE  Filled'
<1> DEFINE m == BlockLen * b
           Wanted(k) == k \in 0 .. call.len - 1
<1>1. /\ Blocks \in Nat /\ Block \in Nat /\ FirstOffs \in Nat /\ b \in Nat /\ call \in Calls /\ offs \in 0 .. BlockLen
      /\ BlockLen \in Nat \ {0}
  BY Counted, Constants DEF Typed
<1>2. call' = call => FirstOffs' = FirstOffs /\ PteOffs' = PteOffs /\ LastLen' = LastLen
                      /\ Blocks' = Blocks /\ Block' = Block
  BY Steady
<1>3. CASE ReadChunk
  <2>1. /\ pc = "block" /\ UNCHANGED <<call, b, got>> /\ offs' = ChunkEnd
        /\ dst' = IF FirstPart \/ LastPart THEN dst ELSE Stored(offs, ChunkEnd)
    BY <1>3 DEF ReadChunk, Goto
  <2>2. Transferring
    BY <2>1, InTransfer
  <2>3. /\ \A k \in Offsets : Source(k) \in Int /\ k \in Int /\ Source(k) = k + FirstOffs - m
        /\ m \in Nat /\ ChunkEnd \in 0 .. BlockLen
    BY <1>1, <2>2, Sources, Chunks DEF Source
  <2>4. (FirstPart \/ LastPart)' = (FirstPart \/ LastPart)
    BY <1>2, <2>1 DEF FirstPart, LastPart
  <2>5. CASE FirstPart \/ LastPart
    BY <1>2, <2>1, <2>4, <2>5 DEF Filled
  <2>6. CASE ~FirstPart /\ ~LastPart
    <3>1. \A k \in Offsets : dst'[k] = IF Source(k) \in offs .. ChunkEnd - 1 THEN Byte(Source(k)) ELSE dst[k]
      BY <1>1, <2>1, <2>2, <2>3, <2>6, StoredAt, Zenon
    <3>2. ASSUME NEW k \in Offsets, Wanted(k), k < m - FirstOffs
          PROVE  dst'[k] = call.addr + k
      <4>1. Source(k) \notin offs .. ChunkEnd - 1
        BY <1>1, <2>3, <3>2
      <4>2. dst[k] = call.addr + k
        BY <3>2 DEF Filled
      <4> QED
        BY <3>1, <4>1, <4>2
    <3>3. ASSUME NEW k \in Offsets, Wanted(k), got # Noise, k < m - FirstOffs + ChunkEnd
          PROVE  dst'[k] = call.addr + k
      <4>1. CASE Source(k) \in offs .. ChunkEnd - 1
        <5>1. dst'[k] = Byte(Source(k))
          BY <3>1, <4>1
        <5>2. got = Block + b
          BY <2>1, <3>3 DEF ReadSync
        <5>3. Byte(Source(k)) = call.addr + k
          BY <1>1, <2>2, <3>3, <5>2, Told, Zenon
        <5> QED
          BY <5>1, <5>3
      <4>2. CASE Source(k) \notin offs .. ChunkEnd - 1
        <5>1. k < m - FirstOffs + offs
          BY <1>1, <2>3, <3>3, <4>2
        <5>2. dst[k] = call.addr + k
          BY <2>1, <2>6, <3>3, <5>1 DEF Filled
        <5> QED
          BY <3>1, <4>2, <5>2
      <4> QED
        BY <4>1, <4>2
    <3> QED
      BY <1>2, <2>1, <3>2, <3>3 DEF Filled
  <2> QED
    BY <2>5, <2>6
<1>4. CASE CheckCrc
  <2>1. /\ pc = "crc" /\ UNCHANGED call /\ got # Noise /\ dst' = Swap /\ b' = b + 1
        /\ pc' \in {"startToken", "released", "send"}
    BY <1>4 DEF CheckCrc, InCall, Return, EndBlock
  <2>2. Transferring
    BY <2>1, InTransfer
  <2>3. /\ \A k \in Offsets : Source(k) \in Int /\ k \in Int /\ Source(k) = k + FirstOffs - m
        /\ m \in Nat /\ BlockLen * b' = m + BlockLen /\ PartLo \in 0 .. BlockLen /\ PartHi \in 0 .. BlockLen
    BY <1>1, <2>1, <2>2, Sources, Mine DEF Source
  <2>4. got = Block + b
    BY <2>1 DEF ReadSync
  <2>5. ASSUME NEW k \in Offsets, Wanted(k), k < m + BlockLen - FirstOffs
        PROVE  dst'[k] = call.addr + k
    <3>1. CASE ~FirstPart /\ ~LastPart
      <4>1. dst' = dst
        BY <2>1, <2>2, <3>1, Swapping
      <4>2. offs = BlockLen
        BY <2>1 DEF Control
      <4>3. k < m - FirstOffs + offs
        BY <1>1, <2>3, <2>5, <4>2
      <4>4. dst[k] = call.addr + k
        BY <2>1, <2>5, <3>1, <4>3 DEF Filled
      <4> QED
        BY <4>1, <4>4
    <3>2. CASE FirstPart \/ LastPart
      <4>1. dst'[k] = IF Source(k) \in PartLo .. PartHi - 1 THEN Byte(Source(k)) ELSE dst[k]
        <5>1. dst' = Stored(PartLo, PartHi)
          BY <2>1, <2>2, <3>2, Swapping
        <5>2. Stored(PartLo, PartHi)[k] = IF Source(k) \in PartLo .. PartHi - 1 THEN Byte(Source(k)) ELSE dst[k]
          BY <2>2, <2>3, StoredAt, Zenon
        <5> QED
          BY <5>1, <5>2, Zenon
      <4>2. CASE Source(k) < 0
        <5>1. Source(k) \notin PartLo .. PartHi - 1 /\ k < m - FirstOffs
          BY <1>1, <2>3, <4>2
        <5>2. dst[k] = call.addr + k
          BY <2>5, <5>1 DEF Filled
        <5> QED
          BY <4>1, <5>1, <5>2
      <4>3. CASE Source(k) >= 0
        <5>1. Source(k) \in 0 .. BlockLen - 1
          BY <1>1, <2>3, <2>5, <4>3
        <5>2. Place(Source(k)) = k
          BY <2>2, Sources
        <5>3. Source(k) \in PartLo .. PartHi - 1
          BY <2>2, <2>5, <5>1, <5>2, Mine, Zenon
        <5>4. Byte(Source(k)) = call.addr + k
          BY <1>1, <2>1, <2>2, <2>4, Told, Zenon
        <5> QED
          BY <4>1, <5>3, <5>4
      <4> QED
        BY <2>3, <4>2, <4>3
    <3> QED
      BY <3>1, <3>2
  <2>6. \A k \in Offsets : k \in 0 .. call.len - 1 /\ k < BlockLen * b' - FirstOffs => dst'[k] = call.addr + k
    BY <1>1, <2>3, <2>5
  <2> QED
    BY <1>2, <2>1, <2>6 DEF Filled
<1>5. CASE ~ReadChunk /\ ~CheckCrc
  <2>1. call' = call /\ dst' = dst /\ b' = b
    BY <1>5 DEF Driver, Send, DropStuff, Poll, StartBusy, PollBusy, Answered, Activate, AfterCmd0, AfterCmd8,
                AfterCmd55, AfterAcmd41, AfterCmd58, AfterCmd16, InitStep, StartToken, PollToken, WriteBlock,
                NextBlock, Done, driver, Control, Return, InCall
  <2>2. pc' = "crc" => FALSE
    BY <1>5 DEF Driver, Send, DropStuff, Poll, StartBusy, PollBusy, PollOnce, Answered, Activate, AfterCmd0, AfterCmd8,
                AfterCmd55, AfterAcmd41, AfterCmd58, AfterCmd16, InitStep, StartToken, PollToken, WriteBlock,
                NextBlock, Done, driver, Control, Return, InCall, Goto, Proceed, EndBlock
  <2>3. pc' = "block" => offs' = 0
    BY <1>5 DEF Driver, Send, DropStuff, Poll, StartBusy, PollBusy, PollOnce, Answered, Activate, AfterCmd0, AfterCmd8,
                AfterCmd55, AfterAcmd41, AfterCmd58, AfterCmd16, InitStep, StartToken, PollToken, WriteBlock,
                NextBlock, Done, driver, Control, Return, InCall, Goto, Proceed, EndBlock
  <2>4. m \in Nat /\ m - FirstOffs + 0 = m - FirstOffs
    <3>1. m \in Nat
      BY <1>1, Times
    <3> QED
      BY <1>1, <3>1
  <2>5. \A k \in Offsets : k \in 0 .. call.len - 1 /\ k < BlockLen * b - FirstOffs => dst[k] = call.addr + k
    BY DEF Filled
  <2> QED
    BY <1>2, <2>1, <2>2, <2>3, <2>4, <2>5 DEF Filled
<1> QED
  BY <1>3, <1>4, <1>5

----------------------------------------------------------------------------
(* The disk.                                                               *)

LEMMA OnDiskStep ==
  ASSUME Typed, Control, Driver, InCall, InCall', call.op = "write", WriteSync, OnDisk
  PROVE  OnDisk'
<1>1. /\ Blocks \in Nat /\ Block \in Nat /\ b \in Nat /\ card \in Cards /\ call \in Calls
      /\ disk \in [0 .. MaxSpan -> Int]
  BY Counted DEF Typed
<1>2. call' = call => Blocks' = Blocks /\ Block' = Block
  BY Steady
<1>3. CASE WriteBlock
  <2>1. pc = "data" /\ cmd = "write" /\ UNCHANGED <<call, b>>
    BY <1>3 DEF WriteBlock, Control
  <2>2. PICK s \in DataResponse(card) :
           /\ IF s.byte = 229 /\ card.mode = "recv" THEN disk' = [disk EXCEPT ![card.next] = b] ELSE disk' = disk
           /\ s.byte % 32 = 5 /\ pc' = "send" /\ cmd' = "none"
    BY <1>3 DEF WriteBlock, InCall, Return
  <2>3. card.mode \notin {"recv", "stale"} => s.byte \in {0, Free}
    BY <1>1, Answering
  <2>4. Heard("recv")
    BY <2>1 DEF WriteSync
  <2>5. card.mode = "recv" /\ card.next = Block + b
    BY <2>2, <2>3, <2>4, Remainders DEF Heard, AtRest, Free, Shares
  <2>6. s.byte = 229
    BY <1>1, <2>2, <2>5, Answering, Remainders
  <2>7. disk' = [disk EXCEPT ![Block + b] = b]
    BY <2>2, <2>5, <2>6
  <2>8. \A n \in 0 .. MaxSpan : disk[n] = IF n \in Block .. Block + b - 1 THEN n - Block ELSE Unset
    BY <2>1 DEF OnDisk, Landed
  <2>9. \A n \in 0 .. MaxSpan : disk'[n] = IF n \in Block .. Block + (b + 1) - 1 THEN n - Block ELSE Unset
    <3>1. SUFFICES ASSUME NEW n \in 0 .. MaxSpan
                   PROVE  disk'[n] = IF n \in Block .. Block + (b + 1) - 1 THEN n - Block ELSE Unset
      OBVIOUS
    <3>2. n \in Int
      BY Constants
    <3>3. CASE n = Block + b
      BY <1>1, <2>7, <3>3
    <3>4. CASE n # Block + b
      <4>1. disk'[n] = disk[n]
        BY <1>1, <2>7, <3>4
      <4>2. n \in Block .. Block + (b + 1) - 1 <=> n \in Block .. Block + b - 1
        BY <1>1, <3>2, <3>4
      <4> QED
        BY <2>8, <4>1, <4>2
    <3> QED
      BY <3>3, <3>4
  <2> QED
    BY <1>2, <2>1, <2>2, <2>9 DEF OnDisk, Landed
<1>4. CASE NextBlock
  <2>1. pc = "written" /\ UNCHANGED <<call, disk>> /\ EndBlock("data", "stop") /\ cmd = "none" /\ b < Blocks
    BY <1>4 DEF NextBlock, Control
  <2>2. b' = b + 1 /\ cmd' \in {"write", "stop"}
    BY <1>1, <2>1, Ends
  <2> QED
    BY <1>2, <2>1, <2>2 DEF OnDisk, Landed
<1>5. CASE ~WriteBlock /\ ~NextBlock
  <2>1. UNCHANGED <<call, cmd, b, disk>>
    BY <1>5 DEF Driver, Send, DropStuff, Poll, StartBusy, PollBusy, Answered, Activate, AfterCmd0, AfterCmd8,
                AfterCmd55, AfterAcmd41, AfterCmd58, AfterCmd16, InitStep, StartToken, PollToken, ReadChunk, CheckCrc,
                Done, driver, Control, Goto
  <2> QED
    BY <1>2, <2>1 DEF OnDisk, Landed
<1> QED
  BY <1>3, <1>4, <1>5

----------------------------------------------------------------------------
(* The whole invariant.                                                    *)

LEMMA Begins ==
  ASSUME Typed, Call, InCall', quiet'
  PROVE  /\ call'.op = "init"  => InitSync'
         /\ call'.op = "read"  => ReadSync' /\ Filled'
         /\ call'.op = "write" => WriteSync' /\ OnDisk'
<1>1. PICK r \in Requests : /\ call' = r /\ cmd' = First(r.op)
                            /\ IF r.len = 0 THEN pc' = pc /\ ret' = "ok" ELSE pc' = "send"
                            /\ pc = "idle" \/ (pc = "down" /\ r.op = "init")
  BY DEF Call
<1>2. /\ b' = 0 /\ card' = card /\ Quiet(card)
      /\ dst' = [i \in Offsets |-> Unset] /\ disk' = [n \in DOMAIN disk |-> Unset]
  BY DEF Call
<1>3. pc' = "send" /\ call' \in Calls
  BY <1>1, RequestAssumption DEF InCall, Calls
<1>4. card'.mode \in {"off", "idle", "ready"} /\ ~card'.busy /\ card'.owes = Unset
  BY <1>2 DEF Quiet
<1>5. Block' \in Nat /\ FirstOffs' \in Nat
  <2>1. (call \in Calls)' => (Blocks \in Nat /\ Block \in Nat /\ FirstOffs \in Nat)'
    BY Counted, PTL
  <2> QED
    BY <1>3, <2>1
<1>6. call'.op = "init" => InitSync'
  BY <1>1, <1>3, <1>4 DEF InitSync, AtRest, First
<1>7. call'.op = "read" => ReadSync'
  BY <1>1, <1>3, <1>4 DEF ReadSync, AtRest, Clear, First
<1>8. call'.op = "read" => Filled'
  <2>1. BlockLen * b' = 0
    BY <1>2, Constants
  <2>2. \A k \in Offsets : ~(k \in 0 .. call'.len - 1 /\ k < BlockLen * b' - FirstOffs')
    BY <1>5, <2>1, Constants DEF Offsets
  <2> QED
    BY <1>3, <2>2 DEF Filled
<1>9. call'.op = "write" => WriteSync'
  BY <1>1, <1>3, <1>4 DEF WriteSync, AtRest, First
<1>10. call'.op = "write" => OnDisk'
  <2>1. call'.op = "write" => cmd' = "write"
    BY <1>1 DEF First
  <2>2. \A n \in 0 .. MaxSpan : disk'[n] = Unset /\ n \notin Block' .. Block' + 0 - 1
    <3>1. disk \in [0 .. MaxSpan -> Int]
      BY DEF Typed
    <3>2. \A n \in 0 .. MaxSpan : disk'[n] = Unset
      BY <1>2, <3>1
    <3>3. \A n \in 0 .. MaxSpan : n \notin Block' .. Block' + 0 - 1
      <4>1. \A k, n \in Nat : n \notin k .. k + 0 - 1
        OBVIOUS
      <4>2. \A n \in 0 .. MaxSpan : n \in Nat
        BY Constants
      <4> QED
        BY <1>5, <4>1, <4>2, Zenon
    <3> QED
      BY <3>2, <3>3
  <2> QED
    BY <1>2, <2>1, <2>2 DEF OnDisk, Landed
<1> QED
  BY <1>6, <1>7, <1>8, <1>9, <1>10

LEMMA InSyncStep == Typed /\ Control /\ InSync /\ [Next]_vars => InSync'
<1> SUFFICES ASSUME Typed, Control, InSync, [Next]_vars
             PROVE  InSync'
  OBVIOUS
<1>1. CASE Call
  <2>1. quiet' /\ InCall' => /\ call'.op = "init"  => InitSync'
                             /\ call'.op = "read"  => ReadSync' /\ Filled'
                             /\ call'.op = "write" => WriteSync' /\ OnDisk'
    BY <1>1, Begins
  <2> QED
    BY <2>1 DEF InSync
<1>2. CASE Driver
  <2>1. call' = call /\ quiet' = quiet /\ InCall
    BY <1>2 DEF Driver, Send, DropStuff, Poll, StartBusy, PollBusy, Answered, Activate, AfterCmd0, AfterCmd8,
                AfterCmd55, AfterAcmd41, AfterCmd58, AfterCmd16, InitStep, StartToken, PollToken, ReadChunk, CheckCrc,
                WriteBlock, NextBlock, Done, driver, Goto, InCall
  <2>2. quiet /\ InCall' /\ call.op = "init" => InitSync'
    BY <1>2, <2>1, InitStays DEF InSync
  <2>3. quiet /\ InCall' /\ call.op = "read" => ReadSync' /\ Filled'
    BY <1>2, <2>1, ReadStays, FilledStep DEF InSync
  <2>4. quiet /\ InCall' /\ call.op = "write" => WriteSync' /\ OnDisk'
    BY <1>2, <2>1, WriteStays, OnDiskStep DEF InSync
  <2> QED
    BY <2>1, <2>2, <2>3, <2>4 DEF InSync
<1>3. CASE UNCHANGED vars
  <2>1. /\ UNCHANGED <<pc, call, cmd, rx, b, offs, got, dst, cs, card, disk, quiet>>
        /\ FirstOffs' = FirstOffs /\ LastLen' = LastLen /\ Blocks' = Blocks /\ Block' = Block
    BY <1>3, Steady DEF vars, driver
  <2>2. InitSync' = InitSync
    BY <2>1 DEF InitSync, AtRest
  <2>3. ReadSync' = ReadSync
    BY <2>1 DEF ReadSync, AtRest, Clear, Heard, Shares, Quiet
  <2>4. WriteSync' = WriteSync
    BY <2>1 DEF WriteSync, AtRest, Clear, Heard, Shares, Quiet, Taken
  <2>5. Filled' = Filled /\ OnDisk' = OnDisk
    BY <2>1 DEF Filled, FirstPart, LastPart, OnDisk, Landed
  <2> QED
    BY <2>1, <2>2, <2>3, <2>4, <2>5 DEF InSync, InCall
<1> QED
  BY <1>1, <1>2, <1>3 DEF Next

(* A call that has returned 0 has just ended, or had nothing to do.        *)
LEMMA Succeeds ==
  ASSUME Typed, Control, Next, pc' = "idle", ret' = "ok"
  PROVE  \/ /\ Done /\ pc = "released" /\ call.op # "init"
            /\ UNCHANGED <<call, calls, cmd, b, offs, got, rx, dst, cs, card, disk, quiet>>
         \/ /\ AfterCmd16 /\ pc = "released" /\ call.op = "init" /\ cmd = "CMD16" /\ rx = 0
            /\ UNCHANGED <<call, calls, b, offs, got, rx, dst, cs, card, disk, quiet>>
         \/ Call /\ call'.len = 0 /\ call'.op # "init" /\ disk' = [n \in DOMAIN disk |-> Unset]
<1>1. CASE Call
  <2>1. PICK r \in Requests : call' = r /\ IF r.len = 0 THEN pc' = pc ELSE pc' = "send"
    BY <1>1 DEF Call
  <2>2. r.len = 0 /\ r.op # "init"
    BY <2>1, RequestAssumption
  <2> QED
    BY <1>1, <2>1, <2>2 DEF Call
<1>2. CASE Done
  BY <1>2 DEF Done, driver
<1>3. CASE Activate
  <2>1. AfterCmd16
    BY <1>3 DEF Activate, AfterCmd0, AfterCmd8, AfterCmd55, AfterAcmd41, AfterCmd58, InitStep, Proceed, Return
  <2> QED
    BY <2>1 DEF AfterCmd16, InitStep, Return
<1>4. ~Poll /\ ~PollBusy /\ ~PollToken
  <2>1. ~Return("0x12") /\ ~Return("0x13") /\ ~Return("0x19") /\ ~Return("0x20")
    BY DEF Return
  <2> QED
    BY <2>1 DEF Poll, PollBusy, PollToken, PollOnce
<1>5. ~CheckCrc /\ ~WriteBlock /\ ~NextBlock
  <2>1. ~Return("0x21") /\ ~Return("0x22")
    BY DEF Return
  <2>2. ~EndBlock("startToken", "CMD12") /\ ~EndBlock("data", "stop")
    BY DEF EndBlock
  <2> QED
    BY <2>1, <2>2 DEF CheckCrc, WriteBlock, NextBlock
<1>6. ~Send /\ ~DropStuff /\ ~StartBusy /\ ~Answered /\ ~StartToken /\ ~ReadChunk
  BY DEF Send, DropStuff, StartBusy, Answered, StartToken, ReadChunk, Goto
<1> QED
  BY <1>1, <1>2, <1>3, <1>4, <1>5, <1>6 DEF Next, Driver

(* In a call that is about to succeed everything is where it belongs.      *)
LEMMA Settled ==
  ASSUME Typed, Control, InSync, pc = "released", quiet
  PROVE  /\ ~cs /\ call.len > 0
         /\ call.op \in {"read", "write"} => Quiet(card) /\ b = Blocks /\ cmd # "none"
         /\ call.op = "init" => AtRest(card) /\ ~card.busy /\ card.owes = Unset
         /\ call.op = "init" /\ cmd = "CMD16" => card.mode = "ready" /\ (rx = 0 => card.len = BlockLen)
<1>1. InCall /\ ~cs /\ call.len > 0 /\ (call.op # "init" => b = Blocks /\ cmd # "none")
  BY DEF InCall, Control
<1>2. CASE call.op = "init"
  BY <1>1, <1>2 DEF InSync, InitSync
<1>3. CASE call.op # "init"
  BY <1>1, <1>3 DEF InSync, ReadSync, WriteSync
<1> QED
  BY <1>1, <1>2, <1>3

LEMMA QuietStep == Typed /\ Control /\ InSync /\ QuietAfterSuccess /\ [Next]_vars => QuietAfterSuccess'
<1> SUFFICES ASSUME Typed, Control, InSync, QuietAfterSuccess, [Next]_vars, pc' = "idle", ret' = "ok", quiet'
             PROVE  /\ call'.len > 0 => Quiet(card') /\ ~cs'
                    /\ call'.op = "init" => card'.mode = "ready" /\ card'.len = BlockLen
  BY DEF QuietAfterSuccess, Quiet
<1>1. CASE UNCHANGED vars
  BY <1>1 DEF vars, driver, QuietAfterSuccess
<1>2. CASE Next
  <2>1. CASE Call /\ call'.len = 0 /\ call'.op # "init"
    BY <2>1
  <2>2. CASE pc = "released" /\ UNCHANGED <<call, card, cs, quiet>> /\ call.op # "init"
    <3>1. call.op \in {"read", "write"}
      BY <2>2 DEF Typed, Calls
    <3> QED
      BY <2>2, <3>1, Settled
  <2>3. CASE pc = "released" /\ UNCHANGED <<call, card, cs, quiet>> /\ call.op = "init" /\ cmd = "CMD16" /\ rx = 0
    BY <2>3, Settled DEF AtRest, Quiet
  <2> QED
    BY <1>2, <2>1, <2>2, <2>3, Succeeds
<1> QED
  BY <1>1, <1>2

(* The blocks of a read reach as far as it asks.                           *)
Reaches == BlockLen * Blocks - FirstOffs >= call.len /\ BlockLen * Blocks - FirstOffs \in Int /\ call.len \in Nat

LEMMA Whole == call \in Calls /\ call.op = "read" /\ call.len > 0 => Reaches
<1> SUFFICES ASSUME call \in Calls, call.op = "read", call.len > 0 PROVE Reaches
  OBVIOUS
<1>1. /\ FirstOffs \in Nat /\ LastLen \in Nat /\ LastLen <= BlockLen /\ Blocks \in Nat /\ Blocks > 0
      /\ BlockLen * (Blocks - 1) + LastLen = call.len + FirstOffs /\ call.len \in Nat /\ BlockLen \in Nat
  BY Cutting, Constants DEF Calls
<1>2. Blocks - 1 \in Nat /\ BlockLen * Blocks = BlockLen * (Blocks - 1) + BlockLen
  BY <1>1
<1>3. BlockLen * (Blocks - 1) \in Nat
  BY <1>1, <1>2, Times
<1> QED
  BY <1>1, <1>2, <1>3 DEF Reaches

LEMMA ReadStep == Typed /\ Control /\ Confined /\ InSync /\ ReadRight /\ [Next]_vars => ReadRight'
<1> SUFFICES ASSUME Typed, Control, Confined, InSync, ReadRight, [Next]_vars
             PROVE  ReadRight'
  OBVIOUS
<1>1. Confined'
  BY ConfinedStep
<1>2. ASSUME call'.op = "read", pc' = "idle", ret' = "ok", quiet'
      PROVE  \A i \in Offsets : i \in 0 .. call'.len - 1 => dst'[i] = call'.addr + i
  <2>1. CASE UNCHANGED vars
    BY <1>2, <2>1 DEF vars, driver, ReadRight
  <2>2. CASE Next
    <3>1. CASE Call /\ call'.len = 0
      <4>1. \A i : i \notin 0 .. call'.len - 1
        BY <3>1
      <4> QED
        BY <4>1
    <3>2. CASE pc = "released" /\ UNCHANGED <<call, dst, quiet>>
      <4>1. b = Blocks /\ call.len > 0 /\ Filled
        BY <1>2, <3>2, Settled DEF InSync, InCall
      <4>2. Reaches
        BY <1>2, <3>2, <4>1, Whole DEF Typed
      <4>3. \A i \in Offsets : i \in 0 .. call.len - 1 => i < BlockLen * b - FirstOffs
        BY <4>1, <4>2 DEF Reaches
      <4> QED
        BY <3>2, <4>1, <4>3 DEF Filled
    <3> QED
      BY <1>2, <2>2, <3>1, <3>2, Succeeds
  <2> QED
    BY <2>1, <2>2
<1> QED
  BY <1>1, <1>2 DEF ReadRight, Confined

LEMMA WholeStep == Typed /\ Control /\ InSync /\ WriteWhole /\ [Next]_vars => WriteWhole'
<1> SUFFICES ASSUME Typed, Control, InSync, WriteWhole, [Next]_vars,
                    pc' = "idle", call'.op = "write", ret' = "ok", quiet'
             PROVE  \A n \in DOMAIN disk' :
                      disk'[n] = IF n \in Block' .. Block' + call'.len - 1 THEN n - Block' ELSE Unset
  BY DEF WriteWhole
<1>1. call' = call => Block' = Block /\ Blocks' = Blocks
  BY Steady
<1>2. CASE UNCHANGED vars
  <2>1. UNCHANGED <<pc, call, ret, disk, quiet>>
    BY <1>2 DEF vars, driver
  <2> QED
    BY <1>1, <2>1 DEF WriteWhole
<1>3. CASE Next
  <2>1. disk \in [0 .. MaxSpan -> Int]
    BY DEF Typed
  <2>2. CASE Call /\ call'.len = 0 /\ disk' = [n \in DOMAIN disk |-> Unset]
    <3>1. \A n : n \notin Block' .. Block' + call'.len - 1
      <4>1. Block' = call'.addr
        BY DEF Block
      <4>2. call' \in Calls
        BY <2>2, RequestAssumption DEF Call, Calls
      <4> QED
        BY <2>2, <4>1, <4>2 DEF Calls
    <3> QED
      BY <2>2, <3>1
  <2>3. CASE pc = "released" /\ UNCHANGED <<call, disk, quiet>>
    <3>1. b = Blocks /\ cmd # "none" /\ OnDisk
      BY <2>3, Settled DEF InSync, InCall
    <3>2. Blocks = call.len
      BY <2>3 DEF Blocks
    <3> QED
      BY <1>1, <2>1, <2>3, <3>1, <3>2 DEF OnDisk, Landed
  <2> QED
    BY <1>3, <2>2, <2>3, Succeeds
<1> QED
  BY <1>2, <1>3

LEMMA InitIInv == Init => IInv
<1> SUFFICES ASSUME Init PROVE IInv
  OBVIOUS
<1>1. card \in Cards
  BY DEF Init, Cards, Modes, Unset
<1>2. dst \in [Offsets -> Int] /\ disk \in [0 .. MaxSpan -> Int] /\ call \in Calls /\ offs \in 0 .. BlockLen
  BY Constants DEF Init, Calls, Unset
<1>3. Plain
  <2>1. pc \in Pcs /\ cmd \in Cmds
    BY DEF Init, Pcs, Cmds
  <2>2. rx \in Int /\ b \in Nat /\ got \in Int /\ left \in Int /\ calls \in Nat
    BY DEF Init, Free, Noise
  <2>3. cs \in BOOLEAN /\ quiet \in BOOLEAN
    BY DEF Init
  <2> QED
    BY <1>2, <2>1, <2>2, <2>3 DEF Plain
<1>4. Control /\ Confined /\ InSync
  BY DEF Init, Control, Commanding, Confined, InSync, InCall
<1>5. ReadRight /\ QuietAfterSuccess /\ WriteWhole
  BY DEF Init, ReadRight, QuietAfterSuccess, WriteWhole
<1> QED
  BY <1>1, <1>2, <1>3, <1>4, <1>5, Parts DEF IInv, Bulk

LEMMA NextIInv == IInv /\ [Next]_vars => IInv'
<1> SUFFICES ASSUME IInv, [Next]_vars PROVE IInv'
  OBVIOUS
<1>1. Typed /\ Control /\ Confined /\ InSync /\ ReadRight /\ QuietAfterSuccess /\ WriteWhole
  BY DEF IInv
<1>2. Typed'
  BY <1>1, BulkStep, PlaceStep DEF Typed, Plain, Bulk, PlaceNow
<1>3. Control'
  BY <1>1, PlaceStep DEF PlaceNow
<1> QED
  BY <1>1, <1>2, <1>3, ConfinedStep, InSyncStep, ReadStep, QuietStep, WholeStep DEF IInv

(* The inductive invariant.                                                *)
THEOREM SdCardInvariant == Spec => []IInv
  BY InitIInv, NextIInv, PTL DEF Spec

(* A read that returns 0 has filled the caller's buffer with exactly what  *)
(* it asked for, and no read stores anywhere else.                         *)
THEOREM ReadsRight == Spec => []ReadRight
<1>1. IInv => ReadRight
  BY DEF IInv
<1> QED
  BY <1>1, SdCardInvariant, PTL

(* A call that returns 0 leaves a card that is ready for the next command. *)
THEOREM StaysQuiet == Spec => []QuietAfterSuccess
<1>1. IInv => QuietAfterSuccess
  BY DEF IInv
<1> QED
  BY <1>1, SdCardInvariant, PTL

(* A write that returns 0 has put every block in its place.                *)
THEOREM WritesWhole == Spec => []WriteWhole
<1>1. IInv => WriteWhole
  BY DEF IInv
<1> QED
  BY <1>1, SdCardInvariant, PTL
=============================================================================
