----------------------------- MODULE BootProofs -----------------------------
(***************************************************************************)
(* Theorems about the ways to boot.                                        *)
(*                                                                         *)
(* GptBoot, for every disk, malformed ones included, every size of the     *)
(* buffers and every choice of the GUIDs looked for: the search invariant, *)
(* and what follows from it.                                               *)
(*                                                                         *)
(* PassiveBoot, for every width of a word and every set of return          *)
(* codes, with and without an LLC, a platform ROM and a UART host: a       *)
(* launch through the scratch registers is whole, and the result a host    *)
(* reads is what its program, or the ROM, has returned.                    *)
(*                                                                         *)
(* Boot: both hold in the ROM that chooses between them.                   *)
(***************************************************************************)
EXTENDS Boot, TLAPS

Typed == TypeOK /\ disk \in Disks

IInv == Typed /\ SearchInv

(* What the assumptions say of the disk in use.                            *)
DiskFactsHold ==
  /\ disk.count \in Nat
  /\ \A q \in 0 .. disk.count - 1 : Range(disk.parts[q]) \in Spans
  /\ \A j \in Jobs : MaxLbas[j] \in 1 .. Lbas
  /\ Lbas \in Nat \ {0} /\ Sectors \in Nat \ {0}

LEMMA DiskFacts == disk \in Disks => DiskFactsHold
  BY DiskAssumption, WidthAssumption, MaxLbasAssumption DEF DiskFactsHold, Range, Spans

(* A length wraps around to a smaller one.                                 *)
LEMMA Remainder ==
  ASSUME NEW x \in Nat, NEW d \in Nat \ {0}
  PROVE  x % d \in Nat /\ x % d <= x
<1> DEFINE q == x \div d
           r == x % d
<1>1. x = d * q + r /\ q \in Int /\ r \in 0 .. d - 1
  OBVIOUS
<1> HIDE DEF q, r
<1>2. ASSUME q <= -1 PROVE FALSE
  <2>1. d * q <= -d
    BY <1>1, <1>2
  <2> QED
    BY <2>1, <1>1
<1>3. d * q >= 0
  BY <1>1, <1>2
<1>4. r \in Nat /\ r <= x
  BY <1>1, <1>3
<1> QED
  BY <1>4 DEF r

(* A range of n sectors or fewer, wrapping or not, has a length that is no *)
(* greater.                                                                *)
LEMMA SpanFits ==
  ASSUME NEW d \in Spans, NEW n \in Nat, Span(d) + 1 <= n
  PROVE  Size(d) <= n
<1>1. Lbas \in Nat \ {0} /\ Sectors \in Nat \ {0} /\ d.begin \in Lba /\ d.end \in Lba
  BY WidthAssumption DEF Spans
<1>2. Wrap(Span(d) + 1) \in Nat /\ Wrap(Span(d) + 1) <= n
  BY <1>1 DEF Span, Wrap, Lba
<1>3. Wrap(Span(d) + 1) % Sectors <= Wrap(Span(d) + 1) /\ Wrap(Span(d) + 1) % Sectors \in Nat
  BY <1>1, <1>2, Remainder
<1> QED
  BY <1>2, <1>3 DEF Size

(* The raw range of a job is one that fits its buffer.                     *)
LEMMA RawFits ==
  ASSUME NEW j \in Jobs
  PROVE  RawRange(j) \in Spans /\ Size(RawRange(j)) <= MaxLbas[j]
<1>1. MaxLbas[j] \in 1 .. Lbas /\ Lbas \in Nat
  BY WidthAssumption, MaxLbasAssumption
<1>2. RawRange(j) \in Spans /\ Span(RawRange(j)) + 1 <= MaxLbas[j]
  BY <1>1 DEF RawRange, Spans, Lba, Span, Wrap
<1> QED
  BY <1>1, <1>2, SpanFits

(* The recorded start of the first partition is a range, and it fits       *)
(* unless the partition ends before it begins and is recorded as it is.    *)
LEMMA FirstChunkFits ==
  ASSUME NEW j \in Jobs, job = j, NEW d \in Spans
  PROVE  /\ FirstChunk(d) \in Spans
         /\ Size(FirstChunk(d)) <= MaxLbas[j] \/ (FirstChunk(d) = d /\ d.end < d.begin)
<1>1. MaxLbas[j] \in 1 .. Lbas /\ Lbas \in Nat /\ d.begin \in 0 .. Lbas - 1 /\ d.end \in 0 .. Lbas - 1
  BY WidthAssumption, MaxLbasAssumption DEF Spans, Lba
<1>2. FirstChunk(d) \in Spans
  BY <1>1 DEF FirstChunk, Spans, Lba, Wrap
<1>3. Span(FirstChunk(d)) + 1 <= MaxLbas[j] \/ (FirstChunk(d).end = d.end /\ d.end < d.begin)
  BY <1>1 DEF FirstChunk, Span, Wrap
<1>4. FirstChunk(d).end = d.end => FirstChunk(d) = d
  BY DEF FirstChunk, Spans
<1> QED
  BY <1>1, <1>2, <1>3, <1>4, SpanFits

(* Both ways into the boot, from reset and with everything preloaded.      *)
LEMMA InitIInv == Init => IInv
<1> SUFFICES ASSUME Init PROVE IInv
  OBVIOUS
<1> USE DEF Init, NotFound
<1>1. disk \in Disks /\ disk.count \in Nat /\ "rom" \in Jobs
  BY DiskFacts DEF DiskFactsHold, Jobs
<1>2. TypeOK
  <2>1. dim \in Spans /\ range \in Spans
    BY <1>1, RawFits, WidthAssumption DEF Spans, Lba
  <2>2. Nothing \in Image /\ \A j \in Jobs : Copied(RawRange(j)) \in Image
    BY RawFits, WidthAssumption DEF Nothing, Copied, Image, Spans, Lba
  <2>3. image \in [Jobs -> Image]
    BY <2>2
  <2>4. job \in Jobs /\ p \in 0 .. disk.count /\ partIdx \in 0 .. disk.count
    BY <1>1
  <2>5. pc \in {"sig", "zsl"} /\ gptRead \in BOOLEAN
    OBVIOUS
  <2> HIDE DEF Init
  <2> QED
    BY <2>1, <2>3, <2>4, <2>5 DEF TypeOK
<1>3. Searching /\ Copying /\ Loading
  BY DEF Searching, Copying, Loading
<1>4. CopyFits
  BY RawFits DEF CopyFits, Nothing, Copied
<1> QED
  BY <1>1, <1>2, <1>3, <1>4 DEF IInv, Typed, SearchInv

(* The disk stays the same, and with it what is wanted of it.              *)
LEMMA Stable ==
  ASSUME UNCHANGED disk
  PROVE  /\ \A j \in Jobs, q \in Nat : Wanted(j, q)' = Wanted(j, q)
         /\ \A j \in Jobs, q \in Nat : FirstWanted(j, q)' = FirstWanted(j, q)
         /\ image' = image => /\ FoundImage("dtb")' = FoundImage("dtb")
                              /\ FoundImage("fw")'  = FoundImage("fw")
         /\ \A r : Backward(r)' = Backward(r)
  BY DEF Wanted, FirstWanted, FoundImage, Backward, Range

(* Entry p, once its dimensions are read, is wanted just if its type or    *)
(* its identity is; and it is the first one just if none before it is.     *)
LEMMA EntryWanted ==
  ASSUME disk \in Disks, p < disk.count,
         Span(Range(disk.parts[p])) + 1 <= MaxLbas[job]
  PROVE  Wanted(job, p) <=>
           \/ Tguid[job] # NoGuid /\ disk.parts[p].type = Tguid[job]
           \/ Pguid[job] # NoGuid /\ disk.parts[p].id = Pguid[job]
  BY DEF Wanted, Span, Range

(* A search that passes over entry p has none that is wanted behind it.    *)
LEMMA PassOver ==
  ASSUME p \in Nat, UNCHANGED <<disk, job>>, job \in Jobs, p' = p + 1,
         \A q \in 0 .. p - 1 : ~Wanted(job, q), ~Wanted(job, p)
  PROVE  \A q \in 0 .. p' - 1 : ~Wanted(job, q)'
  BY Stable

(* A search begins, or the raw start of the disk is to be copied. *)
LEMMA CheckSignatureIInv == IInv /\ CheckSignature => IInv'
<1> SUFFICES ASSUME IInv, CheckSignature PROVE IInv'
  OBVIOUS
<1> USE DEF CheckSignature, Goto, NotFound
<1>0. TypeOK /\ DiskFactsHold /\ disk' = disk /\ disk' \in Disks
  BY DiskFacts DEF IInv, Typed
<1>1. TypeOK'
  BY <1>0, RawFits, FirstChunkFits DEF DiskFactsHold, TypeOK, Image, Spans, Range
<1>2. Searching'
  BY <1>0, Stable DEF IInv, SearchInv, DiskFactsHold, TypeOK, Searching
<1>3. Copying'
  BY <1>0, RawFits DEF IInv, SearchInv, TypeOK, Copying, Loading, Jobs
<1>4. Loading'
  BY <1>0, Stable DEF IInv, SearchInv, DiskFactsHold, TypeOK, Loading
<1>5. CopyFits'
  BY <1>0, Stable DEF IInv, SearchInv, DiskFactsHold, TypeOK, CopyFits, Size
<1> QED
  BY <1>0, <1>1, <1>2, <1>3, <1>4, <1>5 DEF IInv, Typed, SearchInv

(* An error ends the search. *)
LEMMA ReadFailsIInv == IInv /\ ReadFails => IInv'
<1> SUFFICES ASSUME IInv, ReadFails PROVE IInv'
  OBVIOUS
<1> USE DEF ReadFails, Goto, NotFound, Failed
<1>0. TypeOK /\ DiskFactsHold /\ disk' = disk /\ disk' \in Disks
  BY DiskFacts DEF IInv, Typed
<1>1. TypeOK'
  BY <1>0, RawFits, FirstChunkFits DEF DiskFactsHold, TypeOK, Image, Spans, Range
<1>2. Searching'
  BY <1>0, Stable DEF IInv, SearchInv, DiskFactsHold, TypeOK, Searching
<1>3. Copying'
  BY <1>0, Stable, RawFits, FirstChunkFits DEF IInv, SearchInv, DiskFactsHold, TypeOK, Copying
<1>4. Loading'
  BY <1>0, Stable DEF IInv, SearchInv, DiskFactsHold, TypeOK, Loading
<1>5. CopyFits'
  BY <1>0, Stable DEF IInv, SearchInv, DiskFactsHold, TypeOK, CopyFits, Size
<1> QED
  BY <1>0, <1>1, <1>2, <1>3, <1>4, <1>5 DEF IInv, Typed, SearchInv

(* No entry has been looked at. *)
LEMMA ReadHeaderIInv == IInv /\ ReadHeader => IInv'
<1> SUFFICES ASSUME IInv, ReadHeader PROVE IInv'
  OBVIOUS
<1> USE DEF ReadHeader, Goto, NotFound
<1>0. TypeOK /\ DiskFactsHold /\ disk' = disk /\ disk' \in Disks
  BY DiskFacts DEF IInv, Typed
<1>1. TypeOK'
  BY <1>0, RawFits, FirstChunkFits DEF DiskFactsHold, TypeOK, Image, Spans, Range
<1>2. Searching'
  BY <1>0, Stable DEF IInv, SearchInv, DiskFactsHold, TypeOK, Searching
<1>3. Copying'
  BY <1>0, Stable, RawFits, FirstChunkFits DEF IInv, SearchInv, DiskFactsHold, TypeOK, Copying
<1>4. Loading'
  BY <1>0, Stable DEF IInv, SearchInv, DiskFactsHold, TypeOK, Loading
<1>5. CopyFits'
  BY <1>0, Stable DEF IInv, SearchInv, DiskFactsHold, TypeOK, CopyFits, Size
<1> QED
  BY <1>0, <1>1, <1>2, <1>3, <1>4, <1>5 DEF IInv, Typed, SearchInv

(* An entry that is too large is not wanted; one that fits has its dimensions read. *)
LEMMA ReadEntryIInv == IInv /\ ReadEntry => IInv'
<1> SUFFICES ASSUME IInv, ReadEntry PROVE IInv'
  OBVIOUS
<1> USE DEF ReadEntry, Goto, NotFound, Skips, Fits, AfterDim, AfterType
<1>0. TypeOK /\ DiskFactsHold /\ disk' = disk /\ disk' \in Disks
  BY DiskFacts DEF IInv, Typed
<1>1. TypeOK'
  BY <1>0, RawFits, FirstChunkFits DEF DiskFactsHold, TypeOK, Image, Spans, Range
<1>2. Searching'
  <2> DEFINE d == Range(disk.parts[p])
  <2>1. pc = "entry" /\ p \in Nat /\ d \in Spans /\ MaxLbas[job] \in Nat /\ dim' = d
    BY <1>0 DEF DiskFactsHold, TypeOK, Range
  <2>2. \A q \in 0 .. p - 1 : ~Wanted(job, q)
    BY <2>1 DEF IInv, SearchInv, Searching
  <2>3. Fits(d) <=> Span(d) + 1 <= MaxLbas[job]
    <3>1. Span(d) \in Int
      BY <1>0, <2>1 DEF Span, Wrap, Spans, Lba, DiskFactsHold
    <3> QED
      BY <2>1, <3>1
  <2>4. CASE Fits(d) /\ AfterDim # "entry"
    <3>1. pc' \in {"type", "id"} /\ p' = p
      BY <2>4 DEF Range
    <3>2. \A q \in 0 .. p' - 1 : ~Wanted(job, q)'
      BY <1>0, <2>1, <2>2, <3>1, Stable DEF TypeOK
    <3>3. /\ dim' = Range(disk.parts[p])' /\ (Span(dim) + 1 <= MaxLbas[job])'
      BY <1>0, <2>1, <2>3, <2>4, <3>1 DEF Span, Range
    <3>4. p' < disk'.count /\ p' <= disk'.count
      BY <1>0, <2>1, <3>1 DEF DiskFactsHold
    <3>5. (pc' = "type" => Tguid[job] # NoGuid) /\ (pc' = "id" => Pguid[job] # NoGuid /\ Tguid[job] = NoGuid)
      BY <2>4, <3>1 DEF Range
    <3> QED
      BY <3>1, <3>2, <3>3, <3>4, <3>5 DEF Searching
  <2>5. CASE ~(Fits(d) /\ AfterDim # "entry")
    <3>1. pc' = "entry" /\ p' = p + 1
      BY <2>5 DEF Range
    <3>2. ~Wanted(job, p)
      BY <1>0, <2>1, <2>3, <2>5 DEF Wanted, Span, Range
    <3>3. \A q \in 0 .. p' - 1 : ~Wanted(job, q)'
      BY <1>0, <2>1, <2>2, <3>1, <3>2, PassOver DEF TypeOK
    <3> QED
      BY <1>0, <2>1, <3>1, <3>3 DEF Searching, DiskFactsHold
  <2> QED
    BY <2>4, <2>5
<1>3. Copying'
  <2>1. pc = "entry" /\ pc' \in {"entry", "type", "id"}
    OBVIOUS
  <2> DEFINE d == Range(disk.parts[p])
  <2>2. d \in Spans /\ range' = IF p = 0 THEN FirstChunk(d) ELSE range
    BY <1>0 DEF DiskFactsHold, TypeOK, Range
  <2>3. p = 0 => Size(range') <= MaxLbas[job] \/ (range' = d /\ range'.end < range'.begin)
    BY <1>0, <2>2, FirstChunkFits DEF TypeOK
  <2>4. p = 0 => disk.count > 0 /\ d = Range(disk.parts[0])
    BY <1>0 DEF DiskFactsHold
  <2>5. job = "rom" =>
          \/ Size(range') <= MaxLbas["rom"]
          \/ disk.count > 0 /\ range' = Range(disk.parts[0]) /\ range'.end < range'.begin
    <3> HIDE DEF d
    <3>0. HAVE job = "rom"
    <3>1. CASE p = 0
      BY <2>3, <2>4, <3>0, <3>1, Zenon
    <3>2. CASE p # 0
      <4>1. range' = range
        BY <2>2, <3>2
      <4>2. \/ Size(range) <= MaxLbas["rom"]
            \/ disk.count > 0 /\ range = Range(disk.parts[0]) /\ range.end < range.begin
        BY <2>1, <3>0 DEF IInv, SearchInv, Copying
      <4> QED
        BY <4>1, <4>2, Zenon
    <3> QED
      BY <3>1, <3>2
  <2> QED
    BY <1>0, <2>1, <2>5 DEF IInv, SearchInv, Copying, Size, Range
<1>4. Loading'
  BY <1>0, Stable DEF IInv, SearchInv, DiskFactsHold, TypeOK, Loading
<1>5. CopyFits'
  BY <1>0, Stable DEF IInv, SearchInv, DiskFactsHold, TypeOK, CopyFits, Size
<1> QED
  BY <1>0, <1>1, <1>2, <1>3, <1>4, <1>5 DEF IInv, Typed, SearchInv

(* The type decides, or the identity has to. *)
LEMMA CheckTypeIInv == IInv /\ CheckType => IInv'
<1> SUFFICES ASSUME IInv, CheckType PROVE IInv'
  OBVIOUS
<1> USE DEF CheckType, Goto, NotFound, Skips, AfterType
<1>0. TypeOK /\ DiskFactsHold /\ disk' = disk /\ disk' \in Disks
  BY DiskFacts DEF IInv, Typed
<1>1. TypeOK'
  <2>1. pc = "type" /\ p \in Nat /\ p + 1 <= disk.count /\ p' \in {p, p + 1}
    BY <1>0 DEF IInv, SearchInv, Searching, DiskFactsHold, TypeOK
  <2>2. pc' \in {"found", "id", "entry"}
    OBVIOUS
  <2> QED
    BY <1>0, <2>1, <2>2 DEF TypeOK, DiskFactsHold
<1>2. Searching'
  <2>1. /\ pc = "type" /\ p \in Nat /\ p < disk.count /\ dim = Range(disk.parts[p])
        /\ Span(dim) + 1 <= MaxLbas[job] /\ \A q \in 0 .. p - 1 : ~Wanted(job, q)
        /\ Tguid[job] # NoGuid
    BY <1>0 DEF IInv, SearchInv, Searching, DiskFactsHold, TypeOK
  <2>2. CASE pc' # "entry"
    <3>1. p' = p /\ \A q \in 0 .. p' - 1 : ~Wanted(job, q)'
      BY <1>0, <2>1, <2>2, Stable DEF TypeOK
    <3>2. dim' = Range(disk.parts[p])' /\ (Span(dim) + 1 <= MaxLbas[job])'
      BY <1>0, <2>1, <3>1 DEF Span, Range
    <3>3. pc' = "found" => Wanted(job, p)'
      BY <1>0, <2>1, <3>1, EntryWanted, Stable DEF TypeOK
    <3> QED
      BY <1>0, <2>1, <2>2, <3>1, <3>2, <3>3 DEF Searching, DiskFactsHold
  <2>3. CASE pc' = "entry"
    <3>1. p' = p + 1 /\ ~Wanted(job, p)
      BY <1>0, <2>1, <2>3, EntryWanted DEF IInv, SearchInv, Searching
    <3>2. \A q \in 0 .. p' - 1 : ~Wanted(job, q)'
      BY <1>0, <2>1, <3>1, PassOver DEF TypeOK
    <3> QED
      BY <1>0, <2>1, <2>3, <3>1, <3>2 DEF Searching, DiskFactsHold
  <2> QED
    BY <2>2, <2>3
<1>3. Copying'
  BY <1>0, Stable, RawFits, FirstChunkFits DEF IInv, SearchInv, DiskFactsHold, TypeOK, Copying
<1>4. Loading'
  BY <1>0, Stable DEF IInv, SearchInv, DiskFactsHold, TypeOK, Loading
<1>5. CopyFits'
  BY <1>0, Stable DEF IInv, SearchInv, DiskFactsHold, TypeOK, CopyFits, Size
<1> QED
  BY <1>0, <1>1, <1>2, <1>3, <1>4, <1>5 DEF IInv, Typed, SearchInv

(* Neither type nor identity has matched an entry that is passed over. *)
LEMMA CheckIdIInv == IInv /\ CheckId => IInv'
<1> SUFFICES ASSUME IInv, CheckId PROVE IInv'
  OBVIOUS
<1> USE DEF CheckId, Goto, NotFound, Skips
<1>0. TypeOK /\ DiskFactsHold /\ disk' = disk /\ disk' \in Disks
  BY DiskFacts DEF IInv, Typed
<1>1. TypeOK'
  <2>1. pc = "id" /\ p \in Nat /\ p + 1 <= disk.count /\ p' \in {p, p + 1}
    BY <1>0 DEF IInv, SearchInv, Searching, DiskFactsHold, TypeOK
  <2>2. pc' \in {"found", "id", "entry"}
    OBVIOUS
  <2> QED
    BY <1>0, <2>1, <2>2 DEF TypeOK, DiskFactsHold
<1>2. Searching'
  <2>1. /\ pc = "id" /\ p \in Nat /\ p < disk.count /\ dim = Range(disk.parts[p])
        /\ Span(dim) + 1 <= MaxLbas[job] /\ \A q \in 0 .. p - 1 : ~Wanted(job, q)
        /\ Pguid[job] # NoGuid
    BY <1>0 DEF IInv, SearchInv, Searching, DiskFactsHold, TypeOK
  <2>2. CASE pc' # "entry"
    <3>1. p' = p /\ \A q \in 0 .. p' - 1 : ~Wanted(job, q)'
      BY <1>0, <2>1, <2>2, Stable DEF TypeOK
    <3>2. dim' = Range(disk.parts[p])' /\ (Span(dim) + 1 <= MaxLbas[job])'
      BY <1>0, <2>1, <3>1 DEF Span, Range
    <3>3. pc' = "found" => Wanted(job, p)'
      BY <1>0, <2>1, <3>1, EntryWanted, Stable DEF TypeOK
    <3> QED
      BY <1>0, <2>1, <2>2, <3>1, <3>2, <3>3 DEF Searching, DiskFactsHold
  <2>3. CASE pc' = "entry"
    <3>1. p' = p + 1 /\ ~Wanted(job, p)
      BY <1>0, <2>1, <2>3, EntryWanted DEF IInv, SearchInv, Searching
    <3>2. \A q \in 0 .. p' - 1 : ~Wanted(job, q)'
      BY <1>0, <2>1, <3>1, PassOver DEF TypeOK
    <3> QED
      BY <1>0, <2>1, <2>3, <3>1, <3>2 DEF Searching, DiskFactsHold
  <2> QED
    BY <2>2, <2>3
<1>3. Copying'
  BY <1>0, Stable, RawFits, FirstChunkFits DEF IInv, SearchInv, DiskFactsHold, TypeOK, Copying
<1>4. Loading'
  BY <1>0, Stable DEF IInv, SearchInv, DiskFactsHold, TypeOK, Loading
<1>5. CopyFits'
  BY <1>0, Stable DEF IInv, SearchInv, DiskFactsHold, TypeOK, CopyFits, Size
<1> QED
  BY <1>0, <1>1, <1>2, <1>3, <1>4, <1>5 DEF IInv, Typed, SearchInv

(* Only the boot ROM copies without having found a partition. *)
LEMMA ExhaustedIInv == IInv /\ Exhausted => IInv'
<1> SUFFICES ASSUME IInv, Exhausted PROVE IInv'
  OBVIOUS
<1> USE DEF Exhausted, Goto, NotFound
<1>0. TypeOK /\ DiskFactsHold /\ disk' = disk /\ disk' \in Disks
  BY DiskFacts DEF IInv, Typed
<1>1. TypeOK'
  BY <1>0, RawFits, FirstChunkFits DEF DiskFactsHold, TypeOK, Image, Spans, Range
<1>2. Searching'
  BY <1>0, Stable DEF IInv, SearchInv, DiskFactsHold, TypeOK, Searching
<1>3. Copying'
  <2>1. job = "rom" => Size(range) <= MaxLbas["rom"] \/ Backward(range)
    BY <1>0 DEF IInv, SearchInv, Searching, Copying, DiskFactsHold, TypeOK, Backward
  <2>2. Backward(range)' = Backward(range)
    BY <1>0, Stable
  <2> QED
    BY <1>0, <2>1, <2>2 DEF Copying, Size
<1>4. Loading'
  BY <1>0, Stable DEF IInv, SearchInv, DiskFactsHold, TypeOK, Loading
<1>5. CopyFits'
  BY <1>0, Stable DEF IInv, SearchInv, DiskFactsHold, TypeOK, CopyFits, Size
<1> QED
  BY <1>0, <1>1, <1>2, <1>3, <1>4, <1>5 DEF IInv, Typed, SearchInv

(* The entry found is the first one wanted. *)
LEMMA FoundIInv == IInv /\ Found => IInv'
<1> SUFFICES ASSUME IInv, Found PROVE IInv'
  OBVIOUS
<1> USE DEF Found, Goto, NotFound
<1>0. TypeOK /\ DiskFactsHold /\ disk' = disk /\ disk' \in Disks
  BY DiskFacts DEF IInv, Typed
<1>1. TypeOK'
  BY <1>0, RawFits, FirstChunkFits DEF DiskFactsHold, TypeOK, Image, Spans, Range
<1>2. Searching'
  BY <1>0, Stable DEF IInv, SearchInv, DiskFactsHold, TypeOK, Searching
<1>3. Copying'
  <2>1. /\ pc = "found" /\ p \in Nat /\ p < disk.count /\ dim = Range(disk.parts[p])
        /\ Span(dim) + 1 <= MaxLbas[job] /\ FirstWanted(job, p)
    BY <1>0 DEF IInv, SearchInv, Searching, FirstWanted, TypeOK
  <2>2. FirstWanted(job, partIdx)' /\ range' = Range(disk.parts[partIdx])'
    BY <1>0, <2>1, Stable DEF TypeOK, Range
  <2>3. job = "rom" => Size(range') <= MaxLbas["rom"]
    BY <1>0, <2>1, SpanFits DEF TypeOK, DiskFactsHold
  <2> QED
    BY <1>0, <2>1, <2>2, <2>3 DEF Copying, Size, DiskFactsHold
<1>4. Loading'
  BY <1>0, Stable DEF IInv, SearchInv, DiskFactsHold, TypeOK, Loading
<1>5. CopyFits'
  BY <1>0, Stable DEF IInv, SearchInv, DiskFactsHold, TypeOK, CopyFits, Size
<1> QED
  BY <1>0, <1>1, <1>2, <1>3, <1>4, <1>5 DEF IInv, Typed, SearchInv

(* The boot ROM fills its buffer. *)
LEMMA RomCopyIInv == IInv /\ RomCopy => IInv'
<1> SUFFICES ASSUME IInv, RomCopy PROVE IInv'
  OBVIOUS
<1> USE DEF RomCopy, Goto, NotFound, Copied, Spoilt, Jobs
<1>0. TypeOK /\ DiskFactsHold /\ disk' = disk /\ disk' \in Disks
  BY DiskFacts DEF IInv, Typed
<1>1. TypeOK'
  BY <1>0, RawFits, FirstChunkFits DEF DiskFactsHold, TypeOK, Image, Spans, Range
<1>2. Searching'
  BY <1>0, Stable DEF IInv, SearchInv, DiskFactsHold, TypeOK, Searching
<1>3. Copying'
  BY <1>0, Stable, RawFits, FirstChunkFits DEF IInv, SearchInv, DiskFactsHold, TypeOK, Copying
<1>4. Loading'
  BY <1>0, Stable DEF IInv, SearchInv, DiskFactsHold, TypeOK, Loading
<1>5. CopyFits'
  <2>1. Size(range) <= MaxLbas["rom"] \/ Backward(range)
    BY DEF IInv, SearchInv, Copying
  <2>2. \A r : Backward(r)' = Backward(r)
    BY <1>0, Stable
  <2>3. image'["rom"].from = range /\ \A j \in Jobs \ {"rom"} : image'[j] = image[j]
    BY <1>0 DEF TypeOK
  <2> QED
    BY <2>1, <2>2, <2>3 DEF IInv, SearchInv, CopyFits, Size
<1> QED
  BY <1>0, <1>1, <1>2, <1>3, <1>4, <1>5 DEF IInv, Typed, SearchInv

(* The next stage learns that it was booted from disk. *)
LEMMA HandOverIInv == IInv /\ HandOver => IInv'
<1> SUFFICES ASSUME IInv, HandOver PROVE IInv'
  OBVIOUS
<1> USE DEF HandOver, Goto, NotFound
<1>0. TypeOK /\ DiskFactsHold /\ disk' = disk /\ disk' \in Disks
  BY DiskFacts DEF IInv, Typed
<1>1. TypeOK'
  BY <1>0, RawFits, FirstChunkFits DEF DiskFactsHold, TypeOK, Image, Spans, Range
<1>2. Searching'
  BY <1>0, Stable DEF IInv, SearchInv, DiskFactsHold, TypeOK, Searching
<1>3. Copying'
  BY <1>0, Stable, RawFits, FirstChunkFits DEF IInv, SearchInv, DiskFactsHold, TypeOK, Copying
<1>4. Loading'
  BY <1>0, Stable DEF IInv, SearchInv, DiskFactsHold, TypeOK, Loading
<1>5. CopyFits'
  BY <1>0, Stable DEF IInv, SearchInv, DiskFactsHold, TypeOK, CopyFits, Size
<1> QED
  BY <1>0, <1>1, <1>2, <1>3, <1>4, <1>5 DEF IInv, Typed, SearchInv

(* The loader's first search. *)
LEMMA ZslStartIInv == IInv /\ ZslStart => IInv'
<1> SUFFICES ASSUME IInv, ZslStart PROVE IInv'
  OBVIOUS
<1> USE DEF ZslStart, Goto, NotFound, Jobs
<1>0. TypeOK /\ DiskFactsHold /\ disk' = disk /\ disk' \in Disks
  BY DiskFacts DEF IInv, Typed
<1>1. TypeOK'
  BY <1>0, RawFits, FirstChunkFits DEF DiskFactsHold, TypeOK, Image, Spans, Range
<1>2. Searching'
  BY <1>0, Stable DEF IInv, SearchInv, DiskFactsHold, TypeOK, Searching
<1>3. Copying'
  BY <1>0, Stable, RawFits, FirstChunkFits DEF IInv, SearchInv, DiskFactsHold, TypeOK, Copying
<1>4. Loading'
  BY <1>0, Stable DEF IInv, SearchInv, DiskFactsHold, TypeOK, Loading
<1>5. CopyFits'
  BY <1>0, Stable DEF IInv, SearchInv, DiskFactsHold, TypeOK, CopyFits, Size
<1> QED
  BY <1>0, <1>1, <1>2, <1>3, <1>4, <1>5 DEF IInv, Typed, SearchInv

(* The loader fills the buffer of its job and turns to the next. *)
LEMMA ZslCopyIInv == IInv /\ ZslCopy => IInv'
<1> SUFFICES ASSUME IInv, ZslCopy PROVE IInv'
  OBVIOUS
<1> USE DEF ZslCopy, Goto, NotFound, Copied, Spoilt, Jobs
<1>0. TypeOK /\ DiskFactsHold /\ disk' = disk /\ disk' \in Disks
  BY DiskFacts DEF IInv, Typed
<1>1. TypeOK'
  BY <1>0, RawFits, FirstChunkFits DEF DiskFactsHold, TypeOK, Image, Spans, Range
<1>2. Searching'
  BY <1>0, Stable DEF IInv, SearchInv, DiskFactsHold, TypeOK, Searching
<1>3. Copying'
  BY <1>0, Stable, RawFits, FirstChunkFits DEF IInv, SearchInv, DiskFactsHold, TypeOK, Copying
<1>4. Loading'
  <2>1. FirstWanted(job, partIdx) /\ range = Range(disk.parts[partIdx]) /\ partIdx \in Nat
    BY <1>0 DEF IInv, SearchInv, Copying, TypeOK, DiskFactsHold
  <2>2. image'[job].from = range
    BY <1>0 DEF TypeOK, Image
  <2>3. \A j \in Jobs : j = job => FoundImage(j)'
    BY <1>0, <2>1, <2>2 DEF FoundImage, FirstWanted, Wanted, Range, DiskFactsHold
  <2>4. CASE job = "dtb"
    BY <1>0, <2>3, <2>4 DEF IInv, SearchInv, Loading
  <2>5. CASE job = "fw"
    <3>1. FoundImage("dtb")
      BY <2>5 DEF IInv, SearchInv, Loading
    <3>2. image'["dtb"] = image["dtb"]
      BY <1>0, <2>5 DEF TypeOK
    <3>3. FoundImage("dtb")'
      BY <1>0, <3>1, <3>2 DEF FoundImage, FirstWanted, Wanted, Range
    <3> QED
      BY <1>0, <2>3, <2>5, <3>3 DEF IInv, SearchInv, Loading
  <2> QED
    BY <1>0, <2>4, <2>5 DEF TypeOK
<1>5. CopyFits'
  <2>1. FirstWanted(job, partIdx) /\ range = Range(disk.parts[partIdx])
    BY <1>0 DEF IInv, SearchInv, Copying
  <2>2. Size(range) <= MaxLbas[job]
    <3>1. Span(range) + 1 <= MaxLbas[job] /\ range \in Spans /\ MaxLbas[job] \in Nat
      BY <1>0, <2>1 DEF FirstWanted, Wanted, Span, Range, TypeOK, DiskFactsHold
    <3> QED
      BY <3>1, SpanFits
  <2>3. \A r : Backward(r)' = Backward(r)
    BY <1>0, Stable
  <2>4. image'[job].from = range /\ \A j \in Jobs \ {job} : image'[j] = image[j]
    BY <1>0 DEF TypeOK
  <2> QED
    BY <2>2, <2>3, <2>4 DEF IInv, SearchInv, CopyFits, Size
<1> QED
  BY <1>0, <1>1, <1>2, <1>3, <1>4, <1>5 DEF IInv, Typed, SearchInv

LEMMA NextIInv == IInv /\ [Next]_vars => IInv'
<1> SUFFICES ASSUME IInv, [Next]_vars PROVE IInv'
  OBVIOUS
<1>1. CASE Next
  BY <1>1, CheckSignatureIInv, ReadFailsIInv, ReadHeaderIInv, ReadEntryIInv,
    CheckTypeIInv, CheckIdIInv, ExhaustedIInv, FoundIInv, RomCopyIInv,
    HandOverIInv, ZslStartIInv, ZslCopyIInv DEF Next
<1>2. CASE UNCHANGED vars
  <2>1. \A r : Backward(r)' = Backward(r)
    BY <1>2, Stable DEF vars
  <2> QED
    BY <1>2, <2>1 DEF vars, IInv, Typed, TypeOK, SearchInv, Searching, Copying, Loading,
      CopyFits, FoundImage, FirstWanted, Wanted, NotFound
<1> QED
  BY <1>1, <1>2

(* The search invariant holds throughout the boot: the searches of gpt.c,  *)
(* of the boot ROM and of the loader, whichever reads fail.                *)
THEOREM SearchInvariant == Spec => []IInv
  BY InitIInv, NextIInv, PTL DEF Spec

(* The search invariant that the model-checked runs check.                 *)
THEOREM SearchesRight == Spec => []SearchInv
<1>1. IInv => SearchInv
  BY DEF IInv
<1> QED
  BY <1>1, SearchInvariant, PTL

(* Every value stays in its type: no entry past the array is read.         *)
THEOREM TypeCorrect == Spec => []TypeOK
<1>1. IInv => TypeOK
  BY DEF IInv, Typed
<1> QED
  BY <1>1, SearchInvariant, PTL

(* gpt_find_partition finds the first entry that fits the buffer and       *)
(* matches one of the GUIDs, and hands on exactly its sectors.             *)
THEOREM FirstMatch == Spec => []FindsFirst
<1>1. IInv => FindsFirst
  BY DEF IInv, SearchInv, Searching, Copying, FindsFirst, FirstWanted
<1> QED
  BY <1>1, SearchInvariant, PTL

(* It ends without a match only if no entry of the array is wanted.        *)
THEOREM CompleteSearch == Spec => []GivesUpRightly
<1>1. IInv => GivesUpRightly
  BY DEF IInv, SearchInv, Searching, GivesUpRightly
<1> QED
  BY <1>1, SearchInvariant, PTL

(* Nothing the boot ROM or the loader copies overruns the buffer of its    *)
(* job, be it a partition, the start of the first one or a raw image, for  *)
(* every table: but the ROM's copy of a first entry that ends before it    *)
(* begins, which gpt.c:48 does not cut and whose length wraps at line 82.  *)
THEOREM BoundedCopies == Spec => []CopyFits
<1>1. IInv => CopyFits
  BY DEF IInv, SearchInv
<1> QED
  BY <1>1, SearchInvariant, PTL

(* The loader launches the firmware only after it has found both of its    *)
(* partitions, if it was itself loaded from disk.                          *)
THEOREM BothBeforeLaunch == Spec => []LaunchAfterBoth
<1>1. IInv => LaunchAfterBoth
  BY DEF IInv, SearchInv, Loading, FoundImage, LaunchAfterBoth
<1> QED
  BY <1>1, SearchInvariant, PTL
----------------------------------------------------------------------------
(* The passive mode of the boot ROM.                                       *)

(* The stores that follow CFG_SPM_LOW land before the host's.              *)
PassiveInv == PassiveTypeOK /\ ResultStands /\ (PromptCommit => LaunchInv)

LEMMA PassiveBits == ~Bit0(0) /\ ~Bit1(0) /\ ~Bit0(LaunchWord) /\ Bit1(LaunchWord)
  BY DEF Bit0, Bit1, LaunchWord

LEMMA PassiveResult == \A c \in Nat : (2 * c + 1) \div 2 = c
  OBVIOUS

LEMMA PassiveInitially == PassiveInit => PassiveInv
<1> SUFFICES ASSUME PassiveInit PROVE PassiveInv
  OBVIOUS
<1> USE DEF PassiveInit, SocInit
<1>1. PassiveTypeOK
  BY WordAssumption DEF PassiveTypeOK, Booting, Entries, None
<1>2. ResultStands
  BY PassiveBits DEF ResultStands, Returned
<1>3. LaunchInv
  BY DEF LaunchInv, HostWrote, LaunchWordStands, HostWaits, Booting, None
<1> QED
  BY <1>1, <1>2, <1>3 DEF PassiveInv

LEMMA PassiveTyping == PassiveTypeOK /\ [PassiveNext]_passiveVars => PassiveTypeOK'
<1> SUFFICES ASSUME PassiveTypeOK, [PassiveNext]_passiveVars PROVE PassiveTypeOK'
  OBVIOUS
<1> USE DEF PassiveTypeOK, Booting, Entries, LaunchWord
<1>1. CASE RomStep
  <2> USE DEF RomGoto, progVars, hostVars
  <2>1. CASE WaitBist \/ EnterPlatformRom \/ LeavePlatformRom
    BY <2>1 DEF WaitBist, EnterPlatformRom, LeavePlatformRom
  <2>5. CASE SetSpmLow
    BY <2>5 DEF SetSpmLow
  <2>6. CASE SetSpmHigh
    BY <2>6 DEF SetSpmHigh
  <2>7. CASE CommitSpm
    BY <2>7 DEF CommitSpm
  <2>2. CASE InitUart \/ PollLaunch \/ CheckUart \/ ClearLaunch \/ LoadEntryHi \/ LaunchNext
    BY <2>2 DEF InitUart, PollLaunch, CheckUart, ClearLaunch, LoadEntryHi, LaunchNext
  <2>3. CASE ServeExec \/ ServeUnknown \/ ReturnToServe \/ ReturnToStage \/ RomExit \/ Ebreak
    BY <2>3 DEF ServeExec, ServeUnknown, ReturnToServe, ReturnToStage, RomExit, Ebreak
  <2>4. CASE ProgramExits
    BY <2>4, CodesAssumption DEF ProgramExits
  <2> QED
    BY <1>1, <2>1, <2>2, <2>3, <2>4, <2>5, <2>6, <2>7 DEF RomStep
<1>2. CASE HostStep
  <2> USE DEF HostGoto, progVars
  <2>1. CASE HostWait \/ HostPreload
    BY <2>1 DEF HostWait, HostPreload
  <2>2. CASE HostHi
    BY <2>2 DEF HostHi
  <2>3. CASE HostLo
    BY <2>3 DEF HostLo
  <2>4. CASE HostGo
    BY <2>4 DEF HostGo
  <2>5. CASE HostEoc
    BY <2>5 DEF HostEoc
  <2> QED
    BY <1>2, <2>1, <2>2, <2>3, <2>4, <2>5 DEF HostStep
<1>3. CASE BistDone
  <2>1. llc' \in [done : BOOLEAN, low : BOOLEAN, high : BOOLEAN, commit : BOOLEAN]
    BY <1>3 DEF BistDone
  <2> QED
    BY <1>3, <2>1 DEF BistDone, progVars, hostVars
<1>4. CASE UartByte
  BY <1>4 DEF UartByte, progVars, hostVars
<1>5. CASE UNCHANGED passiveVars
  BY <1>5 DEF passiveVars, progVars, hostVars
<1> QED
  BY <1>1, <1>2, <1>3, <1>4, <1>5 DEF PassiveNext

(* The host's side: hart 0 touches only scratch[2].                        *)
LEMMA HostSide ==
  ASSUME PassiveTypeOK, LaunchInv, PromptCommit, [PassiveNext]_passiveVars
  PROVE  HostWrote'
<1> USE DEF PassiveTypeOK, LaunchInv, HostWrote
<1>1. CASE RomStep
  BY <1>1 DEF RomStep, RomGoto, progVars, hostVars, WaitBist, SetSpmLow, SetSpmHigh, CommitSpm,
              EnterPlatformRom, LeavePlatformRom, InitUart, PollLaunch, CheckUart, ClearLaunch,
              LoadEntryHi, LaunchNext, ServeExec, ServeUnknown, ProgramExits, ReturnToServe,
              ReturnToStage, RomExit, Ebreak
<1>2. CASE HostStep
  BY <1>2 DEF HostStep, HostGoto, HostWait, HostPreload, HostHi, HostLo, HostGo, HostEoc, progVars, None
<1>3. CASE BistDone \/ UartByte \/ UNCHANGED passiveVars
  BY <1>3 DEF BistDone, UartByte, passiveVars, progVars, hostVars
<1> QED
  BY <1>1, <1>2, <1>3 DEF PassiveNext

(* The ROM's side, one step per group of instructions.                     *)
LEMMA RomSide ==
  ASSUME PassiveTypeOK, LaunchInv, PromptCommit, RomStep
  PROVE  LaunchWordStands' /\ HostWaits'
<1> USE DEF PassiveTypeOK, LaunchInv, LaunchWordStands, HostWaits, Booting, RomGoto, progVars, hostVars
<1>1. CASE WaitBist \/ SetSpmLow \/ SetSpmHigh \/ CommitSpm \/ EnterPlatformRom \/ LeavePlatformRom
  BY <1>1 DEF WaitBist, SetSpmLow, SetSpmHigh, CommitSpm, EnterPlatformRom, LeavePlatformRom
<1>2. CASE InitUart \/ CheckUart
  BY <1>2 DEF InitUart, CheckUart
<1>3. CASE PollLaunch
  BY <1>3, PassiveBits DEF PollLaunch, LaunchWord
<1>4. CASE ClearLaunch \/ LoadEntryHi
  BY <1>4 DEF ClearLaunch, LoadEntryHi, HostWrote
<1>5. CASE LaunchNext
  <2>1. [lo |-> scratch.lo, hi |-> hiReg] = want
    BY <1>5 DEF LaunchNext, HostWrote, Entries
  <2> QED
    BY <1>5, <2>1 DEF LaunchNext, HostWrote
<1>6. CASE ServeExec \/ ServeUnknown \/ ReturnToServe \/ ReturnToStage \/ RomExit \/ Ebreak
  BY <1>6 DEF ServeExec, ServeUnknown, ReturnToServe, ReturnToStage, RomExit, Ebreak
<1>7. CASE ProgramExits
  BY <1>7 DEF ProgramExits, HostWrote
<1> QED
  BY <1>1, <1>2, <1>3, <1>4, <1>5, <1>6, <1>7 DEF RomStep

(* A host that finds bit 0 set is past a program's return, if its program  *)
(* was the one launched.                                                   *)
LEMMA HostSees ==
  ASSUME PassiveTypeOK, LaunchInv, PromptCommit, HostStep
  PROVE  LaunchWordStands' /\ HostWaits'
<1> USE DEF PassiveTypeOK, LaunchInv, LaunchWordStands, HostWaits, Booting, HostGoto, progVars
<1>1. CASE HostWait \/ HostPreload \/ HostHi \/ HostLo \/ HostGo
  BY <1>1 DEF HostWait, HostPreload, HostHi, HostLo, HostGo
<1>2. CASE HostEoc
  <2>1. rom \notin Booting \union {"clear", "loadHi", "loadLo"}
    BY <1>2, PassiveBits DEF HostEoc
  <2>2. by = "bus" => rom = "return" /\ result' = code
    BY <1>2, PassiveBits, PassiveResult, CodesAssumption DEF HostEoc
  <2> QED
    BY <1>2, <2>1, <2>2 DEF HostEoc
<1> QED
  BY <1>1, <1>2 DEF HostStep

(* What the register that carries the result holds, step by step.         *)
LEMMA ResultKept ==
  ASSUME PassiveTypeOK, ResultStands, [PassiveNext]_passiveVars
  PROVE  ResultStands'
<1> USE DEF PassiveTypeOK, ResultStands, ResultIsReturn, Returned, RomGoto, HostGoto, progVars, hostVars
<1>1. CASE WaitBist \/ SetSpmLow \/ SetSpmHigh \/ CommitSpm \/ EnterPlatformRom \/ LeavePlatformRom
  BY <1>1 DEF WaitBist, SetSpmLow, SetSpmHigh, CommitSpm, EnterPlatformRom, LeavePlatformRom
<1>2. CASE InitUart \/ PollLaunch \/ CheckUart \/ LoadEntryHi \/ LaunchNext
  BY <1>2 DEF InitUart, PollLaunch, CheckUart, LoadEntryHi, LaunchNext
<1>3. CASE ClearLaunch
  BY <1>3, PassiveBits DEF ClearLaunch
<1>4. CASE ServeExec \/ ServeUnknown \/ ReturnToServe \/ ReturnToStage \/ Ebreak
  BY <1>4 DEF ServeExec, ServeUnknown, ReturnToServe, ReturnToStage, Ebreak
<1>5. CASE ProgramExits
  BY <1>5, CodesAssumption DEF ProgramExits, None
<1>6. CASE RomExit
  BY <1>6 DEF RomExit
<1>7. CASE HostWait \/ HostPreload
  BY <1>7 DEF HostWait, HostPreload
<1>8. CASE HostHi \/ HostLo
  BY <1>8 DEF HostHi, HostLo
<1>9. CASE HostGo
  BY <1>9, PassiveBits DEF HostGo
<1>10. CASE HostEoc
  BY <1>10, PassiveResult DEF HostEoc
<1>11. CASE BistDone \/ UartByte \/ UNCHANGED passiveVars
  BY <1>11 DEF BistDone, UartByte, passiveVars
<1> QED
  BY <1>1, <1>2, <1>3, <1>4, <1>5, <1>6, <1>7, <1>8, <1>9, <1>10, <1>11
    DEF PassiveNext, RomStep, HostStep

(* Both invariants are inductive.                                          *)
LEMMA PassiveStep == PassiveInv /\ [PassiveNext]_passiveVars => PassiveInv'
<1> SUFFICES ASSUME PassiveInv, [PassiveNext]_passiveVars PROVE PassiveInv'
  OBVIOUS
<1>1. PassiveTypeOK' /\ ResultStands'
  BY PassiveTyping, ResultKept DEF PassiveInv
<1>2. ASSUME PromptCommit PROVE LaunchInv'
  <2>1. HostWrote'
    BY <1>2, HostSide DEF PassiveInv
  <2>2. CASE BistDone \/ UartByte \/ UNCHANGED passiveVars
    BY <1>2, <2>1, <2>2 DEF PassiveInv, LaunchInv, LaunchWordStands, HostWaits, BistDone, UartByte,
                            passiveVars, progVars, hostVars
  <2> QED
    BY <1>2, <2>1, <2>2, RomSide, HostSees DEF PassiveInv, LaunchInv, PassiveNext
<1> QED
  BY <1>1, <1>2 DEF PassiveInv

(* The invariant of the passive modes.                                     *)
THEOREM LaunchInvariant == PassiveSpec => []PassiveInv
  BY PassiveInitially, PassiveStep, PTL DEF PassiveSpec

(* Every variable of the passive mode keeps its type.                      *)
THEOREM PassiveTypes == PassiveSpec => []PassiveTypeOK
<1>1. PassiveInv => PassiveTypeOK
  BY DEF PassiveInv
<1> QED
  BY <1>1, LaunchInvariant, PTL

----------------------------------------------------------------------------
(* The boot ROM in all its modes.                                          *)
BootInv ==
  /\ IInv /\ PassiveTypeOK /\ ResultStands
  /\ PromptCommit /\ ~OnDisk => LaunchInv
  /\ OnDisk => by # "bus"

LEMMA BootInitially == BootInit => BootInv
<1> SUFFICES ASSUME BootInit PROVE BootInv
  OBVIOUS
<1>1. IInv
  BY InitIInv DEF BootInit
<1>2. PassiveTypeOK
  BY WordAssumption DEF BootInit, SocInit, PassiveTypeOK, Booting, Entries, None
<1>3. ResultStands
  BY PassiveBits DEF BootInit, SocInit, ResultStands, Returned
<1>4. ~OnDisk => LaunchInv
  BY DEF BootInit, SocInit, LaunchInv, HostWrote, LaunchWordStands, HostWaits, Booting, None
<1>5. by # "bus"
  BY DEF BootInit, SocInit
<1> QED
  BY <1>1, <1>2, <1>3, <1>4, <1>5 DEF BootInv

(* A step of a passive mode is one of PassiveBoot, and of the preloaded    *)
(* loader.                                                                 *)
LEMMA PassiveModes ==
  ASSUME BootInv, ~OnDisk, [BootNext]_bootVars
  PROVE  BootInv'
<1>1. [PassiveNext]_passiveVars /\ [Next]_vars /\ mode' = mode
  BY DEF BootNext, Hart, Host, Passive, StartPreloaded, Shared, InitDevice, Search, LaunchDisk,
         SearchFails, StageExits, HostPolls, SelfTestEnds, PassiveNext, Next, bootVars, passiveVars,
         progVars, hostVars
<1>2. IInv' /\ (PassiveTypeOK /\ ResultStands)'
  BY <1>1, NextIInv, PassiveTyping, ResultKept DEF BootInv
<1>3. PromptCommit => LaunchInv'
  BY <1>1, PassiveStep DEF BootInv, PassiveInv
<1> QED
  BY <1>1, <1>2, <1>3 DEF BootInv, OnDisk

(* In the others the ROM alone writes the register of the result, and each *)
(* step is one of the search's or of those shared with the passive modes.  *)
LEMMA DiskModes ==
  ASSUME BootInv, OnDisk, [BootNext]_bootVars
  PROVE  BootInv'
<1>1. mode' = mode /\ [Next]_vars
  BY DEF BootNext, Hart, Host, Passive, StartPreloaded, Shared, InitDevice, Search, LaunchDisk,
         SearchFails, StageExits, HostPolls, SelfTestEnds, Next, bootVars
<1>2. IInv'
  BY <1>1, NextIInv DEF BootInv
<1>3. CASE InitDevice \/ SearchFails
  <2> USE DEF InitDevice, SearchFails, RomGoto, hostVars
  <2>1. /\ rom \in Booting \union {"disk"} /\ rom' \in {"disk", "exit"}
        /\ UNCHANGED <<llc, scratch, rx, hiReg, by, at, hostVars>>
        /\ code' = code \/ code' \in Codes
        /\ rom' = "exit" => code' \in Codes
    BY <1>3 DEF Booting
  <2>2. PassiveTypeOK'
    <3>1. rom' \in Booting \union {"clear", "loadHi", "loadLo", "program", "return", "exit", "ebreak", "debug", "trap", "disk"}
      BY <2>1
    <3>2. code \in Int /\ result \in Int /\ Codes \subseteq Int
      BY CodesAssumption DEF BootInv, PassiveTypeOK
    <3>3. Entries' = Entries /\ {code', result'} \subseteq Int
      BY <2>1, <3>2 DEF Entries
    <3> QED
      BY <2>1, <3>1, <3>2, <3>3 DEF BootInv, PassiveTypeOK, Booting
  <2>3. ~Bit0(scratch.s2) /\ result = None
    BY <2>1 DEF BootInv, ResultStands, Returned, Booting
  <2>4. ResultStands'
    BY <2>1, <2>3, CodesAssumption, Zenon DEF ResultStands, ResultIsReturn, Returned, Bit0
  <2> QED
    BY <1>1, <1>2, <2>1, <2>2, <2>4 DEF BootInv, OnDisk
<1>4. CASE LaunchDisk
  BY <1>1, <1>2, <1>4
    DEF BootInv, LaunchDisk, RomGoto, hostVars, OnDisk, PassiveTypeOK, Booting, Entries,
        ResultStands, ResultIsReturn, Returned
<1>5. CASE Shared \/ StageExits \/ HostPolls \/ SelfTestEnds \/ Search \/ UNCHANGED bootVars
  <2>1. [PassiveNext]_passiveVars
    BY <1>5 DEF Shared, StageExits, HostPolls, SelfTestEnds, Search, PassiveNext, RomStep, HostStep, bootVars
  <2>2. (PassiveTypeOK /\ ResultStands)'
    BY <2>1, PassiveTyping, ResultKept DEF BootInv
  <2>3. by' = by
    BY <1>5 DEF Shared, StageExits, HostPolls, SelfTestEnds, Search, bootVars, passiveVars, progVars,
      hostVars, WaitBist, SetSpmLow, SetSpmHigh, CommitSpm, EnterPlatformRom, LeavePlatformRom,
      RomExit, Ebreak, ReturnToStage, ProgramExits, HostEoc, BistDone
  <2> QED
    BY <1>1, <1>2, <2>2, <2>3 DEF BootInv, OnDisk
<1> QED
  BY <1>3, <1>4, <1>5 DEF BootNext, Hart, Host, Passive, StartPreloaded

(* The invariant of the boot ROM, from reset on, in every mode.            *)
THEOREM BootInvariant == BootSpec => []BootInv
<1>1. BootInv /\ [BootNext]_bootVars => BootInv'
  BY PassiveModes, DiskModes
<1> QED
  BY <1>1, BootInitially, PTL DEF BootSpec

(* A program launched through the scratch registers is entered at the      *)
(* address its host wrote, both halves of it, with its image in place, if  *)
(* the LLC's commit is prompt.                                             *)
THEOREM WholeLaunch == BootSpec => [](PromptCommit => LaunchWhole)
<1>1. BootInv => (PromptCommit => LaunchWhole)
  BY DEF BootInv, LaunchInv, HostWrote, HostWaits, LaunchWhole
<1> QED
  BY <1>1, BootInvariant, PTL

(* The code a host reads is the one its program, or the ROM's main, has    *)
(* returned, in every mode and whether or not the commit is prompt.        *)
THEOREM RightResult == BootSpec => []ResultIsReturn
<1>1. BootInv => ResultIsReturn
  BY DEF BootInv, ResultStands, ResultIsReturn
<1> QED
  BY <1>1, BootInvariant, PTL

(* The searches of the ROM and of the loader it launches are right, and    *)
(* the loader launches only after both of its own.                         *)
THEOREM BootSearches == BootSpec => [](SearchInv /\ LaunchAfterBoth)
<1>1. BootInv => SearchInv /\ LaunchAfterBoth
  BY DEF BootInv, IInv, SearchInv, Loading, FoundImage, LaunchAfterBoth
<1> QED
  BY <1>1, BootInvariant, PTL
=============================================================================
