------------------------------ MODULE GptBoot ------------------------------
(***************************************************************************)
(* Autonomous boot from a disk: the partition search of sw/lib/gpt.c, the  *)
(* boot ROM's use of it (gpt_boot_part_else_raw) and the zero-stage        *)
(* loader's (load_part_or_spin and main of sw/boot/zsl.c).                 *)
(*                                                                         *)
(* Three jobs search the same disk, one after the other: "rom" for the     *)
(* zero-stage loader, then, in the loader, "dtb" for the device tree and   *)
(* "fw" for the firmware.  Each read of the disk is a call of a driver,    *)
(* which returns an error or the disk's data.                              *)
(*                                                                         *)
(* Nothing checks the entries of a table: one may end before it begins.    *)
(* Sector numbers are unsigned words of 64 bits and wrap around, and so do *)
(* lengths in bytes, of which a sector takes 2^9.                          *)
(***************************************************************************)
EXTENDS Integers

CONSTANTS
  Lbas,       (* 2^64, the number of sector numbers.                        *)
  Sectors,    (* 2^55, where a length in sectors wraps around in bytes.     *)
  Disks,      (* Disks that may be inserted; see DiskAssumption.            *)
  MaxLbas,    (* max_lbas of each job.                                      *)
  Tguid,      (* Partition type each job looks for, or NoGuid.              *)
  Pguid,      (* Partition identity each job looks for, or NoGuid.          *)
  ZslType,    (* The type of a zero-stage loader partition.                 *)
  Unused,     (* The all-zero type of an unused partition entry.            *)
  NoGuid,     (* A null GUID pointer.                                       *)
  ReadMayFail (* A driver's read may return an error.                       *)

Jobs == {"rom", "dtb", "fw"}

Lba == 0 .. Lbas - 1

(* parts[0 .. count-1] is the partition entry array.                       *)
ASSUME DiskAssumption ==
  \A d \in Disks :
    /\ d.signed \in BOOLEAN /\ d.count \in Nat
    /\ \A q \in 0 .. d.count - 1 : d.parts[q].begin \in Lba /\ d.parts[q].end \in Lba
ASSUME WidthAssumption   == Lbas \in Nat \ {0} /\ Sectors \in Nat \ {0}
ASSUME MaxLbasAssumption == MaxLbas \in [Jobs -> 1 .. Lbas]

VARIABLES
  disk,
  job,
  pc,
  p,         (* Loop index of gpt_find_partition.                           *)
  dim,       (* The begin and end read from entry p.                        *)
  range,     (* lba_begin and lba_end.                                      *)
  partIdx,   (* part_idx, with NotFound for -1.                             *)
  gptRead,   (* Bit 0 of scratch[0]: a read function is in scratch[0 .. 3]. *)
  image      (* What each job's buffer holds.                               *)

vars == <<disk, job, pc, p, dim, range, partIdx, gptRead, image>>

NotFound == disk.count

Wrap(n) == IF n >= Lbas THEN n - Lbas ELSE IF n < 0 THEN n + Lbas ELSE n

(* lba_end - lba_begin, and the sectors that 0x200 * (lba_end - lba_begin  *)
(* + 1) bytes are.                                                         *)
Span(d) == Wrap(d.end - d.begin)
Size(d) == Wrap(Span(d) + 1) % Sectors
RawRange(j) == [begin |-> 0, end |-> MaxLbas[j] - 1]

(* The image of a buffer: untouched, filled from a range of the disk, or   *)
(* left half written by a read that failed.                                *)
Nothing   == [state |-> "none", from |-> [begin |-> 0, end |-> 0]]
Copied(r) == [state |-> "copied", from |-> r]
Spoilt(r) == [state |-> "spoilt", from |-> r]

Init ==
  /\ disk    \in Disks
  /\ job     = "rom"
  /\ p       = 0
  /\ dim     = [begin |-> 0, end |-> 0]
  /\ range   = RawRange("rom")
  /\ partIdx = NotFound
  /\ \/ pc = "sig" /\ gptRead = FALSE
        /\ image = [j \in Jobs |-> Nothing]
     \/ pc = "zsl" /\ gptRead = FALSE    (* the loader, fw and dtb preloaded *)
        /\ image = [j \in Jobs |-> Copied(RawRange(j))]

Goto(from, to) == pc = from /\ pc' = to

(* Where an error of a search leads: out of main in the boot ROM, and into *)
(* an endless wfi loop in the loader.                                      *)
Failed == IF job = "rom" THEN "exit" ELSE "spin"

----------------------------------------------------------------------------
(* gpt_check_signature: a failed read counts as no signature.              *)
CheckSignature ==
  /\ \/ Goto("sig", IF disk.signed THEN "header" ELSE "copy")
     \/ ReadMayFail /\ Goto("sig", "copy")
  /\ UNCHANGED <<disk, job, p, dim, range, partIdx, gptRead, image>>

(* gpt_find_partition: every read that fails ends the search.              *)
ReadFails ==
  /\ ReadMayFail
  /\ \/ pc \in {"header", "type", "id"}
     \/ pc = "entry" /\ p < disk.count
  /\ pc' = Failed
  /\ UNCHANGED <<disk, job, p, dim, range, partIdx, gptRead, image>>

ReadHeader ==
  /\ Goto("header", "entry")
  /\ p' = 0
  /\ UNCHANGED <<disk, job, dim, range, partIdx, gptRead, image>>

(* Where an entry that fits leads: its type is read if one is wanted, then *)
(* its identity if one is wanted.                                          *)
AfterType == IF Pguid[job] # NoGuid THEN "id" ELSE "entry"
AfterDim  == IF Tguid[job] # NoGuid THEN "type" ELSE AfterType

StaysPut(to)  == p' = p
Skips(to) == p' = IF to = "entry" THEN p + 1 ELSE p

FitsLoose(d) == ~(Span(d) > MaxLbas[job])
Fits(d)      == ~(Span(d) >= MaxLbas[job])

FirstChunk(d) ==
  LET last == Wrap(d.begin + MaxLbas[job] - 1)
  IN  [begin |-> d.begin, end |-> IF d.end <= last THEN d.end ELSE last]

(* Read the dimensions of entry p; record those of entry 0 in any case.    *)
ReadEntry ==
  /\ p < disk.count
  /\ LET d  == [begin |-> disk.parts[p].begin, end |-> disk.parts[p].end]
         to == IF Fits(d) THEN AfterDim ELSE "entry"
     IN  /\ Goto("entry", to)
         /\ Skips(to)
         /\ dim'   = d
         /\ range' = IF p = 0 THEN FirstChunk(d) ELSE range
  /\ UNCHANGED <<disk, job, partIdx, gptRead, image>>

CheckType ==
  /\ LET to == IF disk.parts[p].type = Tguid[job] THEN "found" ELSE AfterType
     IN  Goto("type", to) /\ Skips(to)
  /\ UNCHANGED <<disk, job, dim, range, partIdx, gptRead, image>>

CheckId ==
  /\ LET to == IF disk.parts[p].id = Pguid[job] THEN "found" ELSE "entry"
     IN  Goto("id", to) /\ Skips(to)
  /\ UNCHANGED <<disk, job, dim, range, partIdx, gptRead, image>>

(* The loop ends without a match: the boot ROM copies the recorded range,  *)
(* the loader gives up.                                                    *)
Exhausted ==
  /\ Goto("entry", IF job = "rom" THEN "copy" ELSE "spin")
  /\ p >= disk.count
  /\ partIdx' = NotFound
  /\ UNCHANGED <<disk, job, p, dim, range, gptRead, image>>

(* part_idx and the range are written only after the loop.                 *)
Found ==
  /\ Goto("found", "copy")
  /\ partIdx' = p
  /\ range'   = dim
  /\ UNCHANGED <<disk, job, p, dim, gptRead, image>>

----------------------------------------------------------------------------
(* gpt_boot_part_else_raw: copy, then tell the next stage how to read.     *)
RomCopy ==
  /\ job = "rom"
  /\ \/ /\ Goto("copy", "handOver")
        /\ image' = [image EXCEPT !["rom"] = Copied(range)]
     \/ /\ ReadMayFail
        /\ Goto("copy", "exit")
        /\ image' = [image EXCEPT !["rom"] = Spoilt(range)]
  /\ UNCHANGED <<disk, job, p, dim, range, partIdx, gptRead>>

(* scratch[0] = read | 1, scratch[1], scratch[3]; boot_next_stage.  A      *)
(* partition of its type holds the loader, and any other copy may hold it. *)
HandOver ==
  /\ pc = "handOver"
  /\ pc' \in IF partIdx # NotFound /\ disk.parts[partIdx].type = ZslType
               THEN {"zsl"} ELSE {"zsl", "other"}
  /\ gptRead' = TRUE
  /\ UNCHANGED <<disk, job, p, dim, range, partIdx, image>>

(* main of the loader: load both images unless they were preloaded.        *)
ZslStart ==
  /\ Goto("zsl", IF gptRead THEN "header" ELSE "launch")
  /\ job' = IF gptRead THEN "dtb" ELSE job
  /\ UNCHANGED <<disk, p, dim, range, partIdx, gptRead, image>>

(* load_part_or_spin does not look at what the copy returns.               *)
ZslCopyForward ==
  /\ job # "rom"
  /\ Goto("copy", "launch")
  /\ image' = [image EXCEPT ![job] = Copied(range)]
  /\ UNCHANGED <<disk, job, p, dim, range, partIdx, gptRead>>

ZslCopy ==
  /\ job # "rom"
  /\ Goto("copy", IF job = "dtb" THEN "header" ELSE "launch")
  /\ job' = "fw"
  /\ \/ image' = [image EXCEPT ![job] = Copied(range)]
     \/ ReadMayFail /\ image' = [image EXCEPT ![job] = Spoilt(range)]
  /\ UNCHANGED <<disk, p, dim, range, partIdx, gptRead>>

Next ==
  \/ CheckSignature \/ ReadFails \/ ReadHeader \/ ReadEntry
  \/ CheckType \/ CheckId \/ Exhausted \/ Found
  \/ RomCopy \/ HandOver \/ ZslStart \/ ZslCopy

Spec == Init /\ [][Next]_vars

----------------------------------------------------------------------------
(* What a search is for, apart from how it goes about it.                  *)
Range(d) == [begin |-> d.begin, end |-> d.end]

Wanted(j, q) ==
  /\ q < disk.count
  /\ Span(disk.parts[q]) + 1 <= MaxLbas[j]
  /\ \/ Tguid[j] # NoGuid /\ disk.parts[q].type = Tguid[j]
     \/ Pguid[j] # NoGuid /\ disk.parts[q].id = Pguid[j]

FirstWanted(j, q) ==
  Wanted(j, q) /\ \A r \in 0 .. q - 1 : ~Wanted(j, r)

Spans == [begin : Lba, end : Lba]
Image == [state : {"none", "copied", "spoilt"}, from : Spans]

TypeOK ==
  /\ job \in Jobs
  /\ pc \in {"sig", "header", "entry", "type", "id", "found", "copy", "handOver",
             "zsl", "launch", "other", "exit", "spin"}
  /\ p \in 0 .. disk.count
  /\ dim \in Spans /\ range \in Spans
  /\ partIdx \in 0 .. disk.count
  /\ gptRead \in BOOLEAN
  /\ image \in [Jobs -> Image]

(* A search that ends at an entry ends at the first one that fits and      *)
(* matches, whatever entries come before it, and takes exactly its range.  *)
FindsFirst ==
  /\ pc = "found" => FirstWanted(job, p) /\ dim = Range(disk.parts[p])
  /\ pc = "copy" /\ partIdx # NotFound =>
       FirstWanted(job, partIdx) /\ range = Range(disk.parts[partIdx])

(* A search that gives up does so only when no entry is wanted.            *)
GivesUpRightly ==
  pc = "entry" /\ p = disk.count => \A q \in 0 .. disk.count - 1 : ~Wanted(job, q)

(* The ROM's copy for want of a match, when the first entry ends before it *)
(* begins: the smaller bound is the end, and the length wraps around.      *)
Backward(r) ==
  /\ disk.count > 0 /\ r = Range(disk.parts[0]) /\ r.end < r.begin
  /\ \A q \in 0 .. disk.count - 1 : ~Wanted("rom", q)

(* No copy is longer than the buffer of its job, be it a partition that    *)
(* matched, one that wraps around, the start of the first partition or the *)
(* raw start of the disk; only the ROM's copy of a first entry that ends   *)
(* before it begins can be.                                                *)
CopyFits ==
  \A j \in Jobs :
    image[j].state # "none" =>
      Size(image[j].from) <= MaxLbas[j] \/ (j = "rom" /\ Backward(image[j].from))

(* The loader never launches a firmware it has not looked for: if it was   *)
(* booted from disk, both of its jobs have found their partition.          *)
LaunchAfterBoth ==
  pc = "launch" /\ gptRead =>
    \A j \in {"dtb", "fw"} :
      \E q \in 0 .. disk.count - 1 :
        FirstWanted(j, q) /\ image[j].from = Range(disk.parts[q])

(* The inductive invariant behind the properties above, for every disk:    *)
(* while a search is at entry p, no entry before it is wanted; past the    *)
(* check of its size, entry p fits, and its dimensions are those read; at  *)
(* the check of its identity its type has not matched.                     *)
Searching ==
  /\ pc \in {"entry", "type", "id", "found"} =>
       p <= disk.count /\ \A q \in 0 .. p - 1 : ~Wanted(job, q)
  /\ pc \in {"type", "id", "found"} =>
       /\ p < disk.count
       /\ dim = Range(disk.parts[p]) /\ Span(dim) + 1 <= MaxLbas[job]
  /\ pc = "type"  => Tguid[job] # NoGuid
  /\ pc = "id"    => /\ Pguid[job] # NoGuid
                     /\ Tguid[job] = NoGuid \/ disk.parts[p].type # Tguid[job]
  /\ pc = "found" => Wanted(job, p)

(* What is to be copied is what was found; only the boot ROM copies a      *)
(* range it has not found, cut to its buffer unless it is backward.        *)
Copying ==
  /\ pc = "sig" => partIdx = NotFound /\ range = RawRange("rom")
  /\ pc = "copy" /\ partIdx # NotFound =>
       FirstWanted(job, partIdx) /\ range = Range(disk.parts[partIdx])
  /\ pc = "copy" /\ job # "rom" => partIdx # NotFound
  /\ pc = "header" /\ job = "rom" => Size(range) <= MaxLbas["rom"]
  /\ pc \in {"entry", "type", "id", "found"} /\ job = "rom" =>
       \/ Size(range) <= MaxLbas["rom"]
       \/ disk.count > 0 /\ range = Range(disk.parts[0]) /\ range.end < range.begin
  /\ pc = "copy" /\ job = "rom" => Size(range) <= MaxLbas["rom"] \/ Backward(range)

(* The loader goes through its jobs in order, and each image comes from    *)
(* the partition of its job.                                               *)
FoundImage(j) ==
  \E q \in 0 .. disk.count - 1 :
    FirstWanted(j, q) /\ image[j].from = Range(disk.parts[q])

Loading ==
  /\ pc \in {"sig", "handOver", "zsl"} => job = "rom"
  /\ gptRead /\ job = "fw" => FoundImage("dtb")
  /\ gptRead /\ pc = "launch" => job = "fw" /\ FoundImage("fw")
  /\ job \in {"dtb", "fw"} => gptRead

SearchInv == Searching /\ Copying /\ Loading /\ CopyFits
=============================================================================
