------------------------------ MODULE Preload -------------------------------
(***************************************************************************)
(* Preloading: the ELF loader of the test bench                            *)
(* (target/sim/src/elfloader.cpp) under the hosts that write its sections  *)
(* into memory, over the serial link or over JTAG's system bus access      *)
(* (target/sim/src/vip_cheshire_soc.sv).                                   *)
(*                                                                         *)
(* An address is a byte; a byte of the file is named by its segment and    *)
(* its offset.  Section headers and symbols are looked at by the loader    *)
(* but change nothing and are left out, as is the width of the ELF class.  *)
(***************************************************************************)
EXTENDS Integers, Sequences

CONSTANTS
  Addresses,   (* The addresses of the memory, 0 .. a number.               *)
  Beat,        (* Bytes of a bus beat and of a JTAG double word: 8.         *)
  BurstBytes,  (* SlinkBurstBytes, the longest burst: 1024.                 *)
  PageBytes,   (* No burst may cross a multiple of it: 4096.                *)
  Files        (* [entry, segs, defect] records: see FileAssumption.        *)

ASSUME BeatAssumption ==
  /\ {Beat, BurstBytes, PageBytes} \subseteq Nat \ {0}
  /\ PageBytes % Beat = 0 /\ BurstBytes % Beat = 0

VARIABLES
  phase,
  via, posix,      (* "slink" or "jtag"; which read_elf is compiled in.     *)
  file,
  header,          (* Program headers looked at.                            *)
  entry, sections, (* The loader's entry, sections and mems; section_index. *)
  index,
  bf, offs,        (* The host's copy of a section; bytes of it written.    *)
  halted,          (* JTAG holds hart 0.                                    *)
  launched,        (* Where hart 0 was sent.                                *)
  ram              (* The memory.                                           *)

loader   == <<posix, file, header, entry, sections>>
loadVars == <<phase, via, loader, index, bf, offs, halted, launched, ram>>

Old       == -1
Zero      == 0
Nowhere   == -1
ByteOf(seg, o) == 100 * seg.id + o + 1

(* The fields of the headers that the loader uses, and what may be wrong.  *)
Segment == [id : Nat, type : {"load", "other"}, paddr : Nat, filesz : Nat, memsz : Nat]

Defects == {"none", "open", "stat", "map", "read", "small", "magic", "phdrs", "data", "shdrs"}

ASSUME FileAssumption == Files \subseteq [entry : Nat \ {0}, segs : Seq(Segment), defect : Defects]

Held(s)    == s.type = "load" /\ s.filesz > 0
BytesOf(s) == s.paddr .. s.paddr + s.memsz - 1

(* A file's segments lie in the memory.                                    *)
ASSUME MemoryAssumption ==
  /\ Addresses \subseteq Nat
  /\ \A f \in Files : \A k \in DOMAIN f.segs : Held(f.segs[k]) => BytesOf(f.segs[k]) \subseteq Addresses

(* System bus access takes aligned double words only.                      *)
LoadInit ==
  /\ phase = "wait" /\ via \in {"slink", "jtag"} /\ posix \in BOOLEAN
  /\ file \in Files
  /\ via = "jtag" => \A k \in DOMAIN file.segs : file.segs[k].paddr % Beat = 0
  /\ header = 0 /\ entry = 0 /\ sections = <<>> /\ index = 0
  /\ bf = <<>> /\ offs = 0
  /\ halted = FALSE /\ launched = Nowhere
  /\ ram = [a \in Addresses |-> Old]

Proceed(from, to) == phase = from /\ phase' = to

----------------------------------------------------------------------------
(* read_elf and load_elf.                                                  *)

PosixErrors    == {"open", "stat", "small", "map", "magic"}
PortableErrors == {"open", "read", "small", "magic"}
ReadError == file.defect \in IF posix THEN PosixErrors ELSE PortableErrors

(* Loadable segments of which the file holds something.                    *)
LoadableAny(seg) == seg.memsz > 0 /\ seg.filesz > 0
Loadable(seg)    == seg.type = "load" /\ seg.memsz > 0 /\ seg.filesz > 0

(* load_elf up to its loop over the program headers.                       *)
LoadElf ==
  IF file.defect = "phdrs"
    THEN phase' = "sections" /\ UNCHANGED entry
    ELSE phase' = "headers" /\ entry' = file.entry

ReadElf ==
  /\ phase = "read"
  /\ IF ReadError THEN phase' = "fatal" /\ UNCHANGED entry ELSE LoadElf
  /\ UNCHANGED <<via, posix, file, header, sections, index, bf, offs, halted, launched, ram>>

NextHeader ==
  /\ phase = "headers" /\ header < Len(file.segs)
  /\ header' = header + 1
  /\ IF ~Loadable(file.segs[header + 1]) THEN UNCHANGED <<phase, sections>>
     ELSE IF file.defect = "data" THEN phase' = "aborted" /\ UNCHANGED sections
     ELSE sections' = Append(sections, file.segs[header + 1]) /\ UNCHANGED phase
  /\ UNCHANGED <<via, posix, file, entry, index, bf, offs, halted, launched, ram>>

HeadersDone ==
  /\ Proceed("headers", "sections") /\ header = Len(file.segs)
  /\ UNCHANGED <<via, loader, index, bf, offs, halted, launched, ram>>

(* The first write to an address is the one that stays in the map.         *)
Holder(seg) == CHOOSE k \in DOMAIN sections :
                 /\ sections[k].paddr = seg.paddr
                 /\ \A j \in 1 .. k - 1 : sections[j].paddr # seg.paddr

(* get_section and read_section, into a buffer of zeros of memsz bytes.    *)
NextSection ==
  /\ phase = "sections" /\ index < Len(sections)
  /\ LET seg == sections[index + 1]
         src == sections[Holder(seg)]
     IN  /\ phase' = IF src.filesz > seg.memsz THEN "fatal" ELSE "write"
         /\ bf' = [k \in 1 .. seg.memsz |-> IF k <= src.filesz THEN ByteOf(src, k - 1) ELSE Zero]
  /\ index' = index + 1 /\ offs' = 0
  /\ UNCHANGED <<via, loader, halted, launched, ram>>

----------------------------------------------------------------------------
(* The hosts.                                                              *)

(* Both wait for the last-level cache; JTAG then halts hart 0.             *)
WaitForLlc ==
  /\ Proceed("wait", "read")
  /\ halted' = (via = "jtag")
  /\ UNCHANGED <<via, loader, index, bf, offs, launched, ram>>

SecAddr == sections[index].paddr
SecLen  == Len(bf)
Cur     == SecAddr + offs

(* Every beat or double word is written whole: what the section does not   *)
(* hold of it becomes zero.                                                *)
Store(first, last, from, to) ==
  ram' = [a \in Addresses |->
            IF a \notin first .. last THEN ram[a]
            ELSE IF a \in from .. to THEN bf[a - SecAddr + 1] ELSE Zero]

Smaller(a, b) == IF a < b THEN a ELSE b

(* A burst ends at the section's end, at its longest, or at a page.        *)
BurstLenAnyPage == Smaller(BurstBytes, SecLen - offs)
BurstLen   == Smaller(Smaller(BurstBytes, SecLen - offs), PageBytes - (Cur % PageBytes))
BurstFirst == Cur - (Cur % Beat)
BurstBeats == ((Cur % Beat) + BurstLen + Beat - 1) \div Beat
BurstLast  == BurstFirst + BurstBeats * Beat - 1

WriteBurst ==
  /\ phase = "write" /\ via = "slink" /\ offs < SecLen
  /\ Store(BurstFirst, BurstLast, Cur, Cur + BurstLen - 1)
  /\ offs' = offs + BurstLen
  /\ UNCHANGED <<phase, via, loader, index, bf, halted, launched>>

(* The loop runs up to and including the length.                           *)
JtagMoreLoose == offs <= SecLen + Beat
JtagMore == offs <= SecLen

WriteDouble ==
  /\ phase = "write" /\ via = "jtag" /\ JtagMore
  /\ Store(Cur, Cur + Beat - 1, Cur, Smaller(Cur + Beat, SecAddr + SecLen) - 1)
  /\ offs' = offs + Beat
  /\ UNCHANGED <<phase, via, loader, index, bf, halted, launched>>

SectionDone ==
  /\ Proceed("write", "sections")
  /\ IF via = "slink" THEN offs >= SecLen ELSE ~JtagMore
  /\ UNCHANGED <<via, loader, index, bf, offs, halted, launched, ram>>

(* Through the scratch registers, or the program counter and a resume.     *)
Launch ==
  /\ Proceed("sections", "launched")
  /\ index >= Len(sections)
  /\ launched' = entry /\ halted' = FALSE
  /\ UNCHANGED <<via, loader, index, bf, offs, ram>>

----------------------------------------------------------------------------
LoadNext ==
  \/ WaitForLlc \/ ReadElf \/ NextHeader \/ HeadersDone \/ NextSection
  \/ WriteBurst \/ WriteDouble \/ SectionDone \/ Launch
LoadSpec == LoadInit /\ [][LoadNext]_loadVars

----------------------------------------------------------------------------
Segs == {file.segs[k] : k \in DOMAIN file.segs}

(* Files as linkers make them: segments in ascending order, in beats of    *)
(* their own, no longer in the file than in memory.                        *)
BeatOf(a) == a \div Beat

Tidy ==
  /\ \A s \in Segs : Held(s) => s.filesz <= s.memsz
  /\ \A k, j \in DOMAIN file.segs :
       LET s == file.segs[k]
           t == file.segs[j]
       IN  k < j /\ Held(s) /\ Held(t) => BeatOf(s.paddr + s.memsz - 1) < BeatOf(t.paddr)

(* Bytes that the next burst clears again: of a segment that starts within *)
(* a beat, those before a cut between two bursts of its first page that    *)
(* share the cut's beat.                                                   *)
Lost(s) ==
  {a \in BytesOf(s) : \E k \in 1 .. s.memsz \div BurstBytes :
     LET cut == s.paddr + k * BurstBytes
     IN  /\ via = "slink" /\ cut \div PageBytes = s.paddr \div PageBytes
         /\ cut < s.paddr + s.memsz /\ a < cut /\ BeatOf(a) = BeatOf(cut)}

(* A hart that is launched by either host, from a file whose headers are   *)
(* whole, starts at the file's entry, and finds, of a tidy file, every     *)
(* byte that the file holds in memory, except those lost between the       *)
(* bursts of a segment that starts within a beat.                          *)
ImageLaunched ==
  phase = "launched" /\ file.defect # "phdrs" =>
    /\ launched = file.entry
    /\ Tidy => \A s \in Segs : Held(s) =>
         \A a \in BytesOf(s) \ Lost(s) :
           a - s.paddr < s.filesz => ram[a] = ByteOf(s, a - s.paddr)

(* Whatever the file and its sections' order, the hosts change no byte     *)
(* but of their sections and of the beats these share; JTAG changes up to  *)
(* one double word more.                                                   *)
Around(s) ==
  IF via = "slink" THEN s.paddr - (s.paddr % Beat) .. s.paddr + s.memsz - 1 + ((-(s.paddr + s.memsz)) % Beat)
                    ELSE s.paddr .. s.paddr + (s.memsz \div Beat + 1) * Beat - 1

NothingElse ==
  \A a \in Addresses : ram[a] # Old => \E s \in Segs : Held(s) /\ a \in Around(s)

(* No burst crosses a page, carries more beats than an unaligned longest   *)
(* one has, or is empty, which slink_write_beats takes for fatal.          *)
BurstsFit ==
  phase = "write" /\ via = "slink" /\ offs < SecLen =>
    /\ BurstFirst \div PageBytes = BurstLast \div PageBytes
    /\ BurstBeats \in 1 .. BurstBytes \div Beat + 1
=============================================================================
