# Cheshire: a TLA+ model of the boot path and its drivers

Cheshire is a Linux-capable RISC-V SoC. Its top level is wiring around external IP; what the
repository itself decides is *software*: the boot ROM with its drivers, the zero-stage loader, the
runtime of the programs, and the test bench's hosts that talk to that software over serial link, UART
and JTAG. The modules here model that software and its peers, one atomic access to shared state at a
time, down to the order of single register accesses where the order matters.

Files: `X.tla` is a component, `MCX.tla` gives it small sets for TLC, `X.cfg` is a run, `XProofs.tla`
holds its theorems (`BootProofs` those of `Boot` and its parts, `StartProofs` those of `SmpBoot`,
`Runtime` and `Preload`). `PROJECT.json` maps every definition to the lines it models.

## 1. Inventory

Paths are those of `src/`; `vip` is `target/sim/src/vip_cheshire_soc.sv`.

| component | source | state | operations | modelled in |
|---|---|---|---|---|
| Multi-hart hand-over | `sw/include/smp.h`, `hw/bootrom/cheshire_bootrom.S:18-48,112-132` | one software-interrupt bit per hart, scratch[4..5], each hart's loop index | pause, resume, boot_next_stage | SmpBoot, SmpRendezvous, StartProofs |
| Boot ROM | `cheshire_bootrom.S`, `cheshire_bootrom.c` | boot mode, LLC configuration, scratch[0..3], UART | set up SPM, platform ROM, poll, initialise a disk, launch, exit | Boot, PassiveBoot, GptBoot, BootProofs |
| GPT search, autonomous boot | `sw/lib/gpt.c` | loop index, last entry read, range | signature, find, copy, hand over | GptBoot, Boot, BootProofs |
| Zero-stage loader | `sw/boot/zsl.c` | read function and handle in scratch[0,1,3], its global pointer | load tree and firmware, launch | GptBoot, Boot, Runtime, BootProofs |
| C runtime | `sw/lib/crt0.S` | registers, saved context, .bss | start, exit, trap wrapper | Runtime, StartProofs, PassiveBoot |
| SD card driver | `sw/lib/hal/spi_sdcard.c` | response, block, offset; chip select; the card | init, read, write | SdCard, SdCardProofs |
| NOR flash driver, disk flasher | `sw/lib/hal/spi_s25fs512s.c`, `sw/boot/flash.c` | sector and chunk index; the device's busy, write-enable and error bits | init, read, erase and program | NorFlash, Disk, NorFlashProofs |
| EEPROM driver | `sw/lib/hal/i2c_24fc1025.c` | chunk; format and receive FIFO; the device | read, write | Eeprom, EepromProofs |
| UART debug server and driver | `sw/lib/hal/uart_debug.c`, `sw/lib/dif/uart.c` | command, address, length, count; FIFO and transmit registers | challenge, Read, Write, Exec | UartDebug, UartDebugProofs, Bench, PassiveBoot |
| UART preload host | `vip:430-573` | image, request, progress | preload, run, collect the code | UartDebug, UartDebugProofs, Bench |
| Bus preload hosts | `vip:300-400,887-960` | section, offset; hart 0 halted | wait, preload in bursts or double words, launch, poll | Preload, StartProofs, Bench, PassiveBoot, Boot |
| ELF loader | `target/sim/src/elfloader.cpp` | entry, sections, memories, program header, section index | read, load (header by header), next section, read section | Preload, StartProofs, Bench |
| CLINT driver | `sw/lib/dif/clint.c` | mtime, mtimecmp | time, frequency, spin, sleep | Clint, ClintProofs |
| DMA driver | `sw/include/dif/dma.h` | descriptor registers, next and done identifiers | start, wait | Dma, DmaProofs |
| Configuration functions | `hw/cheshire_pkg.sv` | none | port indices, address rules, id maps | no: section 7 |
| everything else | SoC top, wrappers, generated register file and ROM image, USB, FPGA tops, test programs | | | no: section 7 |

**Interactions.** Harts meet in the CLINT's interrupt bits and in scratch[4..5]. Host and ROM
meet in scratch[0..2], where scratch[2] carries the launch word one way and the return code the
other. The ROM calls a disk driver through a function pointer which it also leaves in scratch for
the loader, so the loader calls into ROM code with a handle on the ROM's stack and has to swap the
global pointer around each call. The UART host and the debug server share one line for opcodes, data,
marks and the program's own output. All users of the DMA engine share one set of descriptor registers.
The hosts take the sections they write from the ELF loader, one call of the foreign interface at a time.

**What is hard, and what makes each part correct.**

- *Hand-over*: harts clear their bits in any order while others scan them one by one. Correct
  if no hart leaves before all have arrived, all enter at the whole 64-bit address that main passed,
  without a wake-up left over, and every hart gets there.
- *Passive boot*: a bus host, a UART host and the ROM interleave at each access. Correct
  if what is launched is the image and entry of one host, and the result that is read is the program's.
- *Disk boot*: a table of any content, reads that fail half way, an inclusive range against
  a limit that is a count, lengths that wrap around. Correct if the first partition that fits and matches is taken, copies fit
  their buffers, and the loader goes on only with what it has found.
- *Runtime*: what is saved, when, and under which pointers it runs; the stride of a loop over .bss.
  Correct if caller, trapped code and both programs' globals find their registers.
- *SD card*: bounded polls, error tokens, damaged blocks, streams to be stopped, alignment.
  Correct if success means exactly the bytes that were asked for and a card that is quiet.
- *NOR flash*: operations that take their time, ignore what comes meanwhile, and may fail; small
  sectors laid over one end of the device; resets that leave the device busy. Correct if success
  means the image in every page, no command is lost, and nothing outside the range changes.
- *EEPROM*: a FIFO of limited depth before a bus that must not stall. Correct if FIFOs do not
  overflow, a transfer starts only when all of it is queued, and reads return the device's bytes.
- *UART session*: both sides are in step only by counting bytes. Correct if memory is the image,
  what is read back is memory, and the code that is reported is the program's.
- *Preload*: the cuts at a section's end, a longest burst and a page shift against the beats.
  Correct if the launched program finds its image and nothing beside it has changed.
- *CLINT*: 64-bit values in two halves beside a running clock. Correct if no spin ends early or late.
- *DMA*: shared registers, identifiers that wrap, a wait for an equality. Correct if a transfer is what
  its caller asked for, and a blocking call returns after it.

The list of hazards, each at its line, is in `PROJECT.json`.

## 2. Modules

**SmpRendezvous** is the abstract promise: harts arrive; once all have, each leaves, to one address.
**SmpBoot** is the code, one action per access to a shared register: `SmpPause`, `CallNextStage`,
`WriteLo`, `WriteHi`, `Wake` (one store per hart), `Wfi`, `Ack`, `Scan` (one load per hart), `LoadHi`,
`LoadLoJump`. The next stage is not in the repository; `SendIpi` and `TakeIpi` let it use the
software interrupts as soon as one hart is in it. `RendezvousSpec` is the abstract specification
under the refinement mapping.

**PassiveBoot** follows hart 0 from reset: the LLC's self test and its three configuration stores,
the platform ROM, the poll loop, launch, the program, `_exit`. The host's actions are its bus writes.
`Word` stands for the halves of an entry point. `PromptCommit` says that the last two configuration
stores land before the first store of a host that has seen the first one; the host relies on it.

**GptBoot** runs three jobs over one disk: the ROM's search for the loader, then the loader's for
device tree and firmware. An action is one read of the disk with the decision it feeds. Disks are
tables of entries with a type, an identity and a range; GUIDs are names. Nothing is assumed of a range
but that its bounds are sector numbers: sums and differences of these wrap around (`Wrap`), and so does a
length in bytes (`Size`).

**Boot** is the whole ROM, `EXTENDS GptBoot, PassiveBoot`, by boot mode: all modes share the steps of
PassiveBoot from reset to `main` and from `main`'s return on; a passive mode runs the rest of PassiveBoot,
an autonomous one initialises a device, which may fail, searches it as GptBoot does, and launches what it
has copied (`LaunchDisk`) or returns the error to `_exit` (`SearchFails`). In the first the loader may be the
program a host preloads (`StartPreloaded`), in the second the host only polls for the return code. The
test bench itself stops with an error in mode 1, whose steps in the ROM are those of modes 2 and 3.

**Runtime** is `crt0.S` at the grain of its steps on the registers: pointers, saved context, .bss,
main, the reads through the ROM's driver (`SwitchGp`, `EnterDriver`, `LeaveDriver`), the trap wrapper at
any place of these, with a handler that returns or spins, the exit. A register holds the name of its value, a stack pointer whose stack it is and how
much of it is used.

**SdCard** is the driver at the grain of polled bytes and FIFO chunks, with a card that can reject,
answer late, send an error token, damage a block, fail to echo, or stay busy or not (`Faults`). A byte
of the disk is its address, so a buffer shows where each byte came from.

**NorFlash** is the flasher with the NOR driver and its device. Every command is an action (`Issue`
takes the write enable that precedes it along), and so are the poll of the status register, the return,
and what the device does by itself: `Finish`, `Fails`, `PowerUp`, losses of power. `Reset` restarts the
SoC, not the device. A page is as the device holds it: erased, old, of a call's image, or mixed.
**Disk** is what a writable disk promises: changes within the range of the call, success only with the
image in place, and at most one operation left behind by a call that failed. `DiskSpec` is that
specification under the refinement mapping.

**Eeprom** cuts a call into chunks, queues each into the format FIFO with the controller disabled,
and lets the controller work it off against the device, entry by entry. The control byte is cut to
eight bits, as the library call does.

**UartDebug** sends every byte of the protocol through the receive FIFO, the transmit holding
register and the shift register, with the host's tasks at the other end, while the program may clear
the FIFOs and print.

**Preload** reads an ELF file, given as its program headers and what is wrong with it, through either
variant of the loader, one header at a time, and writes its sections burst by burst (serial link) or double word by double
word (JTAG), bytes that a section shares its beats with included.

**Bench** is the test bench in passive mode, `EXTENDS Preload, UartDebug`: it preloads over JTAG, over the
serial link or over the UART. What is not in use has a fixed value.

**Clint** counts core cycles and ticks, and makes each half of `mtime` and `mtimecmp` an access of its
own, in either order for a read. `Lag` bounds the cycles between two steps of the hart. A sleep is what the
code makes of it: the alarm may interrupt as soon as it is enabled, before the `wfi` or in it; the default
handler never returns (`HandlerSpins`), and one of a program's own (`HandlerReturns`) sets another alarm or
masks it, so that a hart which has yet to reach its `wfi` may sleep on.

**Dma** stores a call's arguments register by register for several harts, launches with the read of the
identifier, and waits by equality. The engine works its queue off in order.

## 3. Runs

| run | instance | shows |
|---|---|---|
| `smp` | 4 harts, two values per half | the inductive `HandoverInv` (with the barrier and the untorn entry), `NoStaleWakeup`, refinement of `RendezvousSpec`, `EveryHartEnters` |
| `boot` | a passive and an autonomous mode; LLC, platform ROM, debugger and UART host present; two values per half, three codes; every table of 0 to 3 entries of 1 to 3 sectors, of four kinds, unused, backward by 1 or 4, or around the end of 64 sector numbers; limits 2, 1, 3; reads may fail | `LaunchWhole`, `ResultIsReturn`, the inductive `SearchInv` (which implies `FindsFirst` and `GivesUpRightly`, and contains `CopyFits`), `LaunchAfterBoth`, `HostGetsResult` |
| `runtime` | harts 0 and 1, with and without own stack and global pointer, .bss of 0 to 97 bytes, 2 reads, 2 traps | `CallerRestored`, `BssZero`, `GlobalsRight`, `TrapUnseen` |
| `sd_card` | blocks of 3 bytes, FIFO of 2, 3 polls, 3 calls, all faults | `ReadRight`, `QuietAfterSuccess`, `WriteWhole`, `CallEnds` |
| `nor_flash` | 3 sectors of 4 pages, 2 small ones under an overlay, erased by the quarter or whole; 2 calls; errors, a stuck device, resets, power losses; a slow and a fast core | `FlashRight`, `ReadRight`, `EveryOpTaken`, refinement of `DiskSpec`, `CallEnds` |
| `eeprom` | FIFO of 8, blocks of 24 bytes, two calls | `TypeOK` (FIFO bounds), `ReadRight`, `NoStall`, `CallEnds` |
| `bench` | JTAG and serial link: beats of 2 bytes, bursts of 4, pages of 8; two segments of any alignment, or a defective file. UART: bursts of 2, words of 2 digits, sections of 0 to 4 bytes, up to 3 printed bytes | `ImageLaunched`, `NothingElse`, `BurstsFit`; `NeverFatal`, `MemoryExact`, `ExitIsReturn`; `SessionEnds` |
| `clint` | a carry after 4 ticks of 20 cycles, up to 2 cycles between steps, every starting cycle before the carry | `NotEarly`, `FreqRight`, `NotLate` |
| `dma` | 2 harts, 3 calls, a queue of 2, identifiers modulo 3 | `AsAsked`, `BlkMeansDone`, `WaitEnds` |
| `eeprom_block` | accesses across the limit between the blocks | `BlockSelected` is violated: section 6 |
| `clint_sleep` | that of `clint` | `SleepLasts` is violated: section 6 |
| `runtime_gp` | that of `runtime` | `PointersKept` is violated: section 6 |

Every property is paired in `PROJECT.json` with a slip of the code (an operator `...Loose`,
`...Uncut`, `...Unchecked` beside the one it replaces) that violates it.

What each property says is in the comment above it. Several state what the code does where that is
less than one would expect; they say exactly how much less. `HeldUp`, `Overtaken`, `Stuck` and `torn`
name the situations in which a promise is off, `Lost`, `Around`, `Misaligned` and `Backward` the bytes.

**Why the bounds are enough.** Hand-over: the scan has a hart that wakes, a first, a middle and a last
one; two values tell the halves apart. Disks: three entries put something before and after the one that
is found, sizes lie below, at and above each limit, and the identities cover the type, the unique GUID
and neither; a backward entry comes first or later, with a length that wraps to one beyond every limit or,
in bytes, to one within it. Boot modes: all passive ones take the same branch, and all autonomous ones the
same steps. Runtime: lengths on both sides of one, two and three strides; two traps meet every pair of
places, two reads the first and a later one. For these the proofs cover every number. SD: block 3 and
FIFO 2 make a last chunk that is shorter; three blocks have a first, a middle and a last one; three calls
show what one call leaves to the next; `MaxSpan` lies past the end of every call. NOR: three sectors have
a plain one beside one under the overlay at either end; a program takes two chunks of pages; the second
call meets whatever the first left; the slow core has no legal SPI clock. EEPROM: 14 bytes at every
alignment make up to three chunks, and `MaxSpan` is more than any call stores; the writes cover one half,
the limit and two halves. UART: sections of 0, 1, 2 (one burst), 3 and 4 bytes meet every case of the
inclusive loop; image bytes include all opcodes and marks, and are not zero, as memory is at first.
Preload: pages of two bursts, memory of more than two pages, and segments that start at each offset of a
beat cut by each of the three limits; two segments come in either order and overlap. CLINT: calls begin
on every cycle around a carry, and their ends lie on both sides of it. DMA: three identifiers wrap around
within three calls; the second hart can overtake, spoil and fill the queue. Deadlock is not checked where
the system stops: after the bounded number of calls, in a `wfi` loop, or when the program has returned.

## 4. Fairness

Only weak fairness, of what runs by itself: each hart executes its boot code (`SmpBoot`); the hart, the
host, and the cache's self test go on (`Boot`); hart, line and test bench go on (`Bench`); the driver goes
on, with a card that is clocked by the driver's own polls (`SdCard`); driver and controller go on while the
controller is enabled (`Eeprom`); the driver, the device's operations and its power-up go on (`NorFlash`);
each hart and the engine go on (`Dma`). The harts have no scheduler that could starve them, and every device
here is clocked or polled. Programs that are launched are assumed to return (`Boot`, `Bench`), since what is
claimed is what their callers get; a card is ready after at most `MaxNaps` tries. No fairness is put on a
caller, on UART noise, on faults, or on the next stage of the hand-over.

Liveness is stated with its excuses. `EveryHartEnters` excuses `HeldUp`: a hart that scans waits for a
bit which somebody in the next stage has set too early. `CallEnds` of `NorFlash` excuses a device that
stays busy after a failure, `WaitEnds` of `Dma` a wait that another hart's transfer has overtaken,
`HostGetsResult` of `Boot` a ROM that has turned to the UART and a loader that misses an image and stops in
`wfi`. `Clint` needs no fairness: `NotLate` bounds the time of spins and measurements by `Lag`; no claim is
made of how long a sleep takes. `Runtime` claims safety only.

## 5. Proofs

Each holds for every value of the constants under the assumptions named in the component's module.

**StartProofs** of `SmpBoot`, for every `NumHarts >= 1` and every set of words. That a scanning hart may leave says
something about harts below its index only because they have been woken *and* cannot be woken again, so
the barrier is not inductive. `HandoverInv` strengthens it: before the wake-up loop no bit is set and no
other hart is past its `wfi`; during it the index parts woken from not yet woken harts; after it every
hart is woken or has acknowledged; a scanning hart knows that all below its index have acknowledged, and
the scratch registers hold the argument from the moment the loop starts. `HandoverInvariant` proves it;
`TypeCorrect`, `Barrier`, `EntryAgreement` and `CleanHandover` follow; `ImplementsRendezvous` shows that
every step maps to a step of the abstract specification or to a stutter.

**BootProofs** of `GptBoot`, for every set of disks, every buffer size and every choice of GUIDs, and any
widths of sector numbers and lengths. `FindsFirst` looks back over entries that the
state no longer holds, so `SearchInv` carries along that no entry below the index is wanted, what the
entry read last was compared with so far, and, across the loader's jobs, that each image came from the
first wanted partition of its job. `SearchInvariant` proves it together with the types; `SearchesRight`,
`TypeCorrect`, `FirstMatch`, `CompleteSearch`, `BoundedCopies` and `BothBeforeLaunch` follow. That a copy
fits takes that `end - begin`, wrapped, is below the limit for a match, and that the cut of the first entry
leaves a range within it even if its last sector wraps around. The one copy that does not fit is excepted in
the formula: a first entry that ends before it begins, taken for want of a match (`Backward`).

**BootProofs** of `PassiveBoot` and `Boot`, for all words, codes and boot modes, with or without cache,
platform ROM, debugger and UART host. `LaunchInv` says where the launch word stands from the host's last
store to the ROM's clearing, what the host has written up to each of its steps, and that it waits for the
result of the program it has launched; it holds under `PromptCommit` (`LaunchInvariant`). `ResultStands`
says that scratch[2] is even until something has returned, and holds the code of what has returned whenever
it is odd; it needs no condition, and holds whoever launches. `BootInvariant` puts them together with
`SearchInv`: a step of a mode is a step of its part and leaves the other alone, but for those that hand
over. `WholeLaunch`, `RightResult` and `BootSearches` follow, of the whole ROM; `PassiveTypes` holds always.

**StartProofs** of `Runtime`, for every length of .bss, number of reads and of traps, and way of linking. What
`_exit` restores is decided when the context is saved, what a trap restores when it is taken, what a read
restores when it begins; the invariant says what is kept in between: `ContextKept`, `TrapKept`,
`Globals`, and `Clearing` for the loop over .bss. `CallerBack`, `BssCleared`, `GlobalsFound` and
`TrapsUnseen` follow.

**EepromProofs**, for every even FIFO depth from 8 on, every block size that is a multiple of it, and every
sequence of calls within the device. That the FIFOs suffice is a matter of the order of the waits: the
format FIFO is empty when a transfer's first entry is queued (`Queueing`), a read entry comes last and what
it still asks for and what the receive FIFO holds add up to the chunk (`Receiving`), and the entries to
come complete the device's address (`Addressing`), whose start stands first (`StartsFirst`).
`EepromInvariant` proves it; `TypeCorrect` (the FIFOs never overflow) and `NoStalls` follow. For what a read
returns, `Reading` adds how much of its address the device has, which is what the format FIFO no longer
holds; that the device's pointer is ahead of the chunk by what has come in; and that chunks lie end to end.
`ReadsRight` follows, and with it `WritesNotProgrammed`: no call ever changes the device's memory.

**SdCardProofs**, for every block length, FIFO depth, number of polls, window of memory, sequence of calls and
set of faults. What a call returns rests on the card and the driver being in step: `Control` says which
command can be at which place of which call, `InitSync`, `ReadSync` and `WriteSync` what the card is then up to
(its mode, the block it is at, the response it owes, whether it is busy), whatever it answers and however
late. They are claimed of calls that found the card quiet; a call after one that has failed may be out of
step from the start. `Filled` says that the blocks before the one in transfer are in their places, which
needs the division of a request into blocks (`Cutting`: first and last part and what lies between add up to
the request; `Mine`: the part of a block that was asked for is what lies within the caller's buffer), and
`OnDisk` the same of a write. `Confined` holds in every call. `SdCardInvariant` proves them; `ReadsRight`,
`StaysQuiet` and `WritesWhole` follow.

**NorFlashProofs**, for every geometry, fault and clock, and every request within the device (which no
driver checks). `LoopsQuiet` says that within the sector loops no operation is under way but the one that
is polled for, even after a reset in the middle of a call; so each command finds a device that is idle and
write-enabled, and starts its operation (`NoOpLost`). `Inside` adds the frame of a call (sector and page are within it, and an operation under way
is within it too) and what its loops have reached: which pages are erased and which are programmed, the
small sectors under the overlay one by one. `FlashedRight` and `ReadsRight` follow, and `ImplementsDisk`: a
step of driver, device, caller or supply is a step of `Disk` or a stutter.

**DmaProofs**, for any number of harts and calls, and any queue shorter than the range of identifiers.
`StoresStand` says that a call's stores so far stand in the registers unless somebody has stored since;
`Unspoilt` follows. `BlockingWaits` rests on the queue: its identifiers are consecutive, and so few that
none of them equals the identifier that was done last; so the equality a call waits for means its own
transfer.

**ClintProofs**, for every width of the halves, ratio of the clocks, lag of the hart and set of calls
(`clint_get_core_freq` is never called for 0 measurements per second). The argument is about one read of
`mtime`: between its loads, `time` is that of the first (`Reading`); what a read has yielded lies between
the times of its loads if no carry falls between them, and with the high half first it is no later than
the end even then (`ReadValue`); so the target of a spin for `n` ticks lies at least `n` ticks after the
call (`Target`). `NeverEarly` follows. A read that is not torn is exact at its load of the low half, so each
place of a call bounds how far the cycles have moved on from the tick that was read; from that come
`FrequencyRight` (within one round of the measuring loop) and `NeverLate`, for spins and measurements.

**UartDebugProofs**, for every program of sections that lie apart and within the addresses, every block
length, width of addresses and codes, FIFO depth, and number of reads and of bytes printed. A digit's
weight is a constant of the model, assumed to be that of the digit below times the number of values of a
byte. `Session` lists the pairs of places at which server and host can be: opening, between two requests, in
a request, in its answer, while the program runs. For each it says what the bytes in the FIFO and on the
line are: `ReqByte` and `AnsByte` number the bytes of a request and of its answer, and what is under way is
those that one side has sent and the other has not taken. `Asked` and `Written` say which block of the
image the request is and how much of it is stored, `Received` how much of memory has been read. No part is
inductive without the others: that a byte is an opcode follows from the count of the last answer, and what
is stored from the order in which the host sends. `UartDebugInvariant` proves them together; `NeverMistaken`,
`MemoryRight` and `ExitRight` follow.

**StartProofs** of `Preload`, for files of any number of segments, every memory that holds them, and every
size of beats, bursts and pages of whole beats; over JTAG, segments start at a beat. `Listed` says that the
loader's list holds the loadable segments of the headers looked at, in their order, and `Stages` how far
loader and host are. `There` says that memory holds what the host has written of each section, but the
bytes in `Lost`. It needs `Filled`, what the host's copy of a section is (the loader finds it by address,
the first one if there are several), and `Cuts`: a burst starts at a beat, or after whole longest bursts
within the page the section starts in. So a beat that two bursts share, which the second one clears, holds
only bytes that `Lost` names. `PreloadInvariant` proves them; `WholeImage`, `OnlySections` and
`BurstsInPages` follow.

Every invariant that the runs check is stated by a theorem, but the three that are violated. The theorems
about Preload and UartDebug are about each by itself, of which `Bench` runs one at a time. Only
model-checked is liveness, with the `ENABLED` of its fairness, which is out of the prover's reach.

## 6. Disagreements between the code and its documentation

Shown by a run that ends in a violation:

- `eeprom_block`, `BlockSelected`: `i2c_24fc1025.c:57` puts the block select outside the control byte; the
  comment at `:56` has addresses overflow to the upper block.
- `clint_sleep`, `SleepLasts`: `clint.c:56` returns at once for a time to come; the comments at `:57` and `:63`
  have it set an alarm that far ahead and wait for it. A time that has passed sets an alarm that is due, and
  its trap comes before the `wfi`.
- `runtime_gp`, `PointersKept`: `crt0.S` stores `gp` (`:40`) after overwriting it (`:34`), so a caller gets the
  program's; the comments at `:37` and `:123` have the existing pointer stored and the original restored.
  `CallerRestored` leaves the global pointer out where a program has its own.

Met while modelling, without a run:

- `cheshire_bootrom.S:130-131`: `jalr ra` then `ret` spins, and `ebreak` is never reached, where
  `docs/um/sw.md:54` has the boot ROM return. The launch bit is bit 1 (`cheshire_bootrom.c:29`), not bit 0
  (`docs/um/sw.md:58`).
- The host takes `CFG_SPM_LOW` for the end of the configuration (`vip:940`), the first of three stores
  (`cheshire_bootrom.S:70-73`): hence `PromptCommit`.
- After an execution the debug server sends EOC (`uart_debug.c:72`), not ACK (`docs/um/sw.md:66`).
- If no partition matches, the first *entry* of the table is booted, which may be an unused one
  (`gpt.c:46-49`), where `docs/um/sw.md:72` has the first partition; and a disk whose signature cannot be
  read is booted raw (`gpt.c:17-18`), where `docs/um/sw.md:70` has one without a header.
- `zsl.c:44` discards the result of the load, reports it as OK and launches (`docs/um/sw.md:93-95`).
- A first entry that ends before it begins is not cut when no entry matches (`gpt.c:48`), and its length
  wraps around (`:82`), where the comment at `:34` has at most a `max_lbas` chunk booted: `Backward`.
- A trap inside the ROM's driver runs the loader's handler under the ROM's global pointer (`zsl.c:27-28`).
- SD: an answer in the last poll is taken for a timeout (`spi_sdcard.c:134`, comment `:131`); a mismatch of
  a response that is 0 is returned as 0, success (`:160`, comment `:154`); its mask is computed in 32 bits
  (`:159`); a card that is done before the first busy poll counts as timed out (`:343`).
- EEPROM: the last byte of a write goes out without a stop (`i2c_24fc1025.c:71`, comment `:70`), a write of
  more than half a FIFO takes its second half from past the chunk (`:76`), and a misaligned read stores up
  to the next FIFO boundary (`:105`): `ReadRight` says how much that is.
- NOR: the byte of CR3V is received instead of sent (`spi_s25fs512s.c:173`, comment `:165`), so the device
  keeps the erase size it has; error bits stay set and fail every later call; a read after a reset does
  not wait for an operation that is still going on; the flasher sets the SD card's clock to 24 MHz whatever
  the core's frequency (`flash.c:27`).
- Serial link: a section that starts within a beat loses the bytes before a cut in the beat that two bursts
  share (`vip:916-925`, `Lost`). JTAG writes up to one double word past a section (`vip:341`).
- ELF: a file cut off within its program headers, an ERROR at `elfloader.cpp:233`, is reported as read and
  launched at 0; the zeros that the warning at `:252` says are not preloaded are. `ImageLaunched` claims
  nothing of either.
- CLINT: `mtime` is read in two halves without a second look (`clint.c:14`); the frequency divides by zero if the reference
  clock is slower than the number of measurements per second that is asked for.

## 7. Not modelled, and why

`cheshire_soc.sv`, `cheshire_idma_wrap.sv` and the FPGA tops instantiate IP of other repositories and
wire it; register file, ROM image and USB host are generated; the test programs are sequential. The
functions of `cheshire_pkg.sv` are evaluated at elaboration and have no run-time state; a wrong map is a
wiring fault, not a behaviour.

Within what is modelled: `NONSMP_HART` is 0, its default; harts that `crt0.S` parks stay parked; a GPT
signature whose read fails half way; SD reads that ignore the checksum (`spi_sdcard.c:309`), which no boot
path uses; the chip-select bits of an EEPROM's address (`i2c_24fc1025.c:57`), with one device on the bus;
how long a bus host waits for the cache and for the halt (`vip:357-366`, one step of `Preload`); sizes of memories and of stacks;
baud rates; floating-point registers; the polynomials of the SD card's checksums, which are taken to
detect what they are for; the bus drivers beneath the hosts; the section headers and symbols of ELF files;
the set-up of the I2C controller; the DMA engine's status register; what launched programs do.

## 8. Plan

What is left, in order of weight:

1. An abstract block device that `SdCard` and `Eeprom` implement as `NorFlash` implements `Disk`, and
   which `GptBoot` reads; a remote memory that `UartDebug` implements.
2. The address maps of `cheshire_pkg.sv:311-540` as functions of the configuration, checked over small
   configurations: rules disjoint, indices dense and within their maps.
3. The checksums of `spi_sdcard.c` against a reference definition over bounded inputs.
