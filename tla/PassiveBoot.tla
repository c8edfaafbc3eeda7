---------------------------- MODULE PassiveBoot ----------------------------
(***************************************************************************)
(* Passive preload: hart 0 of the boot ROM from reset to the return of the *)
(* program it launches, together with the two parties that can launch it,  *)
(* a bus host that works through the scratch registers (serial link, as    *)
(* target/sim/src/vip_cheshire_soc.sv drives it) and a UART host.          *)
(*                                                                         *)
(* The last-level cache powers up as a cache in self test; hart 0 turns    *)
(* all of it into scratchpad (SPM) before anything uses SPM.  The bus host *)
(* learns of that by polling CFG_SPM_LOW, then writes the program, the two *)
(* halves of its entry point and the launch word.  scratch[2] carries the  *)
(* launch word to the ROM, and the return code back to the host.           *)
(***************************************************************************)
EXTENDS Integers

CONSTANTS
  Word,          (* Values of a 32-bit half of an entry point.              *)
  Codes,         (* Return codes of a program.                              *)
  HasLlc,        (* regs.HW_FEATURES.llc                                    *)
  Platform,      (* regs.PLATFORM_ROM holds an address.                     *)
  Debugger,      (* ebreak enters debug mode.                               *)
  UartHost,      (* Somebody may send bytes over UART.                      *)
  PromptCommit   (* The two stores that follow CFG_SPM_LOW land before the  *)
                 (* first store of a host that has read it.                 *)

ASSUME CodesAssumption  == Codes \subseteq Nat
ASSUME WordAssumption   == 0 \in Word

Entries == [lo : Word, hi : Word]

VARIABLES
  rom,      (* Where hart 0 is.                                             *)
  llc,      (* BIST result and the configuration registers of the LLC.      *)
  scratch,  (* regs.SCRATCH[0] (lo), [1] (hi) and [2] (s2).                 *)
  rx,       (* The byte waiting in the UART receiver.                       *)
  hiReg,    (* The half of the entry point boot_passive has read.           *)
  by,       (* Who has launched a program: none, bus, uart or, in the boot  *)
            (* modes that Boot adds, disk.                                  *)
  at,       (* Where it was entered.                                        *)
  code,     (* What the program, or main, returns; None before that.        *)
  host,     (* Where the bus host is.                                       *)
  want,     (* The entry point of the host's program.                       *)
  payload,  (* The program image: absent, lost or intact.                   *)
  result    (* The return code the host has read, or None.                  *)

None == -1

progVars    == <<hiReg, by, at, code>>
hostVars    == <<host, want, payload, result>>
passiveVars == <<rom, llc, scratch, rx, progVars, hostVars>>

SocInit ==
  /\ rom     = "bist"
  /\ llc     = [done |-> FALSE, low |-> FALSE, high |-> FALSE, commit |-> FALSE]
  /\ scratch = [lo |-> 0, hi |-> 0, s2 |-> 0]
  /\ rx      = "empty"
  /\ hiReg   = 0
  /\ by      = "none"
  /\ at      = [lo |-> 0, hi |-> 0]
  /\ code    = None
  /\ want    \in Entries
  /\ payload = "absent"
  /\ result  = None

PassiveInit == SocInit /\ host = "wait"

RomGoto(from, to) == rom = from /\ rom' = to

Bit0(w) == w % 2 = 1
Bit1(w) == (w \div 2) % 2 = 1

----------------------------------------------------------------------------
(* _start: wait for the LLC's self test, make all of it SPM.               *)

BistDone ==
  /\ HasLlc /\ ~llc.done
  /\ llc' = [llc EXCEPT !.done = TRUE]
  /\ UNCHANGED <<rom, progVars, hostVars, scratch, rx>>

WaitBist ==
  /\ RomGoto("bist", IF HasLlc THEN "low" ELSE "prom")
  /\ HasLlc => llc.done
  /\ UNCHANGED <<llc, scratch, rx, progVars, hostVars>>

SetSpmLow ==
  /\ RomGoto("low", "high")
  /\ llc' = [llc EXCEPT !.low = TRUE]
  /\ UNCHANGED <<scratch, rx, progVars, hostVars>>

SetSpmHigh ==
  /\ RomGoto("high", "commit")
  /\ llc' = [llc EXCEPT !.high = TRUE]
  /\ UNCHANGED <<scratch, rx, progVars, hostVars>>

CommitSpm ==
  /\ RomGoto("commit", "prom")
  /\ llc' = [llc EXCEPT !.commit = TRUE]
  /\ UNCHANGED <<scratch, rx, progVars, hostVars>>

(* The platform ROM, if there is one, is called and may return.            *)
EnterPlatformRom ==
  /\ RomGoto("prom", IF Platform THEN "platform" ELSE "init")
  /\ UNCHANGED <<llc, scratch, rx, progVars, hostVars>>

LeavePlatformRom ==
  /\ RomGoto("platform", "init")
  /\ UNCHANGED <<llc, scratch, rx, progVars, hostVars>>

----------------------------------------------------------------------------
(* main and boot_passive.                                                  *)

(* uart_debug_init clears the receive FIFO with what came in before.       *)
InitUart ==
  /\ RomGoto("init", "poll")
  /\ rx' = "empty"
  /\ UNCHANGED <<llc, scratch, progVars, hostVars>>

PollLaunch ==
  /\ RomGoto("poll", IF Bit1(scratch.s2) THEN "clear" ELSE "check")
  /\ UNCHANGED <<llc, scratch, rx, progVars, hostVars>>

(* uart_debug_check takes a byte if there is one, and drops it unless it   *)
(* is ACK.                                                                 *)
CheckUart ==
  /\ RomGoto("check", IF rx = "ack" THEN "serve" ELSE "poll")
  /\ rx' = "empty"
  /\ UNCHANGED <<llc, scratch, progVars, hostVars>>

ClearLaunch ==
  /\ RomGoto("clear", "loadHi")
  /\ scratch' = [scratch EXCEPT !.s2 = 0]
  /\ UNCHANGED <<llc, rx, progVars, hostVars>>

LoadEntryHi ==
  /\ RomGoto("loadHi", "loadLo")
  /\ hiReg' = scratch.hi
  /\ UNCHANGED <<llc, scratch, rx, by, at, code, hostVars>>

(* The other half, and boot_next_stage, which SmpBoot models in full.      *)
LaunchNext ==
  /\ RomGoto("loadLo", "program")
  /\ by' = "bus"
  /\ at' = [lo |-> scratch.lo, hi |-> hiReg]
  /\ UNCHANGED <<llc, scratch, rx, hiReg, code, hostVars>>

(* uart_debug_serve runs commands until Exec, or returns 1 at an unknown   *)
(* one.  Its byte protocol is the subject of UartDebug.                    *)
ServeExec ==
  /\ RomGoto("serve", "program")
  /\ by' = "uart"
  /\ at' \in Entries
  /\ UNCHANGED <<llc, scratch, rx, hiReg, code, hostVars>>

ServeUnknown ==
  /\ RomGoto("serve", "exit")
  /\ code' = 1
  /\ UNCHANGED <<llc, scratch, rx, hiReg, by, at, hostVars>>

----------------------------------------------------------------------------
(* The program, and what follows its return.                               *)

(* _exit of crt0: store the return code for the host, then return.         *)
ExitUnshifted ==
  /\ RomGoto("program", "return")
  /\ code' \in Codes
  /\ scratch' = [scratch EXCEPT !.s2 = 2 * (code' \div 2) + 1]
  /\ UNCHANGED <<llc, rx, hiReg, by, at, hostVars>>

ExitWithoutFlag ==
  /\ RomGoto("program", "return")
  /\ code' \in Codes
  /\ scratch' = [scratch EXCEPT !.s2 = 2 * code']
  /\ UNCHANGED <<llc, rx, hiReg, by, at, hostVars>>

ProgramExits ==
  /\ RomGoto("program", "return")
  /\ code' \in Codes
  /\ scratch' = [scratch EXCEPT !.s2 = 2 * code' + 1]
  /\ UNCHANGED <<llc, rx, hiReg, by, at, hostVars>>

(* Back in uart_debug_serve, which hands the code on to main and _exit.    *)
ReturnToServe ==
  /\ RomGoto("return", "exit")
  /\ by = "uart"
  /\ UNCHANGED <<llc, scratch, rx, progVars, hostVars>>

(* Back in boot_next_stage: jalr has overwritten ra, so ret leads to       *)
(* itself.                                                                 *)
ReturnToStage ==
  /\ RomGoto("return", "return")
  /\ by # "uart"
  /\ UNCHANGED <<llc, scratch, rx, progVars, hostVars>>

(* _exit of the boot ROM: store main's return value, then ebreak.          *)
RomExit ==
  /\ RomGoto("exit", "ebreak")
  /\ scratch' = [scratch EXCEPT !.s2 = 2 * code + 1]
  /\ UNCHANGED <<llc, rx, progVars, hostVars>>

(* Without a debugger ebreak traps to a handler the ROM does not set.      *)
Ebreak ==
  /\ RomGoto("ebreak", IF Debugger THEN "debug" ELSE "trap")
  /\ UNCHANGED <<llc, scratch, rx, progVars, hostVars>>

----------------------------------------------------------------------------
(* The bus host: slink_elf_run and slink_wait_for_eoc.                     *)

HostGoto(from, to) == host = from /\ host' = to

(* Poll bit 0 of CFG_SPM_LOW, if there is an LLC to configure.             *)
HostWait ==
  /\ HostGoto("wait", "preload")
  /\ HasLlc => llc.low
  /\ UNCHANGED <<rom, progVars, llc, scratch, rx, want, payload, result>>

(* The image goes to SPM: before the commit there is none to take it.      *)
HostPreload ==
  /\ HostGoto("preload", "hi")
  /\ PromptCommit /\ HasLlc => llc.commit
  /\ payload' = IF HasLlc => llc.commit THEN "intact" ELSE "lost"
  /\ UNCHANGED <<rom, progVars, llc, scratch, rx, want, result>>

HostHi ==
  /\ HostGoto("hi", "lo")
  /\ scratch' = [scratch EXCEPT !.hi = want.hi]
  /\ UNCHANGED <<rom, progVars, llc, rx, want, payload, result>>

(* The host writes 2, the word that the boot ROM polls for.                *)
LaunchWord == 2

HostLoEarlyGo ==
  /\ HostGoto("lo", "go")
  /\ scratch' = [scratch EXCEPT !.s2 = LaunchWord]
  /\ UNCHANGED <<rom, progVars, llc, rx, want, payload, result>>

HostLo ==
  /\ HostGoto("lo", "go")
  /\ scratch' = [scratch EXCEPT !.lo = want.lo]
  /\ UNCHANGED <<rom, progVars, llc, rx, want, payload, result>>

HostGo ==
  /\ HostGoto("go", "eoc")
  /\ scratch' = [scratch EXCEPT !.s2 = LaunchWord]
  /\ UNCHANGED <<rom, progVars, llc, rx, want, payload, result>>

(* Poll bit 0 of scratch[2]; the rest is the return code.                  *)
HostEoc ==
  /\ HostGoto("eoc", "done")
  /\ Bit0(scratch.s2)
  /\ result' = scratch.s2 \div 2
  /\ UNCHANGED <<rom, progVars, llc, scratch, rx, want, payload>>

(* A byte arrives over UART.                                               *)
UartByte ==
  /\ UartHost
  /\ rx' \in {"ack", "other"}
  /\ UNCHANGED <<rom, progVars, hostVars, llc, scratch>>

----------------------------------------------------------------------------
RomStep ==
  \/ WaitBist \/ SetSpmLow \/ SetSpmHigh \/ CommitSpm
  \/ EnterPlatformRom \/ LeavePlatformRom
  \/ InitUart \/ PollLaunch \/ CheckUart
  \/ ClearLaunch \/ LoadEntryHi \/ LaunchNext
  \/ ServeExec \/ ServeUnknown
  \/ ProgramExits \/ ReturnToServe \/ ReturnToStage
  \/ RomExit \/ Ebreak

HostStep ==
  \/ HostWait \/ HostPreload \/ HostHi \/ HostLo \/ HostGo \/ HostEoc

PassiveNext == RomStep \/ HostStep \/ BistDone \/ UartByte

PassiveSpec == PassiveInit /\ [][PassiveNext]_passiveVars

----------------------------------------------------------------------------
Booting == {"bist", "low", "high", "commit", "prom", "platform", "init", "poll", "check", "serve"}

(* Every variable keeps its type.                                          *)
PassiveTypeOK ==
  /\ rom \in Booting \union {"clear", "loadHi", "loadLo", "program", "return", "exit", "ebreak", "debug", "trap", "disk"}
  /\ llc \in [done : BOOLEAN, low : BOOLEAN, high : BOOLEAN, commit : BOOLEAN]
  /\ scratch \in [lo : Word, hi : Word, s2 : Int]
  /\ rx \in {"empty", "ack", "other"}
  /\ by \in {"none", "bus", "uart", "disk"}
  /\ hiReg \in Word /\ at \in Entries /\ want \in Entries
  /\ host \in {"wait", "preload", "hi", "lo", "go", "eoc", "done"}
  /\ payload \in {"absent", "lost", "intact"}
  /\ {code, result} \subseteq Int

(* A program launched through the scratch registers is entered at the      *)
(* address the host wrote, both halves of it, with its image in place.     *)
LaunchWhole ==
  by = "bus" => at = want /\ payload = "intact"

(* The code the host reads is the one that the program, or main of the     *)
(* ROM, has returned: the launch word and the ROM's clearing of it are     *)
(* never taken for an end of computation, nor lost to it.                  *)
ResultIsReturn ==
  result # None => result = code

(* The inductive invariant behind it, in every mode and whoever launches:  *)
(* until something has returned scratch[2] is even, and from then on it is *)
(* odd with the code, but where a late host writes its launch word.        *)
Returned == {"return", "exit", "ebreak", "debug", "trap"}

ResultStands ==
  /\ rom \notin Returned => ~Bit0(scratch.s2) /\ result = None
  /\ rom \in Returned    => /\ code \in Nat
                            /\ Bit0(scratch.s2) => scratch.s2 = 2 * code + 1
                            /\ ResultIsReturn

(* The inductive invariant behind LaunchWhole.  While hart 0 boots the     *)
(* launch word stands in scratch[2] exactly if the host has written all    *)
(* there is to a launch; from the ROM's clearing of it on the host waits,  *)
(* and what it then finds is the program's return code.                    *)
HostWrote ==
  /\ host \in {"hi", "lo", "go", "eoc", "done"} => payload = "intact"
  /\ host \in {"lo", "go", "eoc", "done"} => scratch.hi = want.hi
  /\ host \in {"go", "eoc", "done"} => scratch.lo = want.lo
  /\ result # None => host = "done"

LaunchWordStands ==
  /\ rom \in Booting => by = "none" /\ host # "done" /\ scratch.s2 = IF host = "eoc" THEN LaunchWord ELSE 0
  /\ rom = "clear"   => by = "none" /\ host = "eoc" /\ scratch.s2 = LaunchWord
  /\ rom \in {"loadHi", "loadLo"} => by = "none" /\ host = "eoc" /\ scratch.s2 = 0
  /\ rom = "loadLo"  => hiReg = want.hi

HostWaits ==
  by = "bus" =>
    /\ rom \in {"program", "return"} /\ at = want /\ host \in {"eoc", "done"}
    /\ rom = "program" => host = "eoc" /\ scratch.s2 = 0
    /\ rom = "return"  => code \in Codes /\ scratch.s2 = 2 * code + 1
    /\ result # None   => rom = "return" /\ result = code

LaunchInv == HostWrote /\ LaunchWordStands /\ HostWaits
=============================================================================
