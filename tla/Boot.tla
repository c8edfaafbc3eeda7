-------------------------------- MODULE Boot ---------------------------------
(***************************************************************************)
(* The boot ROM in every boot mode (hw/bootrom/cheshire_bootrom.c, main).  *)
(* From reset to main all modes run PassiveBoot's first steps.  Then the   *)
(* passive ones, 0 and the ones without a meaning, go on as PassiveBoot    *)
(* does, and the autonomous ones search a disk as GptBoot does; the host   *)
(* of the test bench then only polls for the return code                   *)
(* (tb_cheshire_soc.sv, lines 43 to 63).                                   *)
(*                                                                         *)
(* Bit 0 of scratch[0], by which a next stage sees that it comes from a    *)
(* disk, is gptRead; scratch.lo and scratch.hi are what a host writes.     *)
(***************************************************************************)
EXTENDS GptBoot, PassiveBoot

CONSTANT BootModes   (* Values of regs.BOOT_MODE.                           *)

VARIABLE mode

bootVars == <<mode, vars, passiveVars>>

(* SD card, NOR flash and EEPROM.                                          *)
OnDisk == mode \in {1, 2, 3}

(* A program preloaded over the bus may be the loader with its images.     *)
(* There is no disk in the passive modes and no host's program in the      *)
(* others.                                                                 *)
BootInit ==
  /\ mode \in BootModes
  /\ Init /\ SocInit
  /\ IF OnDisk THEN pc = "sig" /\ host = "eoc" /\ want = [lo |-> 0, hi |-> 0]
               ELSE pc = "zsl" /\ host = "wait" /\ disk.count = 0

----------------------------------------------------------------------------
(* The passive modes.                                                      *)
Passive(action) == ~OnDisk /\ action /\ UNCHANGED <<mode, vars>>

StartPreloaded ==
  /\ ~OnDisk /\ rom = "program" /\ by = "bus"
  /\ ZslStart
  /\ UNCHANGED <<mode, passiveVars>>

(* Those that share the steps before main and after it.                    *)
Shared ==
  /\ OnDisk
  /\ \/ WaitBist \/ SetSpmLow \/ SetSpmHigh \/ CommitSpm
     \/ EnterPlatformRom \/ LeavePlatformRom
     \/ RomExit \/ Ebreak \/ ReturnToStage
  /\ UNCHANGED <<mode, vars>>

(* boot_spi_sdcard, boot_spi_s25fs512s and boot_i2c_24fc1025: the device   *)
(* is initialised, and its errors are main's.                              *)
InitDevice ==
  /\ OnDisk
  /\ \/ RomGoto("init", "disk") /\ code' = code
     \/ RomGoto("init", "exit") /\ code' \in Codes \ {0}
  /\ UNCHANGED <<mode, vars, llc, scratch, rx, hiReg, by, at, hostVars>>

(* gpt_boot_part_else_raw in the ROM, then main of the loader.             *)
Search ==
  /\ OnDisk /\ rom \in {"disk", "program"}
  /\ Next /\ pc # "handOver"
  /\ UNCHANGED <<mode, passiveVars>>

LaunchDisk ==
  /\ OnDisk /\ RomGoto("disk", "program")
  /\ HandOver
  /\ by' = "disk"
  /\ UNCHANGED <<mode, llc, scratch, rx, hiReg, at, code, hostVars>>

SearchFails ==
  /\ OnDisk /\ RomGoto("disk", "exit")
  /\ pc = "exit" /\ code' \in Codes \ {0}
  /\ UNCHANGED <<mode, vars, llc, scratch, rx, hiReg, by, at, hostVars>>

(* The firmware, or the other program, returns.                            *)
StageExits ==
  /\ OnDisk /\ pc \in {"launch", "other"}
  /\ ProgramExits
  /\ UNCHANGED <<mode, vars>>

(* jtag_wait_for_eoc.                                                      *)
HostPolls ==
  /\ OnDisk /\ HostEoc
  /\ UNCHANGED <<mode, vars>>

SelfTestEnds ==
  /\ BistDone
  /\ UNCHANGED <<mode, vars>>

Hart == \/ Passive(RomStep) \/ StartPreloaded
        \/ Shared \/ InitDevice \/ Search \/ LaunchDisk \/ SearchFails \/ StageExits
Host == Passive(HostStep) \/ HostPolls

BootNext == Hart \/ Host \/ SelfTestEnds \/ Passive(UartByte)

BootSpec == BootInit /\ [][BootNext]_bootVars

(* The hart and the host keep running, the self test ends, and the         *)
(* platform ROM and the program that is launched return.                   *)
FairBootSpec ==
  BootSpec /\ WF_bootVars(Hart) /\ WF_bootVars(Host) /\ WF_bootVars(SelfTestEnds)

----------------------------------------------------------------------------
(* A host that waits for a return code, after its launch or from the start *)
(* of an autonomous boot on, gets it, whatever the disk holds and          *)
(* whichever reads fail: the program's, or the error of the ROM that found *)
(* none.  It does not if somebody has talked the ROM into the debug server *)
(* first, or if the loader misses an image and stops in wfi.               *)
UartTookOver == by = "uart" \/ (~OnDisk /\ rom \in {"serve", "exit", "ebreak", "debug", "trap"})

HostGetsResult ==
  (host = "eoc") ~> ((host = "done" /\ result = code) \/ UartTookOver \/ pc = "spin")
==============================================================================
