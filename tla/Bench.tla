------------------------------- MODULE Bench --------------------------------
(***************************************************************************)
(* The test bench in passive boot mode (target/sim/src/tb_cheshire_soc.sv, *)
(* lines 43 to 59): it preloads a program over JTAG or the serial link, as *)
(* Preload does, or over the UART, as UartDebug does, and runs it.         *)
(*                                                                         *)
(* What is not in use has a fixed value.                                   *)
(***************************************************************************)
EXTENDS Preload, UartDebug

VARIABLE preload_mode

benchVars == <<preload_mode, loadVars, vars>>

Fixed(x, set) == x = CHOOSE e \in set : TRUE

BenchInit ==
  /\ \/ preload_mode = 0 /\ via = "jtag"  /\ Fixed(image, Images)
     \/ preload_mode = 1 /\ via = "slink" /\ Fixed(image, Images)
     \/ preload_mode = 2 /\ via = "slink" /\ Fixed(file, Files) /\ posix = TRUE
  /\ LoadInit /\ Init

(* jtag_elf_run and slink_elf_run; what follows them is Boot's subject.    *)
RunElf == preload_mode \in {0, 1} /\ LoadNext /\ UNCHANGED <<preload_mode, vars>>

(* uart_debug_elf_run_and_wait, and the hart it talks to.                  *)
UartHart == preload_mode = 2 /\ Hart /\ UNCHANGED <<preload_mode, loadVars>>
UartHost == preload_mode = 2 /\ Host /\ UNCHANGED <<preload_mode, loadVars>>

BenchNext == RunElf \/ UartHart \/ UartHost
BenchSpec == BenchInit /\ [][BenchNext]_benchVars

(* The hart, the line and the test bench keep going.                       *)
FairBenchSpec ==
  BenchSpec /\ WF_benchVars(RunElf) /\ WF_benchVars(UartHart) /\ WF_benchVars(UartHost)

----------------------------------------------------------------------------
(* The preload ends, whatever the file: a hart is launched, or the test    *)
(* bench stops with an error.  Over the UART the program's return code     *)
(* comes back too: no side ever waits for a byte that does not come.       *)
SessionEnds ==
  <>(IF preload_mode = 2 THEN host = "done" ELSE phase \in {"launched", "fatal", "aborted"})
=============================================================================
