------------------------------- MODULE Build -------------------------------
(***************************************************************************)
(* The last command of the compiler driver (gcc/g21k/gcc.c): ld21k makes a *)
(* file .lnk, and if it reports success mem21k makes the executable of it. *)
(* ld21k is module LinkRun, mem21k is what ToolRun promises of it (module  *)
(* Standalone implements it) and in addition fails without its input.      *)
(***************************************************************************)
EXTENDS Integers, FiniteSets

CONSTANTS NFiles, MaxErrors, LinkerErrorBound

ASSUME BuildAssumption == NFiles \in Nat /\ MaxErrors \in Nat \ {0} /\ LinkerErrorBound \in Nat

VARIABLES
  command,                                  \* which command the driver runs
  error_count,                              \* what it exits with
  exe, memStatus,                           \* mem21k: its output file and exit status
  pc, i, output_file_name, num_input_files, user_errors, linker_errors, first_c_file,
  temp_file, num_open_files, temps, lnk, exec, status                         \* ld21k

linking == <<pc, i, output_file_name, num_input_files, user_errors, linker_errors, first_c_file,
             temp_file, num_open_files, temps, exec, status>>
vars    == <<command, error_count, exe, memStatus, lnk, linking>>

LD  == INSTANCE LinkRun
MEM == INSTANCE ToolRun WITH file <- exe, status <- memStatus

Init ==
  /\ LD!Init
  /\ command = "ld21k" /\ error_count = 0
  /\ exe \in {"old", "none"} /\ memStatus = "running"

\* The driver gives the files, -o and then what -Xlinker adds, -h among it; any
\* arguments in any order are allowed here, as they are when ld21k is run by hand.
Link == command = "ld21k" /\ LD!Next /\ UNCHANGED <<command, error_count, exe, memStatus>>

\* do_spec goes on behind the newline only if execute returned 0.
LinkEnded ==
  /\ command = "ld21k" /\ LD!Stopped
  /\ IF status \in {"passed", "help"}
     THEN command' = "mem21k" /\ UNCHANGED error_count
     ELSE command' = "cleanup" /\ error_count' = 1
  /\ UNCHANGED <<exe, memStatus, lnk, linking>>

\* mem21k opens its output before it looks for its input.
Initialize ==
  /\ command = "mem21k"
  /\ MEM!Next
  /\ exe' = "new" \/ memStatus' = "passed" => lnk # "none"
  /\ UNCHANGED <<command, error_count, lnk, linking>>

InitializeEnded ==
  /\ command = "mem21k" /\ memStatus # "running"
  /\ command' = "cleanup"
  /\ error_count' = IF memStatus = "passed" THEN 0 ELSE 1
  /\ UNCHANGED <<exe, memStatus, lnk, linking>>

\* MUTANT: only what a failed command made is removed.
CleanupOnFailure ==
  /\ command = "cleanup"
  /\ lnk' = IF error_count > 0 THEN "none" ELSE lnk
  /\ command' = "stopped"
  /\ UNCHANGED <<error_count, exe, memStatus, linking>>

\* delete_temp_files: the .lnk file was recorded by %d.
Cleanup ==
  /\ command = "cleanup"
  /\ lnk' = "none"
  /\ command' = "stopped"
  /\ UNCHANGED <<error_count, exe, memStatus, linking>>

Next == Link \/ LinkEnded \/ Initialize \/ InitializeEnded \/ Cleanup

Spec == Init /\ [][Next]_vars

-----------------------------------------------------------------------------
OutputHonest == command = "ld21k" => LD!OutputHonest
TempsRemoved == LD!TempsRemoved
PassedMeansExecutable == LD!PassedMeansExecutable

\* A command line that succeeds has made an executable, and it was made of a
\* whole and faultless .lnk file, although ld21k reports success after errors
\* of its second pass: it has then removed the file, and mem21k fails.  Only -h
\* leaves a .lnk file of an earlier run for it.
BuildHonest ==
  /\ command \in {"cleanup", "stopped"} /\ error_count = 0 => exe = "new"
  /\ exe = "new" => user_errors = 0 /\ linker_errors = 0 /\ LD!Stopped
  /\ exe = "new" /\ command # "stopped" => lnk = IF status = "help" THEN "old" ELSE "new"
  /\ command = "stopped" => lnk = "none"

\* The inductive invariant: that of ld21k while its file is there, and what the
\* driver concludes from each exit status.
IInv ==
  /\ command \in {"ld21k", "mem21k", "cleanup", "stopped"}
  /\ command # "stopped" => LD!IInv
  /\ TempsRemoved
  /\ command = "ld21k" => exe \in {"old", "none"} /\ memStatus = "running"
  /\ command = "mem21k" => status \in {"passed", "help"}
  /\ command # "ld21k" => LD!Stopped
  /\ exe = "new" => LD!Stopped /\ user_errors = 0 /\ linker_errors = 0
  /\ exe = "new" /\ command # "stopped" => lnk = IF status = "help" THEN "old" ELSE "new"
  /\ memStatus = "passed" => exe = "new"
  /\ command \in {"cleanup", "stopped"} /\ error_count = 0 => memStatus = "passed"
  /\ command = "stopped" => lnk = "none"
=============================================================================
