------------------------------ MODULE LinkRun ------------------------------
(***************************************************************************)
(* A run of ld21k from beginning to end: binutils/link/main.c, pass1.c,    *)
(* pass2.c, output_object of output.c, tempio.c and error.c.  The other    *)
(* modules show what the passes do; here a pass may do no more than report *)
(* an error of a kind it has or go on, and the question is what is left    *)
(* behind: the output file, the temporary files and the exit status.       *)
(***************************************************************************)
EXTENDS Integers, FiniteSets

CONSTANTS
  NFiles,            \* MAX_NUMBER_INPUT_FILES: files on the command line
  MaxErrors,         \* MAX_ERRORS: the run ends with that many user errors
  LinkerErrorBound   \* bound on the linker errors of one run

VARIABLES
  pc, i,                       \* where control is; the file it is at in pass 1
  output_file_name,            \* "unknown", empty in the code, and then "lnk"
  num_input_files,
  user_errors, linker_errors,
  first_c_file,                \* no file compiled from C was met so far
  temp_file, num_open_files,   \* the names registered for removal
  temps,                       \* the temporary files that exist
  lnk, exec,                   \* the output file and OBJ_EXEC in its header
  status                       \* exit status, "running" before

counts == <<user_errors, linker_errors>>
naming == <<temp_file, num_open_files, temps>>
named  == <<output_file_name, num_input_files>>
vars   == <<pc, i, named, counts, first_c_file, naming, lnk, exec, status>>

Init ==
  /\ pc = "arguments" /\ i = 1
  /\ output_file_name = "unknown" /\ num_input_files = 0
  /\ user_errors = 0 /\ linker_errors = 0 /\ first_c_file = TRUE
  /\ temp_file = <<>> /\ num_open_files = 0 /\ temps = {}
  /\ lnk \in {"old", "none"} /\ exec = FALSE
  /\ status = "running"

-----------------------------------------------------------------------------
(* error.c                                                                 *)

check_if_errors == user_errors > 0 \/ linker_errors > 0

\* MUTANT: the output file stays whatever was reported.
LinkerExitKeeping(code, errors) ==
  /\ UNCHANGED lnk
  /\ temps' = temps \ {temp_file[k] : k \in 1 .. num_open_files}
  /\ status' = code /\ pc' = "stopped"

\* linker_exit and delete_temp_files: with an error counted the output file is
\* removed, be it of this run or of an earlier one -- if it has a name by then.
LinkerExit(code, errors) ==
  /\ lnk' = IF errors /\ output_file_name # "unknown" THEN "none" ELSE lnk
  /\ temps' = temps \ {temp_file[k] : k \in 1 .. num_open_files}
  /\ status' = code /\ pc' = "stopped"

\* Where the passes may report what.
UserErrorAt   == {"file", "allocate"}
LinkerErrorAt == {"file", "inputs", "globals", "finish", "memory_map"}
FatalAt       == {"arguments", "architecture", "file", "memory_check", "sections", "allocate",
                  "output", "symbol_temp", "string_temp", "inputs", "globals", "finish"}

UserError ==
  /\ pc \in UserErrorAt
  /\ user_errors' = user_errors + 1
  /\ IF user_errors' >= MaxErrors
     THEN LinkerExit("fatal", TRUE)
     ELSE UNCHANGED <<pc, lnk, temps, status>>
  /\ UNCHANGED <<i, named, linker_errors, first_c_file, temp_file, num_open_files, exec>>

LinkerError ==
  /\ pc \in LinkerErrorAt /\ linker_errors < LinkerErrorBound
  /\ IF user_errors > 0
     THEN LinkerExit("fatal", TRUE) /\ UNCHANGED linker_errors
     ELSE linker_errors' = linker_errors + 1 /\ UNCHANGED <<pc, lnk, temps, status>>
  /\ UNCHANGED <<i, named, user_errors, first_c_file, temp_file, num_open_files, exec>>

Fatal ==
  /\ pc \in FatalAt
  /\ linker_errors' = linker_errors + 1
  /\ LinkerExit("fatal", TRUE)
  /\ UNCHANGED <<i, named, user_errors, first_c_file, temp_file, num_open_files, exec>>

\* interrupt_handler: SIGINT and SIGTERM, from init_pass1 on.
Interrupt ==
  /\ pc # "stopped"
  /\ LinkerExit("interrupt", check_if_errors)
  /\ UNCHANGED <<i, named, counts, first_c_file, temp_file, num_open_files, exec>>

-----------------------------------------------------------------------------
(* tempio.c: the name is stored, the file is made, and then it is counted. *)

Put(seq, k, x) == [n \in DOMAIN seq \cup {k} |-> IF n = k THEN x ELSE seq[n]]

\* The files are numbered in the order they are made.
MakeTemp(from, to) ==
  /\ pc = from
  /\ LET new == Cardinality(temps) + 1
     IN /\ temp_file' = Put(temp_file, num_open_files + 1, new)
        /\ temps' = temps \cup {new}
  /\ pc' = to

\* MUTANT: the file is not counted.
CountNoTemp(from, to) ==
  /\ pc = from
  /\ pc' = to
  /\ UNCHANGED <<i, counts, first_c_file, naming, lnk, exec, status>>

CountTemp(from, to) ==
  /\ pc = from
  /\ num_open_files' = num_open_files + 1
  /\ pc' = to
  /\ UNCHANGED <<i, counts, first_c_file, temp_file, temps, lnk, exec, status>>

-----------------------------------------------------------------------------
(* main, pass1 and pass2                                                   *)

Rest == <<counts, naming, lnk, exec>>
Go(from, to) == pc = from /\ pc' = to /\ UNCHANGED <<i, named, first_c_file, Rest, status>>

\* process_arguments: -o, in whichever place it is given.
NameOutput ==
  /\ pc = "arguments"
  /\ output_file_name' = "lnk"
  /\ UNCHANGED <<pc, i, num_input_files, first_c_file, Rest, status>>

\* process_file_name, for a file or a library.
ProcessFileName ==
  /\ pc = "arguments" /\ num_input_files < NFiles
  /\ num_input_files' = num_input_files + 1
  /\ UNCHANGED <<pc, i, output_file_name, first_c_file, Rest, status>>

\* -h ends the run in the middle of the arguments, with 0 and without linker_exit.
Help ==
  /\ pc = "arguments"
  /\ status' = "help" /\ pc' = "stopped"
  /\ UNCHANGED <<i, named, first_c_file, Rest>>

\* Behind the arguments: without -o the first file gives the name, and without
\* a file the run ends with 1.
ProcessArguments ==
  /\ pc = "arguments"
  /\ IF output_file_name = "unknown" /\ num_input_files = 0
     THEN status' = "usage" /\ pc' = "stopped" /\ UNCHANGED output_file_name
     ELSE output_file_name' = "lnk" /\ pc' = "architecture" /\ UNCHANGED status
  /\ UNCHANGED <<i, num_input_files, first_c_file, Rest>>

ParseArchitecture == Go("architecture", "file")

ReadFile ==
  /\ pc = "file" /\ i <= num_input_files
  /\ i' = i + 1
  /\ UNCHANGED <<pc, named, first_c_file, Rest, status>>

\* create_c_object, for the first file that was compiled from C.  What it makes
\* becomes the last file of the link.
CreateCObject ==
  /\ i <= num_input_files /\ first_c_file
  /\ MakeTemp("file", "c_object")
  /\ first_c_file' = FALSE
  /\ UNCHANGED <<i, named, counts, num_open_files, lnk, exec, status>>
CountCObject ==
  /\ CountTemp("c_object", "file")
  /\ num_input_files' = num_input_files + 1 /\ UNCHANGED output_file_name

\* Pass 2 is begun only if pass 1 found no error.
EndPass1 ==
  /\ pc = "file" /\ i > num_input_files
  /\ IF check_if_errors
     THEN LinkerExit("fatal", TRUE) /\ UNCHANGED <<temp_file, num_open_files>>
     ELSE pc' = "memory_check" /\ UNCHANGED <<naming, lnk, status>>
  /\ UNCHANGED <<i, named, first_c_file, counts, exec>>

MemoryCheck        == Go("memory_check", "sections")
ProcessSectionList == Go("sections", "allocate")
Allocate           == Go("allocate", "output")

OpenOutput ==
  /\ pc = "output"
  /\ lnk' = "part" /\ pc' = "symbol_temp"
  /\ UNCHANGED <<i, named, first_c_file, counts, naming, exec, status>>

SymbolTemp ==
  /\ MakeTemp("symbol_temp", "symbol_count")
  /\ UNCHANGED <<i, named, first_c_file, counts, num_open_files, lnk, exec, status>>
CountSymbolTemp == CountTemp("symbol_count", "string_temp") /\ UNCHANGED named
StringTemp ==
  /\ MakeTemp("string_temp", "string_count")
  /\ UNCHANGED <<i, named, first_c_file, counts, num_open_files, lnk, exec, status>>
CountStringTemp == CountTemp("string_count", "inputs") /\ UNCHANGED named

\* An undefined symbol is a message here, and fatal when all are reported.
ProcessInputFiles == Go("inputs", "globals")
OutputGlobals     == Go("globals", "finish")

OutputFinishUp ==
  /\ pc = "finish"
  /\ exec' = ~check_if_errors
  /\ lnk' = "new" /\ pc' = "memory_map"
  /\ UNCHANGED <<i, named, first_c_file, counts, naming, status>>

MemoryMap == Go("memory_map", "exit")

\* main: PASSED, whatever pass 2 reported.
Exit ==
  /\ pc = "exit"
  /\ LinkerExit("passed", check_if_errors)
  /\ UNCHANGED <<i, named, counts, first_c_file, temp_file, num_open_files, exec>>

Arguments == NameOutput \/ ProcessFileName \/ Help \/ ProcessArguments
Pass1 == ParseArchitecture \/ ReadFile \/ CreateCObject \/ CountCObject \/ EndPass1
Pass2 == MemoryCheck \/ ProcessSectionList \/ Allocate \/ OpenOutput \/ SymbolTemp \/ CountSymbolTemp
           \/ StringTemp \/ CountStringTemp \/ ProcessInputFiles \/ OutputGlobals \/ OutputFinishUp
           \/ MemoryMap \/ Exit
Next == Arguments \/ Pass1 \/ Pass2 \/ UserError \/ LinkerError \/ Fatal \/ Interrupt

Spec == Init /\ [][Next]_vars

-----------------------------------------------------------------------------
Stopped == status # "running"

\* An error, of whatever kind and in whatever pass, leaves no output file, not
\* even that of an earlier run, which may stay only if its name was not known
\* yet; a half of one is left by a signal only, and a whole one is marked
\* executable.
OutputHonest ==
  Stopped =>
    /\ check_if_errors => lnk = "none" \/ (output_file_name = "unknown" /\ lnk = "old")
    /\ lnk = "part" => status = "interrupt"
    /\ lnk = "new" => exec
    /\ status = "passed" /\ ~check_if_errors => lnk = "new"

\* No temporary file is left, but for one that a signal finds made and not yet
\* counted.
TempsRemoved ==
  Stopped => temps = {} \/ (status = "interrupt" /\ temps = {temp_file[num_open_files + 1]})

\* "No executable has been produced" is what exit_summary says after errors: a
\* run that ends with PASSED has produced one.
PassedMeansExecutable == status = "passed" => lnk = "new"

-----------------------------------------------------------------------------
Counting  == {"c_object", "symbol_count", "string_count"}
BeforeAt  == {"arguments", "architecture", "file", "c_object", "memory_check", "sections",
              "allocate", "output"}
WritingAt == {"symbol_temp", "symbol_count", "string_temp", "string_count", "inputs", "globals",
              "finish"}
WrittenAt == {"memory_map", "exit"}

\* Temporary files made, the one that is not counted yet with them.
Made == num_open_files + IF pc \in Counting THEN 1 ELSE 0

\* The inductive invariant: what the output file is follows from where control
\* is, and the temporary files are those that the table of names has.
IInv ==
  /\ user_errors \in Nat /\ linker_errors \in Nat /\ num_open_files \in Nat
  /\ pc \in BeforeAt \cup WritingAt \cup WrittenAt \cup {"stopped"}
  /\ pc = "stopped" <=> Stopped
  /\ output_file_name \in {"unknown", "lnk"}
  /\ pc \notin {"arguments", "stopped"} \/ status = "passed" => output_file_name = "lnk"
  /\ pc = "arguments" \/ status \in {"help", "usage"} =>
       num_open_files = 0 /\ ~check_if_errors /\ lnk \in {"old", "none"}
  /\ pc \in BeforeAt => lnk \in {"old", "none"}
  /\ pc \in WritingAt => lnk = "part"
  /\ pc \in WrittenAt => lnk = "new" /\ (~check_if_errors => exec)
  /\ ~Stopped => temp_file = [k \in 1 .. Made |-> k] /\ temps = 1 .. Made
  /\ OutputHonest /\ TempsRemoved
=============================================================================
