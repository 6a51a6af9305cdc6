---------------------------- MODULE Build_proofs ----------------------------
(***************************************************************************)
(* Proofs about Build, and with it about LinkRun: what a run of ld21k and  *)
(* the command line of the driver leave behind, for every number of files  *)
(* and of errors.                                                          *)
(***************************************************************************)
EXTENDS Build, TLAPS, FiniteSetTheorems

Places == LD!BeforeAt \cup LD!WritingAt \cup LD!WrittenAt

\* The invariant holds before the driver runs a command.
LEMMA InitIInv == Init => IInv
<1> SUFFICES ASSUME Init PROVE IInv
  OBVIOUS
<1> USE DEF Init, LD!Init
<1>1. temp_file = [k \in 1 .. LD!Made |-> k] /\ temps = 1 .. LD!Made
  BY DEF LD!Made, LD!Counting
<1>2. LD!IInv
  BY <1>1 DEF LD!IInv, LD!BeforeAt, LD!WritingAt, LD!WrittenAt, LD!Stopped, LD!OutputHonest,
              LD!TempsRemoved, LD!check_if_errors
<1> QED
  BY <1>2 DEF IInv, TempsRemoved, LD!TempsRemoved, LD!Stopped

\* Where the run is decides what its output file is.
LEMMA RunningPlace ==
  ASSUME LD!IInv, pc # "stopped"
  PROVE  /\ pc \in Places
         /\ status = "running"
         /\ lnk = "new" => pc \in LD!WrittenAt
         /\ pc # "arguments" => output_file_name = "lnk"
         /\ pc = "arguments" => lnk \in {"old", "none"}
         /\ temp_file = [k \in 1 .. LD!Made |-> k] /\ temps = 1 .. LD!Made
BY DEF LD!IInv, Places, LD!BeforeAt, LD!WritingAt, LD!WrittenAt, LD!Stopped

\* linker_exit, told of every error that was counted, leaves what it promises.
LEMMA LinkerExitStep ==
  ASSUME LD!IInv, pc # "stopped",
         NEW code \in {"fatal", "passed", "interrupt"}, NEW errors \in BOOLEAN,
         LD!LinkerExit(code, errors),
         UNCHANGED <<output_file_name, temp_file, num_open_files, exec>>,
         user_errors' \in Nat, linker_errors' \in Nat,
         errors <=> LD!check_if_errors', LD!check_if_errors => errors,
         code = "fatal" => errors /\ pc \notin LD!Counting,
         code = "passed" => pc = "exit"
  PROVE  LD!IInv'
<1>1. /\ pc' = "stopped" /\ status' = code
      /\ lnk' = IF errors /\ output_file_name # "unknown" THEN "none" ELSE lnk
      /\ temps' = temps \ {temp_file[k] : k \in 1 .. num_open_files}
  BY DEF LD!LinkerExit
<1>2. num_open_files \in Nat
  BY DEF LD!IInv
<1>3. temps' = 1 .. LD!Made \ 1 .. num_open_files
  BY <1>1, <1>2, RunningPlace DEF LD!Made
<1>4. LD!TempsRemoved'
  <2>1. CASE pc \in LD!Counting
    <3>1. LD!Made = num_open_files + 1 /\ code = "interrupt"
      BY <2>1 DEF LD!Made, LD!Counting
    <3>2. temp_file[num_open_files + 1] = num_open_files + 1
      BY <3>1, <1>2, RunningPlace
    <3> QED
      BY <3>1, <3>2, <1>1, <1>2, <1>3 DEF LD!TempsRemoved
  <2>2. CASE pc \notin LD!Counting
    BY <2>2, <1>2, <1>3 DEF LD!Made, LD!TempsRemoved
  <2> QED BY <2>1, <2>2
<1>5. LD!OutputHonest'
  <2>1. CASE errors
    <3>1. CASE output_file_name # "unknown"
      BY <2>1, <3>1, <1>1 DEF LD!OutputHonest
    <3>2. CASE output_file_name = "unknown"
      <4>1. lnk' = lnk /\ lnk \in {"old", "none"} /\ code # "passed"
        BY <3>2, <1>1, RunningPlace
      <4> QED
        BY <2>1, <3>2, <4>1, <1>1 DEF LD!OutputHonest
    <3> QED BY <3>1, <3>2
  <2>2. CASE ~errors
    <3>1. /\ code = "passed" => lnk = "new"
          /\ lnk = "new" => exec
      BY <2>2, RunningPlace DEF LD!IInv, LD!WrittenAt
    <3> QED
      BY <2>2, <3>1, <1>1 DEF LD!OutputHonest
  <2> QED BY <2>1, <2>2
<1>6. output_file_name' \in {"unknown", "lnk"} /\ (status' = "passed" => output_file_name' = "lnk")
  BY <1>1, RunningPlace DEF LD!IInv
<1> QED
  BY <1>1, <1>4, <1>5, <1>6 DEF LD!IInv, LD!Stopped, LD!BeforeAt, LD!WritingAt, LD!WrittenAt

\* A step that goes on and leaves the names and the files alone.
LEMMA GoOnStep ==
  ASSUME LD!IInv, pc # "stopped",
         pc' \in Places, pc \notin LD!Counting, pc' \notin LD!Counting,
         pc' # "arguments", output_file_name' = "lnk",
         UNCHANGED <<temp_file, num_open_files, temps, status>>,
         user_errors' \in Nat, linker_errors' \in Nat,
         pc' \in LD!BeforeAt => lnk' \in {"old", "none"},
         pc' \in LD!WritingAt => lnk' = "part",
         pc' \in LD!WrittenAt => lnk' = "new" /\ (~LD!check_if_errors' => exec')
  PROVE  LD!IInv'
<1>1. status' = "running" /\ pc' # "stopped"
  BY RunningPlace DEF Places, LD!BeforeAt, LD!WritingAt, LD!WrittenAt
<1>2. LD!Made' = LD!Made
  BY DEF LD!Made
<1>3. temp_file' = [k \in 1 .. LD!Made' |-> k] /\ temps' = 1 .. LD!Made'
  BY <1>2, RunningPlace
<1> QED
  BY <1>1, <1>3 DEF LD!IInv, Places, LD!Stopped, LD!OutputHonest, LD!TempsRemoved

\* The arguments are read before anything is reported, made or removed.
LEMMA ArgumentsStep ==
  ASSUME LD!IInv, LD!Arguments
  PROVE  LD!IInv'
<1>. USE DEF LD!Rest, LD!counts, LD!naming
<1>1. /\ pc = "arguments" /\ lnk \in {"old", "none"} /\ status = "running"
      /\ num_open_files = 0 /\ ~LD!check_if_errors /\ output_file_name \in {"unknown", "lnk"}
      /\ user_errors \in Nat /\ linker_errors \in Nat /\ pc \notin LD!Counting
      /\ UNCHANGED <<user_errors, linker_errors, temp_file, num_open_files, temps, lnk, exec>>
  <2>1. /\ pc = "arguments"
        /\ UNCHANGED <<user_errors, linker_errors, temp_file, num_open_files, temps, lnk, exec>>
    BY DEF LD!Arguments, LD!NameOutput, LD!ProcessFileName, LD!Help, LD!ProcessArguments
  <2> QED
    BY <2>1, RunningPlace DEF LD!IInv, LD!Counting
<1>2. LD!Made = 0 /\ temps = {} /\ ~LD!check_if_errors'
  <2>1. LD!Made = 0
    BY <1>1 DEF LD!Made
  <2> QED
    BY <2>1, <1>1, RunningPlace DEF LD!check_if_errors
<1>3. ASSUME pc' = pc, status' = status, output_file_name' \in {"unknown", "lnk"} PROVE LD!IInv'
  <2>1. LD!Made' = LD!Made
    BY <1>1, <1>3 DEF LD!Made
  <2>2. temp_file' = [k \in 1 .. LD!Made' |-> k] /\ temps' = 1 .. LD!Made'
    BY <2>1, <1>1, RunningPlace
  <2> QED
    BY <1>1, <1>2, <1>3, <2>2
       DEF LD!IInv, LD!Stopped, LD!OutputHonest, LD!TempsRemoved, LD!BeforeAt, LD!WritingAt,
           LD!WrittenAt
<1>4. ASSUME pc' = "stopped", status' \in {"help", "usage"}, output_file_name' = output_file_name
      PROVE  LD!IInv'
  BY <1>1, <1>2, <1>4
     DEF LD!IInv, LD!Stopped, LD!OutputHonest, LD!TempsRemoved, LD!BeforeAt, LD!WritingAt,
         LD!WrittenAt
<1>5. ASSUME pc' = "architecture", status' = status, output_file_name' = "lnk" PROVE LD!IInv'
  BY <1>1, <1>5, GoOnStep DEF Places, LD!BeforeAt, LD!WritingAt, LD!WrittenAt, LD!Counting
<1>6. CASE LD!NameOutput \/ LD!ProcessFileName
  BY <1>1, <1>3, <1>6 DEF LD!NameOutput, LD!ProcessFileName
<1>7. CASE LD!Help
  BY <1>4, <1>7 DEF LD!Help, LD!named
<1>8. CASE LD!ProcessArguments
  BY <1>4, <1>5, <1>8 DEF LD!ProcessArguments
<1> QED
  BY <1>6, <1>7, <1>8 DEF LD!Arguments

\* A temporary file is made: its name is the next one of the table.
LEMMA MakeTempStep ==
  ASSUME LD!IInv, NEW from, NEW to, LD!MakeTemp(from, to),
         from \in {"file", "symbol_temp", "string_temp"}, to \in LD!Counting,
         from = "file" <=> to = "c_object",
         UNCHANGED <<output_file_name, user_errors, linker_errors, num_open_files, lnk, exec,
                     status>>
  PROVE  LD!IInv'
<1>1. pc = from /\ pc' = to /\ pc # "stopped" /\ pc \notin LD!Counting
  BY DEF LD!MakeTemp, LD!Counting
<1>2. num_open_files \in Nat /\ LD!Made = num_open_files /\ LD!Made' = num_open_files + 1
  BY <1>1 DEF LD!IInv, LD!Made
<1>3. Cardinality(temps) = num_open_files
  BY <1>1, <1>2, RunningPlace, FS_Interval
<1>. DEFINE new == Cardinality(temps) + 1
<1>3a. /\ temp_file' = LD!Put(temp_file, num_open_files + 1, new)
      /\ temps' = temps \cup {new}
  BY DEF LD!MakeTemp, LD!Cardinality, Cardinality
<1>. HIDE DEF new
<1>3b. new = num_open_files + 1
  BY <1>3 DEF new
<1>4. temps' = 1 .. LD!Made'
  BY <1>1, <1>2, <1>3a, <1>3b, RunningPlace
<1>5. temp_file' = [k \in 1 .. LD!Made' |-> k]
  <2>1. temp_file' = LD!Put(temp_file, num_open_files + 1, num_open_files + 1)
    BY <1>3a, <1>3b
  <2>2. DOMAIN temp_file = 1 .. num_open_files /\ \A k \in 1 .. num_open_files : temp_file[k] = k
    BY <1>1, <1>2, RunningPlace
  <2> QED
    BY <2>1, <2>2, <1>2 DEF LD!Put
<1>6. status' = "running"
  BY <1>1, RunningPlace
<1>7. pc' # "stopped" /\ pc' \in Places /\ pc' # "arguments" /\ output_file_name' = "lnk"
  BY <1>1, RunningPlace DEF LD!Counting, Places, LD!BeforeAt, LD!WritingAt
<1>8. /\ pc' \in LD!BeforeAt => lnk' \in {"old", "none"}
      /\ pc' \in LD!WritingAt => lnk' = "part"
      /\ pc' \notin LD!WrittenAt
  BY <1>1 DEF LD!IInv, LD!Counting, LD!BeforeAt, LD!WritingAt, LD!WrittenAt
<1> QED
  BY <1>1, <1>4, <1>5, <1>6, <1>7, <1>8
     DEF LD!IInv, Places, LD!Stopped, LD!OutputHonest, LD!TempsRemoved

\* The file that was made is counted.
LEMMA CountTempStep ==
  ASSUME LD!IInv, NEW from, NEW to, LD!CountTemp(from, to),
         UNCHANGED output_file_name,
         from \in LD!Counting, to \in {"file", "string_temp", "inputs"},
         from = "c_object" <=> to = "file"
  PROVE  LD!IInv'
<1>1. /\ pc = from /\ pc' = to /\ num_open_files' = num_open_files + 1
      /\ UNCHANGED <<user_errors, linker_errors, temp_file, temps, lnk, exec, status>>
  BY DEF LD!CountTemp, LD!counts
<1>2. num_open_files \in Nat /\ pc # "stopped" /\ pc' # "stopped" /\ pc' \notin LD!Counting
  BY <1>1 DEF LD!IInv, LD!Counting
<1>3. LD!Made' = LD!Made
  BY <1>1, <1>2 DEF LD!Made
<1>4. temp_file' = [k \in 1 .. LD!Made' |-> k] /\ temps' = 1 .. LD!Made' /\ status' = "running"
      /\ pc' # "arguments" /\ output_file_name' = "lnk"
  BY <1>1, <1>2, <1>3, RunningPlace DEF LD!Counting
<1>5. /\ pc' \in Places
      /\ pc' \in LD!BeforeAt => lnk' \in {"old", "none"}
      /\ pc' \in LD!WritingAt => lnk' = "part"
      /\ pc' \notin LD!WrittenAt
  BY <1>1 DEF LD!IInv, Places, LD!Counting, LD!BeforeAt, LD!WritingAt, LD!WrittenAt
<1> QED
  BY <1>1, <1>2, <1>4, <1>5 DEF LD!IInv, Places, LD!Stopped, LD!OutputHonest, LD!TempsRemoved

\* Whatever is reported where, the invariant of ld21k holds.
LEMMA ErrorStep ==
  ASSUME LD!IInv, LD!UserError \/ LD!LinkerError \/ LD!Fatal \/ LD!Interrupt
  PROVE  LD!IInv'
<1>. USE DEF LD!counts, LD!named
<1>1. user_errors \in Nat /\ linker_errors \in Nat
  BY DEF LD!IInv
<1>2. CASE LD!UserError
  <2>1. /\ pc \in {"file", "allocate"} /\ user_errors' = user_errors + 1
        /\ UNCHANGED <<output_file_name, linker_errors, temp_file, num_open_files, exec>>
    BY <1>2 DEF LD!UserError, LD!UserErrorAt
  <2>2. CASE LD!LinkerExit("fatal", TRUE)
    <3>1. /\ pc # "stopped" /\ pc \notin LD!Counting
          /\ user_errors' \in Nat /\ linker_errors' \in Nat /\ LD!check_if_errors'
      BY <1>1, <2>1 DEF LD!Counting, LD!check_if_errors
    <3> QED
      BY <2>1, <2>2, <3>1, LinkerExitStep
  <2>3. CASE UNCHANGED <<pc, lnk, temps, status>>
    <3>1. /\ pc \in Places /\ pc \notin LD!Counting \cup LD!WritingAt \cup LD!WrittenAt
          /\ lnk \in {"old", "none"} /\ pc # "stopped" /\ pc # "arguments"
          /\ output_file_name = "lnk"
      BY <2>1 DEF LD!IInv, Places, LD!Counting, LD!BeforeAt, LD!WritingAt, LD!WrittenAt
    <3> QED
      BY <1>1, <2>1, <2>3, <3>1, GoOnStep
  <2> QED BY <1>2, <2>2, <2>3 DEF LD!UserError
<1>3. CASE LD!LinkerError
  <2>1. /\ pc \in {"file", "inputs", "globals", "finish", "memory_map"}
        /\ UNCHANGED <<output_file_name, user_errors, temp_file, num_open_files, exec>>
    BY <1>3 DEF LD!LinkerError, LD!LinkerErrorAt
  <2>2. /\ pc \notin LD!Counting /\ pc # "stopped" /\ pc # "arguments" /\ pc \in Places
        /\ output_file_name = "lnk"
    BY <2>1, RunningPlace DEF LD!Counting, Places, LD!BeforeAt, LD!WritingAt, LD!WrittenAt
  <2>3. CASE user_errors > 0
    BY <1>1, <1>3, <2>1, <2>2, <2>3, LinkerExitStep DEF LD!LinkerError, LD!check_if_errors
  <2>4. CASE ~(user_errors > 0)
    <3>1. linker_errors' = linker_errors + 1 /\ UNCHANGED <<pc, lnk, temps, status>>
      BY <1>3, <2>4 DEF LD!LinkerError
    <3>2. /\ pc \in LD!BeforeAt => lnk \in {"old", "none"}
          /\ pc \in LD!WritingAt => lnk = "part"
          /\ pc \in LD!WrittenAt => lnk = "new"
      BY DEF LD!IInv
    <3>3. LD!check_if_errors'
      BY <1>1, <3>1 DEF LD!check_if_errors
    <3> QED
      BY <1>1, <2>1, <2>2, <3>1, <3>2, <3>3, GoOnStep
  <2> QED BY <2>3, <2>4
<1>4. CASE LD!Fatal
  <2>1. /\ pc # "stopped" /\ pc \notin LD!Counting
        /\ linker_errors' = linker_errors + 1 /\ LD!LinkerExit("fatal", TRUE)
        /\ UNCHANGED <<output_file_name, user_errors, temp_file, num_open_files, exec>>
    BY <1>4 DEF LD!Fatal, LD!FatalAt, LD!Counting
  <2>2. user_errors' \in Nat /\ linker_errors' \in Nat /\ LD!check_if_errors'
    BY <1>1, <2>1 DEF LD!check_if_errors
  <2> QED
    BY <2>1, <2>2, LinkerExitStep
<1>5. CASE LD!Interrupt
  BY <1>1, <1>5, LinkerExitStep DEF LD!Interrupt, LD!check_if_errors
<1> QED BY <1>2, <1>3, <1>4, <1>5

\* Each step of the two passes keeps it too.
LEMMA PassStep ==
  ASSUME LD!IInv, LD!Pass1 \/ LD!Pass2
  PROVE  LD!IInv'
<1>. USE DEF LD!counts, LD!named, LD!naming, LD!Rest
<1>1. /\ user_errors \in Nat /\ linker_errors \in Nat
      /\ pc \in LD!BeforeAt => lnk \in {"old", "none"}
      /\ pc \in LD!WritingAt => lnk = "part"
      /\ pc \in LD!WrittenAt => lnk = "new" /\ (~LD!check_if_errors => exec)
      /\ pc \notin {"arguments", "stopped"} => output_file_name = "lnk"
  BY DEF LD!IInv
<1>2. CASE LD!ParseArchitecture \/ LD!ReadFile
           \/ LD!MemoryCheck \/ LD!ProcessSectionList \/ LD!Allocate
  <2>1. /\ {pc, pc'} \subseteq LD!BeforeAt \ {"arguments", "c_object"}
        /\ UNCHANGED <<output_file_name, user_errors, linker_errors, temp_file, num_open_files,
                       temps, lnk, exec, status>>
    BY <1>2 DEF LD!ParseArchitecture, LD!ReadFile, LD!MemoryCheck,
                LD!ProcessSectionList, LD!Allocate, LD!Go, LD!BeforeAt
  <2>2. pc # "stopped" /\ {pc, pc'} \cap (LD!WritingAt \cup LD!WrittenAt \cup LD!Counting) = {}
    BY <2>1 DEF LD!BeforeAt, LD!WritingAt, LD!WrittenAt, LD!Counting
  <2> QED
    BY <1>1, <2>1, <2>2, GoOnStep DEF Places
<1>3. CASE LD!ProcessInputFiles \/ LD!OutputGlobals
  <2>1. /\ {pc, pc'} \subseteq {"inputs", "globals", "finish"}
        /\ UNCHANGED <<output_file_name, user_errors, linker_errors, temp_file, num_open_files,
                       temps, lnk, exec, status>>
    BY <1>3 DEF LD!ProcessInputFiles, LD!OutputGlobals, LD!Go
  <2>2. /\ pc # "stopped" /\ {pc, pc'} \subseteq LD!WritingAt
        /\ {pc, pc'} \cap (LD!BeforeAt \cup LD!WrittenAt \cup LD!Counting) = {}
    BY <2>1 DEF LD!BeforeAt, LD!WritingAt, LD!WrittenAt, LD!Counting
  <2> QED
    BY <1>1, <2>1, <2>2, GoOnStep DEF Places
<1>4. CASE LD!EndPass1
  <2>1. /\ pc = "file"
        /\ UNCHANGED <<output_file_name, user_errors, linker_errors, temp_file, num_open_files,
                       exec>>
    BY <1>4 DEF LD!EndPass1
  <2>2. CASE LD!check_if_errors
    BY <1>1, <1>4, <2>1, <2>2, LinkerExitStep DEF LD!EndPass1, LD!Counting, LD!check_if_errors
  <2>3. CASE ~LD!check_if_errors
    <3>1. pc' = "memory_check" /\ UNCHANGED <<temps, lnk, status>>
      BY <1>4, <2>3 DEF LD!EndPass1
    <3>2. lnk \in {"old", "none"}
      BY <1>1, <2>1 DEF LD!BeforeAt
    <3> QED
      BY <1>1, <2>1, <3>1, <3>2, GoOnStep
         DEF Places, LD!BeforeAt, LD!WritingAt, LD!WrittenAt, LD!Counting
  <2> QED BY <2>2, <2>3
<1>5. CASE LD!CreateCObject
  <2>1. LD!MakeTemp("file", "c_object")
        /\ UNCHANGED <<output_file_name, user_errors, linker_errors, num_open_files, lnk, exec,
                       status>>
    BY <1>5 DEF LD!CreateCObject
  <2> QED BY <2>1, MakeTempStep DEF LD!Counting
<1>6. CASE LD!SymbolTemp
  <2>1. LD!MakeTemp("symbol_temp", "symbol_count")
        /\ UNCHANGED <<output_file_name, user_errors, linker_errors, num_open_files, lnk, exec,
                       status>>
    BY <1>6 DEF LD!SymbolTemp
  <2> QED BY <2>1, MakeTempStep DEF LD!Counting
<1>7. CASE LD!StringTemp
  <2>1. LD!MakeTemp("string_temp", "string_count")
        /\ UNCHANGED <<output_file_name, user_errors, linker_errors, num_open_files, lnk, exec,
                       status>>
    BY <1>7 DEF LD!StringTemp
  <2> QED BY <2>1, MakeTempStep DEF LD!Counting
<1>8. CASE LD!CountCObject
  BY <1>8, CountTempStep DEF LD!CountCObject, LD!Counting
<1>9. CASE LD!CountSymbolTemp
  BY <1>9, CountTempStep DEF LD!CountSymbolTemp, LD!Counting
<1>10. CASE LD!CountStringTemp
  BY <1>10, CountTempStep DEF LD!CountStringTemp, LD!Counting
<1>11. CASE LD!OpenOutput
  <2>1. /\ pc = "output" /\ pc' = "symbol_temp" /\ lnk' = "part"
        /\ UNCHANGED <<output_file_name, user_errors, linker_errors, temp_file, num_open_files,
                       temps, status>>
    BY <1>11 DEF LD!OpenOutput
  <2> QED
    BY <1>1, <2>1, GoOnStep DEF Places, LD!BeforeAt, LD!WritingAt, LD!WrittenAt, LD!Counting
<1>12. CASE LD!OutputFinishUp
  <2>1. /\ pc = "finish" /\ pc' = "memory_map" /\ lnk' = "new" /\ exec' = ~LD!check_if_errors
        /\ UNCHANGED <<output_file_name, user_errors, linker_errors, temp_file, num_open_files,
                       temps, status>>
    BY <1>12 DEF LD!OutputFinishUp
  <2>2. ~LD!check_if_errors' => exec'
    BY <2>1 DEF LD!check_if_errors
  <2> QED
    BY <1>1, <2>1, <2>2, GoOnStep
       DEF Places, LD!BeforeAt, LD!WritingAt, LD!WrittenAt, LD!Counting
<1>13. CASE LD!MemoryMap
  <2>1. /\ pc = "memory_map" /\ pc' = "exit"
        /\ UNCHANGED <<output_file_name, user_errors, linker_errors, temp_file, num_open_files,
                       temps, lnk, exec, status>>
    BY <1>13 DEF LD!MemoryMap, LD!Go
  <2>2. lnk = "new" /\ (~LD!check_if_errors' => exec')
    BY <1>1, <2>1 DEF LD!WrittenAt, LD!check_if_errors
  <2> QED
    BY <1>1, <2>1, <2>2, GoOnStep
       DEF Places, LD!BeforeAt, LD!WritingAt, LD!WrittenAt, LD!Counting
<1>14. CASE LD!Exit
  <2>1. /\ pc = "exit" /\ LD!LinkerExit("passed", LD!check_if_errors)
        /\ UNCHANGED <<output_file_name, user_errors, linker_errors, temp_file, num_open_files,
                       exec>>
    BY <1>14 DEF LD!Exit
  <2> QED
    BY <1>1, <2>1, LinkerExitStep DEF LD!Counting, LD!check_if_errors
<1> QED
  BY <1>2, <1>3, <1>4, <1>5, <1>6, <1>7, <1>8, <1>9, <1>10, <1>11, <1>12, <1>13, <1>14
     DEF LD!Pass1, LD!Pass2

\* What is proved of the linker holds of the instance of it that the driver runs.
LEMMA LinkRunStep == LD!IInv /\ LD!Next => LD!IInv'
BY ErrorStep, ArgumentsStep, PassStep DEF LD!Next

\* Steps of the driver leave the state of ld21k, all but its file at the end.
LEMMA LinkedUnchanged ==
  ASSUME UNCHANGED <<lnk, linking>>
  PROVE  /\ LD!IInv => LD!IInv'
         /\ TempsRemoved => TempsRemoved'
         /\ LD!Stopped => LD!Stopped'
<1>1. /\ LD!check_if_errors' = LD!check_if_errors
      /\ LD!Made' = LD!Made
      /\ LD!Stopped' = LD!Stopped
  BY DEF linking, LD!check_if_errors, LD!Made, LD!Stopped
<1>2. LD!OutputHonest' = LD!OutputHonest
  BY <1>1 DEF linking, LD!OutputHonest
<1>3. LD!TempsRemoved' = LD!TempsRemoved
  BY <1>1 DEF linking, LD!TempsRemoved
<1> QED
  BY <1>1, <1>2, <1>3 DEF linking, LD!IInv, TempsRemoved

\* IInv says of the file of ld21k only while it is there, and Cleanup removes
\* it at the end.
LEMMA StepIInv == IInv /\ [Next]_vars => IInv'
<1> SUFFICES ASSUME IInv, [Next]_vars PROVE IInv'
  OBVIOUS
<1>1. CASE Link
  <2>1. command = "ld21k" /\ LD!IInv /\ LD!Next /\ UNCHANGED <<command, error_count, exe, memStatus>>
    BY <1>1 DEF IInv, Link
  <2>2. LD!IInv'
    BY <2>1, LinkRunStep
  <2> QED
    BY <2>1, <2>2 DEF IInv, TempsRemoved, LD!IInv
<1>2. CASE LinkEnded
  <2>1. /\ UNCHANGED <<exe, memStatus, lnk, linking>> /\ command = "ld21k" /\ LD!Stopped
        /\ \/ command' = "mem21k" /\ status \in {"passed", "help"}
           \/ command' = "cleanup" /\ error_count' = 1
    BY <1>2 DEF LinkEnded
  <2>2. LD!IInv' /\ TempsRemoved' /\ LD!Stopped'
    BY <2>1, LinkedUnchanged DEF IInv
  <2> QED
    BY <2>1, <2>2 DEF IInv, linking
<1>3. CASE Initialize
  <2>1. /\ UNCHANGED <<command, error_count, lnk, linking>> /\ command = "mem21k"
        /\ MEM!Next /\ (exe' = "new" \/ memStatus' = "passed" => lnk # "none")
    BY <1>3 DEF Initialize
  <2>2. LD!IInv' /\ TempsRemoved' /\ LD!Stopped'
    BY <2>1, LinkedUnchanged DEF IInv
  <2>3. memStatus' = "passed" => exe' = "new"
    BY <2>1 DEF IInv, MEM!Next, MEM!Begin, MEM!Complete, MEM!Remove, MEM!Pass, MEM!Fail, MEM!Stop
  \* ld21k exited with 0: the file is there only if no error was counted.
  <2>4. lnk # "none" => /\ user_errors = 0 /\ linker_errors = 0
                        /\ lnk = IF status = "help" THEN "old" ELSE "new"
    <3>1. /\ LD!IInv /\ LD!Stopped /\ status \in {"passed", "help"}
          /\ user_errors \in Nat /\ linker_errors \in Nat
      BY <2>1 DEF IInv, LD!IInv
    <3>2. CASE status = "passed"
      <4>1. LD!check_if_errors => lnk = "none"
        BY <3>1, <3>2 DEF LD!IInv, LD!OutputHonest
      <4>2. ~LD!check_if_errors => lnk = "new"
        BY <3>1, <3>2 DEF LD!IInv, LD!OutputHonest
      <4> QED
        BY <3>1, <3>2, <4>1, <4>2 DEF LD!check_if_errors
    <3>3. CASE status = "help"
      BY <3>1, <3>3 DEF LD!IInv, LD!check_if_errors
    <3> QED BY <3>1, <3>2, <3>3
  <2>5. /\ exe = "new" \/ exe' = "new" => lnk # "none"
        /\ UNCHANGED <<command, error_count, lnk, status, user_errors, linker_errors>>
        /\ command = "mem21k"
    BY <2>1 DEF IInv, linking
  <2>6. exe' = "new" => /\ user_errors' = 0 /\ linker_errors' = 0
                        /\ lnk' = IF status' = "help" THEN "old" ELSE "new"
    BY <2>4, <2>5
  <2> QED
    BY <2>1, <2>2, <2>3, <2>5, <2>6 DEF IInv
<1>4. CASE InitializeEnded
  <2>1. /\ UNCHANGED <<exe, memStatus, lnk, linking>> /\ command = "mem21k" /\ command' = "cleanup"
        /\ error_count' = IF memStatus = "passed" THEN 0 ELSE 1
    BY <1>4 DEF InitializeEnded
  <2>2. LD!IInv' /\ TempsRemoved' /\ LD!Stopped'
    BY <2>1, LinkedUnchanged DEF IInv
  <2> QED
    BY <2>1, <2>2 DEF IInv, linking
<1>5. CASE Cleanup
  <2>1. /\ UNCHANGED <<error_count, exe, memStatus, linking>> /\ command = "cleanup"
        /\ command' = "stopped" /\ lnk' = "none"
    BY <1>5 DEF Cleanup
  <2> QED
    BY <2>1 DEF IInv, TempsRemoved, LD!TempsRemoved, LD!Stopped, linking
<1>6. CASE UNCHANGED vars
  <2>1. (LD!IInv => LD!IInv') /\ TempsRemoved' /\ (LD!Stopped => LD!Stopped')
    BY <1>6, LinkedUnchanged DEF IInv, vars
  <2> QED
    BY <1>6, <2>1 DEF IInv, vars, linking
<1> QED
  BY <1>1, <1>2, <1>3, <1>4, <1>5, <1>6 DEF Next

\* The invariant holds throughout the last command of the driver.
LEMMA Inductive == Spec => []IInv
BY InitIInv, StepIInv, PTL DEF Spec

-----------------------------------------------------------------------------
\* Whatever goes wrong in whichever pass, ld21k leaves no output file behind an
\* error -- but one of an earlier run, if the error came before the arguments
\* gave its name --, a half of one only when a signal ended it, and marks a whole
\* one executable.
THEOREM OutputAlwaysHonest == Spec => []OutputHonest
<1>1. IInv => OutputHonest
  BY DEF IInv, OutputHonest, LD!IInv
<1> QED BY <1>1, Inductive, PTL

\* A run of ld21k removes every temporary file it made, but for the one that a
\* signal finds between its making and its counting.
THEOREM TempsAlwaysRemoved == Spec => []TempsRemoved
<1>1. IInv => TempsRemoved
  BY DEF IInv
<1> QED BY <1>1, Inductive, PTL

\* The driver reports success only for an executable made of a faultless file,
\* although ld21k itself may report success after errors; and of the file of this
\* run, unless ld21k was told to do no more than show its usage.
THEOREM BuildAlwaysHonest == Spec => []BuildHonest
<1>1. IInv => BuildHonest
  BY DEF IInv, BuildHonest
<1> QED BY <1>1, Inductive, PTL
=============================================================================
