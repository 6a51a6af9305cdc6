------------------------------ MODULE ToolRun ------------------------------
(***************************************************************************)
(* What a caller may expect of one run of a tool that makes one file: the  *)
(* file is taken away or begun at most once before it is complete, success *)
(* is reported of a complete file only, and an error leaves no half of     *)
(* one.  A signal may end the run at any moment and leaves what there is.  *)
(***************************************************************************)
VARIABLES
  file,    \* "old": as before the run; "none", "part", "new"
  status   \* "running", or how the run ended

vars == <<file, status>>

Init == file \in {"old", "none", "part"} /\ status = "running"

Remove ==
  /\ status = "running" /\ file = "old"
  /\ file' = "none" /\ UNCHANGED status

Begin ==
  /\ status = "running" /\ file \in {"old", "none"}
  /\ file' = "part" /\ UNCHANGED status

Complete ==
  /\ status = "running" /\ file = "part"
  /\ file' = "new" /\ UNCHANGED status

Pass ==
  /\ status = "running" /\ file = "new"
  /\ status' = "passed" /\ UNCHANGED file

Fail ==
  /\ status = "running"
  /\ file' \in {file, "none"} \ {"part"}
  /\ status' = "error"

Stop ==
  /\ status = "running"
  /\ status' = "interrupt" /\ UNCHANGED file

Next == Remove \/ Begin \/ Complete \/ Pass \/ Fail \/ Stop

Spec == Init /\ [][Next]_vars
=============================================================================
