----------------------------- MODULE CaseLedger -----------------------------
(***************************************************************************)
(* What a resumable generation promises about the work it has paid for:    *)
(* the outputs a case has kept are written down with the run that made     *)
(* them, a run only adds entries of its own, an interrupted run loses no   *)
(* entry, and nothing is added once the case is finished.                  *)
(*                                                                         *)
(*   made    the run that made each output, NotMade when none is kept      *)
(*   run     the number of the current run                                 *)
(*   phase   what the case is doing                                        *)
(***************************************************************************)
EXTENDS Naturals

CONSTANTS
    Outputs,  \* the outputs a case may keep
    MaxRuns   \* bound on the runs of a case

VARIABLES made, run, phase

vars == <<made, run, phase>>

NotMade == 0
Phases == {"running", "cut", "failed", "done"}

Init == /\ made = [o \in Outputs |-> NotMade]
        /\ run = 1
        /\ phase = "running"

\* The running run keeps some outputs that were not kept before.
Keep == /\ phase = "running"
        /\ made' \in [Outputs -> 0 .. MaxRuns]
        /\ \A o \in Outputs : \/ made'[o] = made[o]
                              \/ made[o] = NotMade /\ made'[o] = run
        /\ UNCHANGED <<run, phase>>

\* The run ends: interrupted, failed for good, or with the finished case.
Stop == /\ phase = "running"
        /\ phase' \in Phases \ {"running"}
        /\ UNCHANGED <<made, run>>

\* A resumed run starts from what was kept.
Resume == /\ phase = "cut"
          /\ phase' = "running"
          /\ run < MaxRuns /\ run' = run + 1
          /\ UNCHANGED made

Next == Keep \/ Stop \/ Resume

Spec == Init /\ [][Next]_vars
=============================================================================
