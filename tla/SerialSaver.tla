----------------------------- MODULE SerialSaver -----------------------------
(***************************************************************************)
(* What a crawler's workers pool promises to the database it writes to,    *)
(* whatever the number of workers and the order in which they finish: the  *)
(* jobs of a run reach the storage one by one, in the order in which they  *)
(* were created, none is skipped, and nothing at all is written once the   *)
(* run has halted.                                                         *)
(***************************************************************************)
EXTENDS Naturals, Sequences

CONSTANT NumJobs    \* the jobs of the run are 1 .. NumJobs

VARIABLES stored,    \* the orders of the jobs whose data was written, oldest first
          completed, \* the jobs 1 .. completed are written and acknowledged
          halted     \* TRUE once the pool refuses every further write

vars == <<stored, completed, halted>>

(* The writer's state has its type: what is stored are job orders.         *)
TypeOK ==
    /\ stored \in Seq(1 .. NumJobs)
    /\ completed \in 0 .. NumJobs
    /\ halted \in BOOLEAN

Init ==
    /\ stored = <<>>
    /\ completed = 0
    /\ halted = FALSE

(* The only job that may be written is the one after the last completed.   *)
Store ==
    /\ ~halted
    /\ completed < NumJobs
    /\ Len(stored) = completed
    /\ stored' = Append(stored, completed + 1)
    /\ UNCHANGED <<completed, halted>>

(* A written job is acknowledged before the next one is written.           *)
Complete ==
    /\ ~halted
    /\ Len(stored) = completed + 1
    /\ completed' = completed + 1
    /\ UNCHANGED <<stored, halted>>

Halt ==
    /\ halted' = TRUE
    /\ UNCHANGED <<stored, completed>>

Next == Store \/ Complete \/ Halt

Spec == Init /\ [][Next]_vars
=============================================================================
