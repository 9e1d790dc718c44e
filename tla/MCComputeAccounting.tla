------------------------ MODULE MCComputeAccounting ------------------------
(***************************************************************************)
(* Instances of ComputeAccounting for TLC: two connection threads, two     *)
(* tasks, and a worker that can hold one of them at a time, twice.         *)
(***************************************************************************)
EXTENDS ComputeAccounting

CONSTANTS t1, t2, w1, c1, c2

MCTasks == {t1, t2}
OneWorker == {w1}
MCConnections == {c1, c2}
ConnectionSymmetry == Permutations(MCConnections)

MCTaskSpec ==
    [t \in MCTasks |->
       [memory |-> 1, threads |-> 1, seconds |-> 1, features |-> {},
        rank |-> IF t = t1 THEN 1 ELSE 2]]

Report == {[memory |-> 1, safe |-> 0, cpu |-> 2, features |-> {}]}
Poll == {[memory |-> 2, cpu |-> 2]}

=============================================================================
