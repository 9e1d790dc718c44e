--------------------------- MODULE MCComputeQueue ---------------------------
(***************************************************************************)
(* Instances of ComputeQueue for TLC: two tasks that one worker can hold   *)
(* together only when its registered limits are the larger ones, and a     *)
(* feature that only one of the reports offers.                            *)
(***************************************************************************)
EXTENDS ComputeQueue, TLC

CONSTANTS t1, t2, w1, w2

MCTasks == {t1, t2}
MCWorkers == {w1, w2}
WorkerSymmetry == Permutations(MCWorkers)
MCFeatures == {"pyxel-vm"}

\* t1 is the older task; together they need 3 units of memory.
MCTaskSpec ==
    t1 :> [memory |-> 2, threads |-> 1, seconds |-> 1, features |-> {}, rank |-> 1]
    @@ t2 :> [memory |-> 1, threads |-> 1, seconds |-> 5,
              features |-> {"pyxel-vm"}, rank |-> 2]

Large == [memory |-> 3, safe |-> 0, cpu |-> 2, features |-> {"pyxel-vm"}]
Small == [memory |-> 4, safe |-> 2, cpu |-> 0, features |-> {"pyxel-vm"}]

BothReports == {Large, Small}
LargeReport == {Large}

OneLegacy == {t1}

FullPoll == {[memory |-> 4, cpu |-> 2]}

=============================================================================
