------------------------------ MODULE FifoQueue ------------------------------
(* What a mailbox promises: a bounded first-in first-out queue.              *)
EXTENDS Naturals, Sequences

CONSTANT Messages
VARIABLES bound, queue, output

FifoInit == queue = <<>> /\ output = 0

Put(m) == /\ Len(queue) < bound
          /\ queue' = Append(queue, m)
          /\ output' = m
          /\ UNCHANGED bound

Get == /\ queue # <<>>
       /\ output' = Head(queue)
       /\ queue' = Tail(queue)
       /\ UNCHANGED bound

FifoSpec == FifoInit /\ [][Get \/ \E m \in Messages : Put(m)]_<<bound, queue, output>>
=============================================================================
