--------------------------- MODULE SpatialMailbox ---------------------------
(***************************************************************************)
(* The ring of message slots in a mailbox region (zdx_spatial_mailbox.py).  *)
(* The header holds the next sequence number and the one to read next; a    *)
(* slot holds a sequence number and a message, or zeroes.  Fifo is what the *)
(* mailbox promises.                                                        *)
(***************************************************************************)
EXTENDS Integers, Sequences

CONSTANTS SlotCounts,  \* numbers of slots a region may have room for
          Messages,    \* message contents
          MaxSent      \* bound: messages enqueued

VARIABLES slotCount,  \* slot_count, 0 before the mailbox is opened
          nextSeq, readSeq,  \* the header; 0 while it is blank
          slots,      \* slots[i]: [seq, message]; seq 0 is a zeroed slot
          returned    \* what the last call returned, 0 for nothing

mailboxVars == <<slotCount, nextSeq, readSeq, slots, returned>>

Zeroed == [seq |-> 0, message |-> 0]

\* Mutant: the slot of a sequence number is off by one at the wrap
SlotOfOff(seq) == IF seq > slotCount THEN seq % slotCount ELSE seq - 1

SlotOf(seq) == (seq - 1) % slotCount

MailboxStart(n) ==
  /\ slotCount = n
  /\ nextSeq = 0 /\ readSeq = 0
  /\ slots = [i \in 0..slotCount - 1 |-> Zeroed]
  /\ returned = 0

MailboxInit == \E n \in SlotCounts : MailboxStart(n)

\* _header: what is refused as corrupt
HeaderValid == readSeq >= 1 /\ nextSeq >= readSeq /\ nextSeq - readSeq <= slotCount

\* _ensure_header: a blank region gets a header, another one must be valid
OpenMailbox ==
  /\ nextSeq = 0
  /\ nextSeq' = 1 /\ readSeq' = 1
  /\ returned' = 0
  /\ UNCHANGED <<slotCount, slots>>

Enqueue(m) ==
  /\ HeaderValid
  /\ nextSeq <= MaxSent
  /\ nextSeq - readSeq < slotCount
  /\ slots' = [slots EXCEPT ![SlotOf(nextSeq)] = [seq |-> nextSeq, message |-> m]]
  /\ nextSeq' = nextSeq + 1
  /\ returned' = m
  /\ UNCHANGED <<slotCount, readSeq>>

\* _decode_slot refuses a slot with another sequence number or none
SlotValid(seq) == slots[SlotOf(seq)].seq = seq

Dequeue ==
  /\ HeaderValid
  /\ readSeq < nextSeq
  /\ SlotValid(readSeq)
  /\ returned' = slots[SlotOf(readSeq)].message
  /\ slots' = [slots EXCEPT ![SlotOf(readSeq)] = Zeroed]
  /\ readSeq' = readSeq + 1
  /\ UNCHANGED <<slotCount, nextSeq>>

MailboxNext == OpenMailbox \/ Dequeue \/ \E m \in Messages : Enqueue(m)

-----------------------------------------------------------------------------
(* Properties.                                                              *)

Fifo == INSTANCE FifoQueue
  WITH bound <- slotCount, output <- returned,
       queue <- [i \in 1..nextSeq - readSeq |-> slots[SlotOf(readSeq + i - 1)].message]

(* The mailbox implements a bounded first-in first-out queue: whatever the  *)
(* ring has room for and however often it has wrapped, messages come out    *)
(* once, unchanged and in order (enqueue, dequeue, _slot_offset).           *)
MailboxIsFifo == Fifo!FifoSpec
=============================================================================
