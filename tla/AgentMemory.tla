----------------------------- MODULE AgentMemory -----------------------------
(***************************************************************************)
(* Namespaced agent memory (zdx_agent_memory_manager.py): entries carry a   *)
(* sequence number, every namespace has an entry and a byte quota, the      *)
(* whole document a capacity, and a "fifo" namespace makes room for a new   *)
(* value by dropping its oldest entries.  A value is its encoded size.      *)
(***************************************************************************)
EXTENDS Integers, FiniteSets, FiniteSetsExt

CONSTANTS Namespaces,  \* namespace names
          MemPolicy,   \* [max_entries, max_bytes, eviction] of a namespace
          Keys,        \* keys callers use, as pairs <<name, 0>>
          Sizes,       \* encoded sizes of values
          Capacity,    \* store.capacity_bytes
          Fixed,       \* bytes the rest of the document takes
          MaxSequence  \* bound: next_sequence

ASSUME MemoryAssumption ==
  \A n \in Namespaces : MemPolicy[n].eviction \in {"fifo", "reject"}

VARIABLES entries,       \* entries[n]: set of [key, sequence, size]
          nextSequence,  \* root["next_sequence"]
          written        \* [ns, key] of the last successful set, for the properties

memoryVars == <<entries, nextSequence, written>>

Nothing == [ns |-> "", key |-> <<"", 0>>]

\* a key append() generates from the sequence number
Generated(i) == <<"append", i>>

Bytes(E) == MapThenSumSet(LAMBDA e : e.size, E)

DocumentSize(all) == Fixed + MapThenSumSet(LAMBDA n : Bytes(all[n]), Namespaces)

MemoryInit ==
  /\ entries = [n \in Namespaces |-> {}]
  /\ nextSequence = 1
  /\ written = Nothing

-----------------------------------------------------------------------------
(* Making room.                                                             *)

OverQuota(n, E) == Cardinality(E) > MemPolicy[n].max_entries \/ Bytes(E) > MemPolicy[n].max_bytes

OverCapacity(n, E) == DocumentSize([entries EXCEPT ![n] = E]) > Capacity

\* Mutant: the victim is the entry written last before this one
NewestKey(E, key) ==
  {e \in E : e.key # key /\ \A f \in E : f.key # key => e.sequence >= f.sequence}

\* _oldest_key: the victim, if there is one
OldestKey(E, key) ==
  {e \in E : e.key # key /\ \A f \in E : f.key # key => e.sequence <= f.sequence}

(* The two eviction loops: _enforce_namespace, then                         *)
(* _ensure_global_capacity_with_fifo.  They drop the oldest entry until the *)
(* limits hold.  {} stands for MemoryQuotaExceeded: a "reject" namespace,   *)
(* or nothing left to evict but the value itself.                           *)
RECURSIVE Enforced(_, _, _)
Enforced(n, E, key) ==
  IF ~OverQuota(n, E) /\ ~OverCapacity(n, E) THEN E
  ELSE IF MemPolicy[n].eviction = "reject" \/ OldestKey(E, key) = {} THEN {}
  ELSE Enforced(n, E \ OldestKey(E, key), key)

-----------------------------------------------------------------------------
(* Operations.  Each works on a copy that replaces the document only when   *)
(* every check has passed.                                                  *)

\* _set_locked: the new entry always gets a new sequence number
Stored(n, key, size) ==
  Enforced(n, {e \in entries[n] : e.key # key}
              \cup {[key |-> key, sequence |-> nextSequence, size |-> size]}, key)

\* Mutant: the sequence number is taken from the entry that is replaced
SetSameSequence(n, key, size) ==
  /\ nextSequence < MaxSequence
  /\ Stored(n, key, size) # {}
  /\ entries' = [entries EXCEPT ![n] = Stored(n, key, size)]
  /\ nextSequence' = IF \E e \in entries[n] : e.key = key THEN nextSequence ELSE nextSequence + 1
  /\ written' = [ns |-> n, key |-> key]

SetLocked(n, key, size) ==
  /\ nextSequence < MaxSequence
  /\ Stored(n, key, size) # {}
  /\ entries' = [entries EXCEPT ![n] = Stored(n, key, size)]
  /\ nextSequence' = nextSequence + 1
  /\ written' = [ns |-> n, key |-> key]

Set(n, key, size) == SetLocked(n, key, size)

AppendValue(n, size) == SetLocked(n, Generated(nextSequence), size)

SetRefused(n, key, size) ==
  /\ nextSequence < MaxSequence
  /\ Stored(n, key, size) = {}
  /\ written' = Nothing
  /\ UNCHANGED <<entries, nextSequence>>

Delete(n, key) ==
  /\ \E e \in entries[n] : e.key = key
  /\ entries' = [entries EXCEPT ![n] = {e \in @ : e.key # key}]
  /\ written' = Nothing
  /\ UNCHANGED nextSequence

Clear(n) ==
  /\ entries' = [entries EXCEPT ![n] = {}]
  /\ written' = Nothing
  /\ UNCHANGED nextSequence

MemoryNext ==
  \E n \in Namespaces :
    \/ \E size \in Sizes : \/ \E key \in Keys : Set(n, key, size) \/ SetRefused(n, key, size)
                           \/ AppendValue(n, size)
    \/ \E e \in entries[n] : Delete(n, e.key)
    \/ Clear(n)

MemorySpec == MemoryInit /\ [][MemoryNext]_memoryVars

-----------------------------------------------------------------------------
(* Properties.                                                              *)

(* _validate_root never refuses what the manager itself wrote, and the      *)
(* quotas and the capacity hold after every call: keys and sequence numbers *)
(* are unique across the document, the next one follows them all.           *)
MemoryRootValid ==
  LET everything == UNION {entries[n] : n \in Namespaces}
  IN /\ \A n \in Namespaces : ~OverQuota(n, entries[n])
     /\ DocumentSize(entries) <= Capacity
     /\ \A e \in everything : e.sequence < nextSequence
     /\ \A n, m \in Namespaces : \A e \in entries[n], f \in entries[m] :
          e.sequence = f.sequence => n = m /\ e = f
     /\ \A n \in Namespaces : \A e, f \in entries[n] : e.key = f.key => e = f

(* A value that is set is there afterwards; making room for it costs other  *)
(* namespaces and "reject" namespaces nothing, and in its own only entries  *)
(* older than every entry that stays (_oldest_key, protected_key).          *)
EvictionTakesOldest ==
  [][LET n == written'.ns
         lost == {e \in entries[n] : e.key # written'.key} \ entries'[n]
         kept == {e \in entries'[n] : e.key # written'.key}
     IN (nextSequence' > nextSequence) =>
          /\ \E e \in entries'[n] : e.key = written'.key /\ e.sequence = nextSequence
          /\ \A m \in Namespaces \ {n} : entries'[m] = entries[m]
          /\ MemPolicy[n].eviction = "reject" => lost = {}
          /\ \A e \in lost, f \in kept : e.sequence < f.sequence]_memoryVars
=============================================================================
