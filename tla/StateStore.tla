----------------------------- MODULE StateStore -----------------------------
(***************************************************************************)
(* StateStore and atomic_write_bytes: one checksummed state file with a    *)
(* previous-generation backup, used by several processes under a kernel    *)
(* file lock.  Processes die at any step, the machine loses power, the     *)
(* medium damages a file, a system call fails.                             *)
(*                                                                         *)
(* The document is a set of update identifiers: transform adds one.  A     *)
(* file is missing, or damaged, or [version, data]; version 0 is a legacy  *)
(* file without an envelope.  Renames reach the disk in the order they     *)
(* were made: "surviving" holds every directory a power loss can leave,    *)
(* and _fsync_directory leaves only the present one.  Temporary files have *)
(* names of their own, are never read and are left out.                    *)
(***************************************************************************)
EXTENDS Naturals, FiniteSets

CONSTANTS
    Procs,          \* processes that share the file
    Version,        \* schema version of this reader
    MaxCalls,       \* bound: calls
    MaxDamage,      \* bound: damaged files
    MaxFaults       \* bound: failed system calls and failed migrations

VARIABLES
    discipline, \* "update", or "save" by one owner: how this file is written
    dir,        \* [primary, backup]
    surviving,  \* directories a power loss may leave
    lock,       \* process that holds the lock, or Free
    pc,         \* process -> next step
    call,       \* process -> [op, id]: "load", "update" or "save", and its identifier
    read,       \* process -> data loaded, or last saved (self.data)
    payload,    \* process -> file content to write
    moved,      \* process -> moved_old
    after,      \* process -> step after the atomic write
    acked,      \* updates whose call has returned
    calls, damage, faults,
    wrecked     \* damage has hit the only readable copy, or a call under way

storeVars == <<discipline, dir, surviving, lock, pc, call, read, payload,
               moved, after, acked, calls, damage, faults, wrecked>>

Missing == [kind |-> "missing"]
Damaged == [kind |-> "damaged"]
Envelope(v, d) == [kind |-> "file", version |-> v, data |-> d]
Free == "free"
Owner == CHOOSE p \in Procs : TRUE

ASSUME StoreAssumption == Procs # {} /\ Free \notin Procs /\ Version \in Nat

Exists(f) == f.kind # "missing"
Decodes(f) == f.kind = "file"

NoCall == [op |-> "load", id |-> 0]

\* no file yet, or one that an older version wrote
StoreStart(d, primary) ==
    /\ discipline = d
    /\ dir = [primary |-> primary, backup |-> Missing]
    /\ surviving = {dir} /\ lock = Free
    /\ pc = [p \in Procs |-> "idle"] /\ call = [p \in Procs |-> NoCall]
    /\ read = [p \in Procs |-> {}] /\ payload = [p \in Procs |-> Missing]
    /\ moved = [p \in Procs |-> FALSE] /\ after = [p \in Procs |-> "return"]
    /\ acked = {} /\ calls = 0 /\ damage = 0 /\ faults = 0 /\ wrecked = FALSE

StoreInit == \E d \in {"update", "save"}, f \in {Missing, Envelope(0, {})} : StoreStart(d, f)

Goto(p, step) == pc' = [pc EXCEPT ![p] = step]
\* The call ends, with its local variables; only the owner keeps its copy.
Leave(p) ==
    /\ Goto(p, "idle")
    /\ call' = [call EXCEPT ![p] = NoCall]
    /\ payload' = [payload EXCEPT ![p] = Missing]
    /\ moved' = [moved EXCEPT ![p] = FALSE]
    /\ after' = [after EXCEPT ![p] = "return"]
    /\ UNCHANGED <<discipline, calls, damage>>
Forget(p) == IF discipline = "save" /\ p = Owner THEN read ELSE [read EXCEPT ![p] = {}]
Rename(d) == dir' = d /\ surviving' = surviving \cup {d}
SyncRename(d) == dir' = d /\ surviving' = {d}

-----------------------------------------------------------------------------
(* Calls, the lock, returns.                                               *)

Call(p, c) ==
    /\ pc[p] = "idle"
    /\ calls < MaxCalls /\ calls' = calls + 1
    /\ c # "load" => c = discipline
    /\ c = "save" => p = Owner
    /\ call' = [call EXCEPT ![p] = [op |-> c, id |-> calls']]
    /\ Goto(p, "lock")
    /\ UNCHANGED <<discipline, dir, surviving, lock, read, payload, moved,
                   after, acked, damage, faults>>

\* FileLock.acquire
Acquire(p) ==
    /\ pc[p] = "lock" /\ lock = Free
    /\ lock' = p
    /\ Goto(p, IF call[p].op = "save" THEN "inspect" ELSE "load")
    /\ UNCHANGED <<discipline, dir, surviving, call, read, payload, moved,
                   after, acked, calls, damage, faults>>

LockTimeout(p) ==
    /\ pc[p] = "lock" /\ lock # Free
    /\ Leave(p)
    /\ UNCHANGED <<dir, surviving, lock, read, acked, faults>>

Return(p) ==
    /\ pc[p] = "return"
    /\ lock' = Free
    /\ acked' = IF call[p].op = "load" THEN acked ELSE acked \cup read[p]
    /\ read' = Forget(p) /\ Leave(p)
    /\ UNCHANGED <<dir, surviving, faults>>

\* Mutant: the exception leaves the lock held.
RaiseLocked(p) ==
    /\ pc[p] = "raise"
    /\ read' = Forget(p) /\ Leave(p)
    /\ UNCHANGED <<dir, surviving, lock, acked, faults>>

Raise(p) ==
    /\ pc[p] = "raise"
    /\ lock' = Free
    /\ read' = Forget(p) /\ Leave(p)
    /\ UNCHANGED <<dir, surviving, acked, faults>>

-----------------------------------------------------------------------------
(* _load_locked                                                            *)

\* What was found is older than this reader: migrate and write it.
NeedsMigration(f) == f.version < Version

Loaded(p, f) ==
    /\ read' = [read EXCEPT ![p] = f.data]
    /\ IF NeedsMigration(f)
       THEN /\ payload' = [payload EXCEPT ![p] = Envelope(Version, f.data)]
            /\ after' = [after EXCEPT ![p] = "loaded"]
            /\ Goto(p, "migrate")
       ELSE /\ Goto(p, "loaded")
            /\ UNCHANGED <<payload, after>>

LoadDefault(p) ==
    /\ read' = [read EXCEPT ![p] = {}]
    /\ Goto(p, "loaded")
    /\ UNCHANGED <<payload, after>>

Source == IF ~Exists(dir.primary) THEN dir.backup ELSE dir.primary

Load(p) ==
    /\ pc[p] = "load"
    /\ \/ /\ ~Exists(Source)
          /\ LoadDefault(p) /\ UNCHANGED <<dir, surviving>>
       \/ /\ Decodes(Source)
          /\ Loaded(p, Source) /\ UNCHANGED <<dir, surviving>>
       \/ /\ Exists(Source) /\ ~Decodes(Source) /\ Exists(dir.primary)
          /\ SyncRename([dir EXCEPT !.primary = Missing])
          /\ Goto(p, "recover") /\ UNCHANGED <<read, payload, after>>
       \/ /\ Exists(Source) /\ ~Decodes(Source) /\ ~Exists(dir.primary)
          /\ SyncRename([dir EXCEPT !.backup = Missing])
          /\ LoadDefault(p)
    /\ UNCHANGED <<discipline, lock, call, moved, acked, calls, damage, faults>>

\* The primary has been quarantined.
Recover(p) ==
    /\ pc[p] = "recover"
    /\ \/ /\ ~Exists(dir.backup)
          /\ LoadDefault(p) /\ UNCHANGED <<dir, surviving>>
       \/ /\ Decodes(dir.backup)
          /\ read' = [read EXCEPT ![p] = dir.backup.data]
          /\ payload' = [payload EXCEPT ![p] = dir.backup]
          /\ after' = [after EXCEPT ![p] =
                          IF NeedsMigration(dir.backup) THEN "migrate" ELSE "loaded"]
          /\ Goto(p, "temp") /\ UNCHANGED <<dir, surviving>>
       \/ /\ Exists(dir.backup) /\ ~Decodes(dir.backup)
          /\ SyncRename([dir EXCEPT !.backup = Missing])
          /\ Goto(p, "raise") /\ UNCHANGED <<read, payload, after>>
    /\ UNCHANGED <<discipline, lock, call, moved, acked, calls, damage, faults>>

\* MigrationRegistry.upgrade: every step in turn, or MigrationError with the
\* original state retained.
Migrate(p) ==
    /\ pc[p] = "migrate"
    /\ \/ /\ payload' = [payload EXCEPT ![p] = Envelope(Version, read[p])]
          /\ after' = [after EXCEPT ![p] = "loaded"]
          /\ Goto(p, "temp") /\ UNCHANGED faults
       \/ /\ faults < MaxFaults /\ faults' = faults + 1
          /\ Goto(p, "raise") /\ UNCHANGED <<payload, after>>
    /\ UNCHANGED <<discipline, dir, surviving, lock, call, read, moved, acked,
                   calls, damage>>

-----------------------------------------------------------------------------
(* What follows the load: return it, or transform and write it.            *)

\* update decodes the primary once more for its metadata, and may find it
\* damaged by now.
Transform(p) ==
    /\ pc[p] = "loaded"
    /\ IF call[p].op = "load" THEN Goto(p, "return") /\ UNCHANGED <<read, payload, after>>
       ELSE IF Exists(dir.primary) /\ ~Decodes(dir.primary)
       THEN Goto(p, "raise") /\ UNCHANGED <<read, payload, after>>
       ELSE /\ read' = [read EXCEPT ![p] = @ \cup {call[p].id}]
            /\ payload' = [payload EXCEPT ![p] = Envelope(Version, read'[p])]
            /\ after' = [after EXCEPT ![p] = "return"]
            /\ Goto(p, "temp")
    /\ UNCHANGED <<discipline, dir, surviving, lock, call, moved, acked, calls,
                   damage, faults>>

\* save writes what its owner holds; a damaged primary is quarantined first.
Inspect(p) ==
    /\ pc[p] = "inspect"
    /\ IF Exists(dir.primary) /\ ~Decodes(dir.primary)
       THEN SyncRename([dir EXCEPT !.primary = Missing])
       ELSE UNCHANGED <<dir, surviving>>
    /\ read' = [read EXCEPT ![p] = @ \cup {call[p].id}]
    /\ payload' = [payload EXCEPT ![p] = Envelope(Version, read'[p])]
    /\ after' = [after EXCEPT ![p] = "return"]
    /\ Goto(p, "temp")
    /\ UNCHANGED <<discipline, lock, call, moved, acked, calls, damage, faults>>

-----------------------------------------------------------------------------
(* atomic_write_bytes                                                      *)

WriteTemp(p) ==
    /\ pc[p] = "temp"
    /\ moved' = [moved EXCEPT ![p] = FALSE]
    /\ Goto(p, "backup")
    /\ UNCHANGED <<discipline, dir, surviving, lock, call, read, payload, after, acked,
                   calls, damage, faults>>

\* Mutant: a backup is only made when there is none.
KeepFirstBackup(p) ==
    /\ pc[p] = "backup"
    /\ IF Exists(dir.primary) /\ ~Exists(dir.backup)
       THEN /\ Rename([primary |-> Missing, backup |-> dir.primary])
            /\ moved' = [moved EXCEPT ![p] = TRUE]
       ELSE UNCHANGED <<dir, surviving, moved>>
    /\ Goto(p, "replace")
    /\ UNCHANGED <<discipline, lock, call, read, payload, after, acked, calls,
                   damage, faults>>

KeepBackup(p) ==
    /\ pc[p] = "backup"
    /\ IF Exists(dir.primary)
       THEN /\ Rename([primary |-> Missing, backup |-> dir.primary])
            /\ moved' = [moved EXCEPT ![p] = TRUE]
       ELSE UNCHANGED <<dir, surviving, moved>>
    /\ Goto(p, "replace")
    /\ UNCHANGED <<discipline, lock, call, read, payload, after, acked, calls,
                   damage, faults>>

Replace(p) ==
    /\ pc[p] = "replace"
    /\ Rename([dir EXCEPT !.primary = payload[p]])
    /\ Goto(p, "sync")
    /\ UNCHANGED <<discipline, lock, call, read, payload, moved, after, acked, calls,
                   damage, faults>>

\* Mutant: the directory is not synchronised.
NoSync(p) ==
    /\ pc[p] = "sync"
    /\ Goto(p, after[p])
    /\ UNCHANGED <<discipline, dir, surviving, lock, call, read, payload, moved,
                   after, acked, calls, damage, faults>>

FsyncDirectory(p) ==
    /\ pc[p] = "sync"
    /\ surviving' = {dir}
    /\ Goto(p, after[p])
    /\ UNCHANGED <<discipline, dir, lock, call, read, payload, moved, after,
                   acked, calls, damage, faults>>

\* A system call of the commit raises: the old file is put back if it had been
\* moved away, and the temporary file is removed.
CommitFails(p) ==
    /\ pc[p] \in {"temp", "backup", "replace", "sync"}
    /\ faults < MaxFaults /\ faults' = faults + 1
    /\ IF pc[p] = "replace" /\ moved[p] /\ ~Exists(dir.primary) /\ Exists(dir.backup)
       THEN SyncRename([primary |-> dir.backup, backup |-> Missing])
       ELSE UNCHANGED <<dir, surviving>>
    /\ Goto(p, "raise")
    /\ UNCHANGED <<discipline, lock, call, read, payload, moved, after, acked, calls,
                   damage>>

-----------------------------------------------------------------------------
(* The environment.                                                        *)

\* What load would return from directory d.
Shown(d) == IF Decodes(d.primary) THEN d.primary.data
            ELSE IF Decodes(d.backup) THEN d.backup.data ELSE {}

\* The owner's copy dies with its process; its successor starts by loading.
Reborn(p) == IF discipline = "save" /\ p = Owner THEN Shown(dir') ELSE {}

\* A process dies; the kernel releases its lock.
Kill(p) ==
    /\ pc[p] # "idle"
    /\ lock' = IF lock = p THEN Free ELSE lock
    /\ UNCHANGED <<dir, surviving, acked, faults>>
    /\ read' = [read EXCEPT ![p] = Reborn(p)]
    /\ Leave(p)

PowerLoss ==
    /\ \E d \in surviving : dir' = d /\ surviving' = {d}
    /\ dir' # dir \/ \E p \in Procs : pc[p] # "idle"
    /\ pc' = [p \in Procs |-> "idle"] /\ call' = [p \in Procs |-> NoCall]
    /\ payload' = [p \in Procs |-> Missing] /\ moved' = [p \in Procs |-> FALSE]
    /\ after' = [p \in Procs |-> "return"] /\ lock' = Free
    /\ read' = [p \in Procs |-> Reborn(p)]
    /\ UNCHANGED <<discipline, acked, calls, damage, faults>>

Other(f) == IF f = "primary" THEN "backup" ELSE "primary"
Damage ==
    /\ damage < MaxDamage /\ damage' = damage + 1
    /\ \E f \in {"primary", "backup"} :
          /\ Decodes(dir[f])
          /\ SyncRename([dir EXCEPT ![f] = Damaged])
          /\ wrecked' = (wrecked \/ lock # Free \/ ~Decodes(dir[Other(f)]))
    /\ UNCHANGED <<discipline, lock, pc, call, read, payload, moved, after,
                   acked, calls, faults>>

StoreStep(p) ==
    \/ Acquire(p) \/ LockTimeout(p) \/ Return(p) \/ Raise(p) \/ Load(p) \/ Recover(p)
    \/ Migrate(p) \/ Transform(p) \/ Inspect(p) \/ WriteTemp(p) \/ KeepBackup(p)
    \/ Replace(p) \/ FsyncDirectory(p)

StoreNext ==
    \/ /\ \/ \E p \in Procs : StoreStep(p) \/ CommitFails(p) \/ Kill(p)
          \/ \E p \in Procs, c \in {"load", "update", "save"} : Call(p, c)
          \/ PowerLoss
       /\ UNCHANGED wrecked
    \/ Damage

StoreSpec == StoreInit /\ [][StoreNext]_storeVars

-----------------------------------------------------------------------------
(* Properties.                                                             *)

\* At most one process is inside the store, and the lock is never left behind:
\* not by a call that raised or timed out, not by a process that died.
LockMatchesCalls ==
    \A p \in Procs : (lock = p) <=> (pc[p] \notin {"idle", "lock"})

\* An update that has returned is never lost: not by a crash or a power loss
\* inside a later commit, not by a failing commit, not by two processes that
\* update at once.  Every directory a power loss could leave still shows it.
AcknowledgedSurvive ==
    damage = 0 => \A d \in surviving : acked \subseteq Shown(d)

\* Damage between two calls that leaves the other copy readable costs at most
\* one update each time, as long as no commit has failed (a failed commit uses the backup up):
\* the backup is never more than one update behind, recovery included.
DamageCostsOneUpdate ==
    faults = 0 /\ ~wrecked => Cardinality(acked \ Shown(dir)) <= damage
=============================================================================
