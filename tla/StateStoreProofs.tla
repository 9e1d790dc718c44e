-------------------------- MODULE StateStoreProofs --------------------------
(***************************************************************************)
(* The lock and the durability of StateStore, for any set of processes and  *)
(* any number of calls, failures, kills and power losses.                   *)
(***************************************************************************)
EXTENDS StateStore, TLAPS

Steps == {"idle", "lock", "load", "recover", "migrate", "loaded", "inspect", "temp", "backup",
          "replace", "sync", "return", "raise"}
Writing == {"temp", "backup", "replace", "sync"}
FileStates == {Missing, Damaged} \cup [kind : {"file"}, version : Nat, data : SUBSET Nat]
Directories == [primary : FileStates, backup : FileStates]

StoreTypes ==
  /\ discipline \in {"update", "save"}
  /\ dir \in Directories /\ surviving \subseteq Directories
  /\ pc \in [Procs -> Steps]
  /\ call \in [Procs -> [op : {"load", "update", "save"}, id : Nat]]
  /\ read \in [Procs -> SUBSET Nat]
  /\ payload \in [Procs -> FileStates]
  /\ after \in [Procs -> {"return", "loaded", "migrate"}]
  /\ acked \subseteq Nat /\ calls \in Nat /\ damage \in Nat

\* Who calls what: save is the owner's, and only a save inspects.
Callers ==
  \A p \in Procs : /\ call[p].op \in {"load", discipline}
                   /\ call[p].op = "save" => p = Owner
                   /\ pc[p] = "inspect" => call[p].op = "save"

Clean(d) == d.primary # Damaged /\ d.backup # Damaged

\* Every directory a power loss could leave has two intact files at most, and
\* shows all that was acknowledged.
DiskKeeps ==
  /\ dir \in surviving
  /\ \A d \in surviving : Clean(d) /\ acked \subseteq Shown(d)

OwnerKeeps == discipline = "save" => acked \subseteq read[Owner]

\* What a call holds while it is under way: from the load on all that was
\* acknowledged, then a payload with it, then a primary that is the payload,
\* and finally a directory that can no longer change behind it.
CallKeeps(p) ==
  /\ pc[p] # "recover"
  /\ pc[p] \in {"migrate", "loaded"} \cup Writing => acked \subseteq read[p]
  /\ pc[p] \in Writing => Decodes(payload[p]) /\ payload[p].data = read[p]
  /\ pc[p] = "sync" => dir.primary = payload[p]
  /\ pc[p] = "return" /\ call[p].op # "load" =>
       surviving = {dir} /\ Decodes(dir.primary) /\ dir.primary.data = read[p]

StoreKeeps == DiskKeeps /\ OwnerKeeps /\ \A p \in Procs : CallKeeps(p)

StoreInv ==
  StoreTypes /\ LockMatchesCalls /\ Callers /\ (damage = 0 => StoreKeeps)

\* The three kinds of file, and what an envelope is.
LEMMA FileKinds ==
  /\ \A f \in FileStates : f # Damaged /\ Exists(f) => Decodes(f)
  /\ \A f \in FileStates : Decodes(f) => f.data \subseteq Nat /\ f.version \in Nat
                                         /\ f # Damaged /\ Exists(f)
  /\ \A v \in Nat, d \in SUBSET Nat :
       Envelope(v, d) \in FileStates /\ Decodes(Envelope(v, d)) /\ Envelope(v, d).data = d
  /\ Missing \in FileStates /\ Damaged \in FileStates /\ Missing # Damaged
  /\ ~Exists(Missing) /\ ~Decodes(Missing) /\ ~Decodes(Damaged)
BY DEF FileStates, Exists, Decodes, Missing, Damaged, Envelope

\* The owner is a process.
LEMMA OwnerIsProcess == Owner \in Procs
BY StoreAssumption DEF Owner

\* A fresh store satisfies the invariant.
LEMMA StoreStarts == StoreInit => StoreInv
<1> SUFFICES ASSUME StoreInit PROVE StoreInv
  OBVIOUS
<1>1. PICK d \in {"update", "save"}, f \in {Missing, Envelope(0, {})} : StoreStart(d, f)
  BY DEF StoreInit
<1>2. f \in FileStates /\ f # Damaged
  BY FileKinds
<1>3. StoreTypes
  BY <1>1, <1>2, FileKinds DEF StoreStart, StoreTypes, Directories, Steps, NoCall
<1>4. LockMatchesCalls
  BY <1>1, StoreAssumption DEF StoreStart, LockMatchesCalls
<1>5. Callers
  BY <1>1 DEF StoreStart, Callers, NoCall
<1>6. StoreKeeps
  BY <1>1, <1>2, FileKinds DEF StoreStart, StoreKeeps, DiskKeeps, OwnerKeeps, CallKeeps, Clean,
                               Writing
<1> QED
  BY <1>3, <1>4, <1>5, <1>6 DEF StoreInv

\* Of two processes at most one is past the lock.
LEMMA Alone ==
  ASSUME LockMatchesCalls, NEW p \in Procs, pc[p] \notin {"idle", "lock"}
  PROVE  lock = p /\ \A q \in Procs \ {p} : pc[q] \in {"idle", "lock"}
BY DEF LockMatchesCalls

\* A step of the process that holds the lock keeps the lock's discipline, and
\* the calls of all others have not begun.
LEMMA InsideLock ==
  ASSUME StoreInv, NEW p \in Procs, pc[p] \notin {"idle", "lock"},
         NEW s \in Steps \ {"idle", "lock", "inspect"}, Goto(p, s),
         lock' = lock, call' = call, discipline' = discipline
  PROVE  /\ pc' \in [Procs -> Steps] /\ pc'[p] = s
         /\ LockMatchesCalls' /\ Callers'
         /\ \A q \in Procs \ {p} : CallKeeps(q)'
<1>1. pc' \in [Procs -> Steps] /\ pc'[p] = s /\ \A q \in Procs \ {p} : pc'[q] = pc[q]
  BY DEF Goto, StoreInv, StoreTypes
<1>2. \A q \in Procs \ {p} : pc'[q] \in {"idle", "lock"}
  BY <1>1, Alone DEF StoreInv
<1>3. LockMatchesCalls'
  BY <1>1 DEF StoreInv, LockMatchesCalls
<1>4. Callers'
  BY <1>1 DEF StoreInv, Callers
<1>5. \A q \in Procs \ {p} : CallKeeps(q)'
  BY <1>2 DEF CallKeeps, Writing
<1> QED
  BY <1>1, <1>3, <1>4, <1>5

\* Without damage, what load finds is what the directory shows.
LEMMA SourceShown ==
  ASSUME StoreTypes, DiskKeeps
  PROVE  /\ Exists(Source) => Decodes(Source) /\ Source \in FileStates /\ Source.data = Shown(dir)
         /\ ~Exists(Source) => Shown(dir) = {}
         /\ acked \subseteq Shown(dir) /\ Clean(dir)
<1>1. Clean(dir) /\ acked \subseteq Shown(dir)
  BY DEF DiskKeeps
<1>2. dir.primary \in FileStates /\ dir.backup \in FileStates
  BY DEF StoreTypes, Directories
<1>3. Exists(Source) => Decodes(Source) /\ Source \in FileStates /\ Source.data = Shown(dir)
  BY <1>1, <1>2, FileKinds DEF Source, Shown, Clean
<1>4. ~Exists(Source) => Shown(dir) = {}
  BY <1>1, <1>2, FileKinds DEF Source, Shown, Clean
<1> QED
  BY <1>1, <1>3, <1>4

\* Without damage, loading takes all that was acknowledged.
LEMMA LoadKeeps ==
  ASSUME StoreInv, NEW p \in Procs, Load(p)
  PROVE  StoreInv'
<1>1. PICK s \in {"migrate", "loaded", "recover"} : Goto(p, s)
  BY DEF Load, LoadDefault, Loaded
<1>2. pc[p] = "load"
  BY DEF Load
<1>3. s \in Steps \ {"idle", "lock", "inspect"}
  BY DEF Steps
<1>4. /\ pc' \in [Procs -> Steps] /\ pc'[p] = s
      /\ LockMatchesCalls' /\ Callers' /\ \A q \in Procs \ {p} : CallKeeps(q)'
  BY <1>1, <1>2, <1>3, InsideLock DEF Load
<1>5. dir.primary \in FileStates /\ dir.backup \in FileStates /\ Source \in FileStates
  BY DEF StoreInv, StoreTypes, Directories, Source
<1>6. StoreTypes'
  <2>1. read' \in [Procs -> SUBSET Nat]
    BY <1>5, FileKinds DEF Load, LoadDefault, Loaded, StoreInv, StoreTypes
  <2>2. payload' \in [Procs -> FileStates] /\ after' \in [Procs -> {"return", "loaded", "migrate"}]
    <3>1. Decodes(Source) => Envelope(Version, Source.data) \in FileStates
      BY <1>5, FileKinds, StoreAssumption
    <3>2. CASE UNCHANGED <<payload, after>>
      BY <3>2 DEF StoreInv, StoreTypes
    <3>3. CASE Decodes(Source) /\ Loaded(p, Source) /\ NeedsMigration(Source)
      BY <3>1, <3>3 DEF Loaded, StoreInv, StoreTypes
    <3> QED
      BY <3>2, <3>3 DEF Load, LoadDefault, Loaded
  <2>3. dir' \in Directories /\ surviving' \subseteq Directories
    BY <1>5, FileKinds DEF Load, LoadDefault, SyncRename, StoreInv, StoreTypes, Directories
  <2> QED
    BY <1>4, <2>1, <2>2, <2>3 DEF Load, StoreInv, StoreTypes
<1>7. ASSUME damage' = 0 PROVE StoreKeeps'
  <2>1. damage = 0 /\ StoreKeeps /\ acked' = acked /\ discipline' = discipline
    BY <1>7 DEF Load, StoreInv
  <2>2. Exists(Source) => Decodes(Source) /\ Source.data = Shown(dir)
    BY <2>1, SourceShown DEF StoreKeeps, StoreInv
  <2>3. ~Exists(Source) => Shown(dir) = {}
    BY <2>1, SourceShown DEF StoreKeeps, StoreInv
  <2>4. s # "recover" /\ UNCHANGED <<dir, surviving>> /\ read' = [read EXCEPT ![p] = Shown(dir)]
    <3>1. CASE ~Exists(Source)
      BY <1>2, <1>4, <2>3, <3>1, FileKinds, <1>5 DEF Load, LoadDefault, Loaded, Goto, StoreInv, StoreTypes, Exists, Decodes
    <3>2. CASE Exists(Source)
      BY <1>2, <1>4, <2>2, <3>2 DEF Load, LoadDefault, Loaded, Goto, StoreInv, StoreTypes
    <3> QED
      BY <3>1, <3>2
  <2>5. acked \subseteq read'[p] /\ \A q \in Procs \ {p} : read'[q] = read[q]
    BY <2>1, <2>4, SourceShown DEF StoreInv, StoreTypes, StoreKeeps
  <2>6. DiskKeeps'
    BY <2>1, <2>4 DEF StoreKeeps, DiskKeeps, Clean, Shown
  <2>7. OwnerKeeps'
    BY <2>1, <2>5, OwnerIsProcess DEF StoreKeeps, OwnerKeeps
  <2>8. CallKeeps(p)'
    BY <1>1, <1>4, <2>1, <2>4, <2>5 DEF CallKeeps, Writing
  <2> QED
    BY <1>4, <2>6, <2>7, <2>8 DEF StoreKeeps
<1> QED
  BY <1>4, <1>6, <1>7 DEF StoreInv

\* Recovery, which only damage leads to, keeps the rest of the invariant.
LEMMA RecoverKeeps ==
  ASSUME StoreInv, NEW p \in Procs, Recover(p)
  PROVE  StoreInv'
<1>1. PICK s \in {"loaded", "temp", "raise"} : Goto(p, s)
  BY DEF Recover, LoadDefault
<1>2. s \in Steps \ {"idle", "lock", "inspect"} /\ pc[p] = "recover"
  BY DEF Steps, Recover
<1>3. pc' \in [Procs -> Steps] /\ LockMatchesCalls' /\ Callers'
  BY <1>1, <1>2, InsideLock DEF Recover
<1>4. StoreTypes'
  <2>1. dir.backup \in FileStates
    BY DEF StoreInv, StoreTypes, Directories
  <2>2. read' \in [Procs -> SUBSET Nat]
    BY <2>1, FileKinds DEF Recover, LoadDefault, StoreInv, StoreTypes
  <2>3. payload' \in [Procs -> FileStates] /\ after' \in [Procs -> {"return", "loaded", "migrate"}]
    BY <2>1 DEF Recover, LoadDefault, StoreInv, StoreTypes
  <2>4. dir' \in Directories /\ surviving' \subseteq Directories
    BY <2>1, FileKinds DEF Recover, LoadDefault, SyncRename, StoreInv, StoreTypes, Directories
  <2> QED
    BY <1>3, <2>2, <2>3, <2>4 DEF Recover, StoreInv, StoreTypes
<1>5. damage' # 0
  BY <1>2 DEF Recover, StoreInv, StoreKeeps, CallKeeps
<1> QED
  BY <1>3, <1>4, <1>5 DEF StoreInv

\* A step that writes no file and takes nothing out of the call's copy.
LEMMA QuietKeeps ==
  ASSUME StoreInv, NEW p \in Procs, NEW s \in Steps \ {"idle", "lock", "inspect", "recover", "sync"},
         pc[p] \notin {"idle", "lock"}, Goto(p, s),
         UNCHANGED <<discipline, dir, surviving, lock, call, acked, calls, damage>>,
         read' \in [Procs -> SUBSET Nat], \A q \in Procs : read[q] \subseteq read'[q],
         payload' \in [Procs -> FileStates],
         after' \in [Procs -> {"return", "loaded", "migrate"}],
         damage = 0 /\ s # "raise" => acked \subseteq read[p],
         damage = 0 /\ s \in Writing => Decodes(payload'[p]) /\ payload'[p].data = read'[p],
         s = "return" => call[p].op = "load"
  PROVE  StoreInv'
<1>1. /\ pc' \in [Procs -> Steps] /\ pc'[p] = s
      /\ LockMatchesCalls' /\ Callers' /\ \A q \in Procs \ {p} : CallKeeps(q)'
  BY InsideLock
<1>2. StoreTypes'
  BY <1>1 DEF StoreInv, StoreTypes
<1>3. ASSUME damage' = 0 PROVE StoreKeeps'
  <2>1. StoreKeeps /\ damage = 0
    BY <1>3 DEF StoreInv
  <2>2. DiskKeeps'
    BY <2>1 DEF StoreKeeps, DiskKeeps, Clean, Shown
  <2>3. OwnerKeeps'
    BY <2>1, OwnerIsProcess DEF StoreKeeps, OwnerKeeps
  <2>4. CallKeeps(p)'
    BY <1>1, <2>1 DEF CallKeeps, Writing
  <2> QED
    BY <1>1, <2>2, <2>3, <2>4 DEF StoreKeeps
<1> QED
  BY <1>1, <1>2, <1>3 DEF StoreInv

\* Migrating, transforming and creating the temporary file.
LEMMA PrepareKeeps ==
  ASSUME StoreInv, NEW p \in Procs, Migrate(p) \/ Transform(p) \/ WriteTemp(p)
  PROVE  StoreInv'
<1>1. read \in [Procs -> SUBSET Nat] /\ payload \in [Procs -> FileStates]
      /\ after \in [Procs -> {"return", "loaded", "migrate"}]
  BY DEF StoreInv, StoreTypes
<1> DEFINE Took == damage = 0 => acked \subseteq read[p]
<1>0. pc[p] \in {"migrate", "loaded"} \cup Writing /\ Took
  BY DEF Migrate, Transform, WriteTemp, StoreInv, StoreKeeps, CallKeeps, Writing
<1>2. CASE Migrate(p)
  <2>1. CASE Goto(p, "raise") /\ UNCHANGED <<payload, after>>
    BY <1>0, <1>1, <1>2, <2>1, QuietKeeps DEF Migrate, Steps, Writing
  <2>2. CASE /\ payload' = [payload EXCEPT ![p] = Envelope(Version, read[p])]
             /\ after' = [after EXCEPT ![p] = "loaded"] /\ Goto(p, "temp")
    <3>1. payload' \in [Procs -> FileStates] /\ Decodes(payload'[p])
          /\ payload'[p].data = read[p]
      BY <1>1, <2>2, FileKinds, StoreAssumption
    <3>2. after' \in [Procs -> {"return", "loaded", "migrate"}]
      BY <1>1, <2>2
    <3> QED
      BY <1>0, <1>1, <1>2, <2>2, <3>1, <3>2, QuietKeeps DEF Migrate, Steps, Writing
  <2> QED
    BY <1>2, <2>1, <2>2 DEF Migrate
<1>3. CASE Transform(p)
  <2>1. CASE Goto(p, "raise") /\ UNCHANGED <<read, payload, after>>
    BY <1>0, <1>1, <1>3, <2>1, QuietKeeps DEF Transform, Steps, Writing
  <2>2. CASE call[p].op = "load" /\ Goto(p, "return") /\ UNCHANGED <<read, payload, after>>
    BY <1>0, <1>1, <1>3, <2>2, QuietKeeps DEF Transform, Steps, Writing
  <2>3. CASE /\ read' = [read EXCEPT ![p] = @ \cup {call[p].id}]
             /\ payload' = [payload EXCEPT ![p] = Envelope(Version, read'[p])]
             /\ after' = [after EXCEPT ![p] = "return"] /\ Goto(p, "temp")
    <3>1. read' \in [Procs -> SUBSET Nat] /\ \A q \in Procs : read[q] \subseteq read'[q]
      BY <2>3 DEF StoreInv, StoreTypes
    <3>2. payload' \in [Procs -> FileStates] /\ Decodes(payload'[p])
          /\ payload'[p].data = read'[p]
      BY <1>1, <2>3, <3>1, FileKinds, StoreAssumption
    <3>3. after' \in [Procs -> {"return", "loaded", "migrate"}]
      BY <1>1, <2>3
    <3>4. /\ pc[p] = "loaded" /\ Goto(p, "temp")
          /\ UNCHANGED <<discipline, dir, surviving, lock, call, acked, calls, damage>>
      BY <1>3, <2>3 DEF Transform
    <3>5. "temp" \in Steps \ {"idle", "lock", "inspect", "recover", "sync"} /\ "temp" \in Writing
      BY DEF Steps, Writing
    <3> QED
      BY <1>0, <3>1, <3>2, <3>3, <3>4, <3>5, QuietKeeps
  <2> QED
    BY <1>3, <2>1, <2>2, <2>3 DEF Transform
<1>4. CASE WriteTemp(p)
  <2>1. pc[p] = "temp" /\ Goto(p, "backup")
    BY <1>4 DEF WriteTemp
  <2>2. damage = 0 => Decodes(payload[p]) /\ payload[p].data = read[p]
    BY <2>1 DEF StoreInv, StoreKeeps, CallKeeps, Writing
  <2> QED
    BY <1>0, <1>1, <1>4, <2>1, <2>2, QuietKeeps DEF WriteTemp, Steps, Writing
<1> QED
  BY <1>2, <1>3, <1>4

\* A step of a call that changes the directory without losing anything: the
\* new directory shows all that was acknowledged, and what a power loss may
\* leave is the new directory and at most what it was before.
LEMMA RenameKeeps ==
  ASSUME StoreInv, NEW p \in Procs, NEW s \in {"temp", "replace", "sync", "raise"},
         pc[p] \in Writing, Goto(p, s),
         UNCHANGED <<discipline, lock, call, after, acked, calls, damage, read, payload>>,
         NEW d \in Directories, dir' = d,
         surviving' \subseteq surviving \cup {d}, d \in surviving',
         damage = 0 => Clean(d) /\ acked \subseteq Shown(d),
         s = "sync" => d.primary = payload[p]
  PROVE  StoreInv'
<1>1. s \in Steps \ {"idle", "lock", "inspect"} /\ pc[p] \notin {"idle", "lock"}
  BY DEF Steps, Writing
<1>2. /\ pc' \in [Procs -> Steps] /\ pc'[p] = s
      /\ LockMatchesCalls' /\ Callers' /\ \A q \in Procs \ {p} : CallKeeps(q)'
  BY <1>1, InsideLock
<1>3. StoreTypes'
  BY <1>2 DEF StoreInv, StoreTypes
<1>4. ASSUME damage' = 0 PROVE StoreKeeps'
  <2>1. StoreKeeps /\ damage = 0
    BY <1>4 DEF StoreInv
  <2>2. DiskKeeps'
    BY <2>1 DEF StoreKeeps, DiskKeeps, Clean, Shown
  <2>3. OwnerKeeps'
    BY <2>1 DEF StoreKeeps, OwnerKeeps
  <2>4. CallKeeps(p)'
    BY <1>2, <2>1 DEF StoreKeeps, CallKeeps, Writing
  <2> QED
    BY <1>2, <2>2, <2>3, <2>4 DEF StoreKeeps
<1> QED
  BY <1>2, <1>3, <1>4 DEF StoreInv

\* The renames of atomic_write_bytes, and its failure.
LEMMA CommitKeeps ==
  ASSUME StoreInv, NEW p \in Procs, KeepBackup(p) \/ Replace(p) \/ CommitFails(p)
  PROVE  StoreInv'
<1>1. /\ dir \in Directories /\ dir.primary \in FileStates /\ dir.backup \in FileStates
      /\ payload[p] \in FileStates
  BY DEF StoreInv, StoreTypes, Directories
<1>2. damage = 0 => dir \in surviving /\ Clean(dir) /\ acked \subseteq Shown(dir)
  BY DEF StoreInv, StoreKeeps, DiskKeeps
<1>3. pc[p] \in Writing
  BY DEF KeepBackup, Replace, CommitFails, Writing
<1>4. ASSUME dir' = dir, surviving' = surviving,
             NEW s \in {"replace", "raise"}, Goto(p, s),
             UNCHANGED <<discipline, lock, call, after, acked, calls, damage, read, payload>>
      PROVE  StoreInv'
  <2>1. CASE damage = 0
    BY <1>1, <1>2, <1>3, <1>4, <2>1, RenameKeeps
  <2>2. CASE damage # 0
    <3>1. pc' \in [Procs -> Steps] /\ LockMatchesCalls' /\ Callers'
      BY <1>3, <1>4, InsideLock DEF Steps, Writing
    <3> QED
      BY <1>4, <2>2, <3>1 DEF StoreInv, StoreTypes
  <2> QED
    BY <2>1, <2>2
<1>5. CASE KeepBackup(p)
  <2>1. CASE ~Exists(dir.primary)
    BY <1>4, <1>5, <2>1 DEF KeepBackup
  <2>2. CASE Exists(dir.primary)
    <3> DEFINE d == [primary |-> Missing, backup |-> dir.primary]
    <3>1. d \in Directories /\ d.primary = Missing /\ d.backup = dir.primary
      BY <1>1, FileKinds DEF Directories
    <3>2. damage = 0 => Clean(d) /\ acked \subseteq Shown(d)
      BY <1>1, <1>2, <2>2, <3>1, FileKinds DEF Clean, Shown
    <3>3. dir' = d /\ surviving' = surviving \cup {d}
      BY <1>5, <2>2 DEF KeepBackup, Rename
    <3> HIDE DEF d
    <3> QED
      BY <1>3, <1>5, <3>1, <3>2, <3>3, RenameKeeps DEF KeepBackup
  <2> QED
    BY <2>1, <2>2
<1>6. CASE Replace(p)
  <2> DEFINE d == [dir EXCEPT !.primary = payload[p]]
  <2>1. d \in Directories /\ d.primary = payload[p] /\ d.backup = dir.backup
    BY <1>1 DEF Directories
  <2>2. damage = 0 => Decodes(payload[p]) /\ acked \subseteq payload[p].data
    BY <1>3 DEF StoreInv, StoreKeeps, CallKeeps
  <2>3. damage = 0 => Clean(d) /\ acked \subseteq Shown(d)
    BY <1>1, <1>2, <2>1, <2>2, FileKinds DEF Clean, Shown
  <2>4. dir' = d /\ surviving' = surviving \cup {d}
    BY <1>6 DEF Replace, Rename
  <2> HIDE DEF d
  <2> QED
    BY <1>3, <1>6, <2>1, <2>3, <2>4, RenameKeeps DEF Replace
<1>7. CASE CommitFails(p)
  <2>1. CASE UNCHANGED <<dir, surviving>>
    BY <1>4, <1>7, <2>1 DEF CommitFails
  <2>2. CASE /\ ~Exists(dir.primary) /\ Exists(dir.backup)
             /\ SyncRename([primary |-> dir.backup, backup |-> Missing])
    <3> DEFINE d == [primary |-> dir.backup, backup |-> Missing]
    <3>1. d \in Directories /\ d.primary = dir.backup /\ d.backup = Missing
      BY <1>1, FileKinds DEF Directories
    <3>2. damage = 0 => Clean(d) /\ acked \subseteq Shown(d)
      BY <1>1, <1>2, <2>2, <3>1, FileKinds DEF Clean, Shown
    <3>3. dir' = d /\ surviving' = {d}
      BY <2>2 DEF SyncRename
    <3> HIDE DEF d
    <3> QED
      BY <1>3, <1>7, <3>1, <3>2, <3>3, RenameKeeps DEF CommitFails
  <2> QED
    BY <1>7, <2>1, <2>2 DEF CommitFails
<1> QED
  BY <1>5, <1>6, <1>7

\* save takes its owner's copy, which holds all that was acknowledged.
LEMMA InspectKeeps ==
  ASSUME StoreInv, NEW p \in Procs, Inspect(p)
  PROVE  StoreInv'
<1>1. read' \in [Procs -> SUBSET Nat] /\ \A q \in Procs : read[q] \subseteq read'[q]
  BY DEF Inspect, StoreInv, StoreTypes
<1>2. payload' \in [Procs -> FileStates] /\ Decodes(payload'[p]) /\ payload'[p].data = read'[p]
  <2>1. payload' = [payload EXCEPT ![p] = Envelope(Version, read'[p])]
    BY DEF Inspect
  <2>2. payload \in [Procs -> FileStates]
    BY DEF StoreInv, StoreTypes
  <2> QED
    BY <1>1, <2>1, <2>2, FileKinds, StoreAssumption
<1>3. after' \in [Procs -> {"return", "loaded", "migrate"}]
  BY DEF Inspect, StoreInv, StoreTypes
<1>4. /\ pc[p] = "inspect" /\ Goto(p, "temp") /\ call[p].op = "save"
      /\ UNCHANGED <<discipline, lock, call, acked, calls, damage>>
  BY DEF Inspect, StoreInv, Callers
<1>5. "temp" \in Steps \ {"idle", "lock", "inspect", "recover", "sync"} /\ "temp" \in Writing
  BY DEF Steps, Writing
<1>6. dir.primary \in FileStates /\ dir \in Directories
  BY DEF StoreInv, StoreTypes, Directories
<1>7. CASE damage = 0
  <2>1. dir.primary # Damaged
    BY <1>7 DEF StoreInv, StoreKeeps, DiskKeeps, Clean
  <2>2. UNCHANGED <<dir, surviving>>
    BY <1>6, <2>1, FileKinds DEF Inspect
  <2>3. UNCHANGED <<discipline, dir, surviving, lock, call, acked, calls, damage>>
    BY <1>4, <2>2
  <2>4. pc[p] \notin {"idle", "lock"} /\ Goto(p, "temp")
    BY <1>4
  <2>5. acked \subseteq read[p]
    BY <1>4, <1>7 DEF StoreInv, Callers, StoreKeeps, OwnerKeeps
  <2> QED
    BY <1>1, <1>2, <1>3, <1>5, <2>3, <2>4, <2>5, QuietKeeps
<1>8. CASE damage # 0
  <2>1. pc' \in [Procs -> Steps] /\ LockMatchesCalls' /\ Callers'
    BY <1>4, <1>5, InsideLock
  <2>2. dir' \in Directories /\ surviving' \subseteq Directories
    <3>1. [dir EXCEPT !.primary = Missing] \in Directories
      BY <1>6, FileKinds DEF Directories
    <3>2. surviving \subseteq Directories
      BY DEF StoreInv, StoreTypes
    <3> QED
      BY <1>6, <3>1, <3>2 DEF Inspect, SyncRename
  <2> QED
    BY <1>1, <1>2, <1>3, <1>4, <1>8, <2>1, <2>2 DEF StoreInv, StoreTypes
<1> QED
  BY <1>7, <1>8

\* fsync of the directory: the new primary is all that a power loss leaves.
LEMMA SyncKeeps ==
  ASSUME StoreInv, NEW p \in Procs, FsyncDirectory(p)
  PROVE  StoreInv'
<1>1. PICK s \in {"return", "loaded", "migrate"} : s = after[p] /\ Goto(p, s)
  BY DEF FsyncDirectory, StoreInv, StoreTypes
<1>2. s \in Steps \ {"idle", "lock", "inspect"} /\ pc[p] = "sync"
  BY DEF FsyncDirectory, Steps
<1>3. /\ pc' \in [Procs -> Steps] /\ pc'[p] = s
      /\ LockMatchesCalls' /\ Callers' /\ \A q \in Procs \ {p} : CallKeeps(q)'
  BY <1>1, <1>2, InsideLock DEF FsyncDirectory
<1>4. StoreTypes'
  BY <1>3 DEF FsyncDirectory, StoreInv, StoreTypes
<1>5. ASSUME damage' = 0 PROVE StoreKeeps'
  <2>1. StoreKeeps /\ damage = 0
    BY <1>5 DEF FsyncDirectory, StoreInv
  <2>2. DiskKeeps' /\ OwnerKeeps'
    BY <2>1 DEF FsyncDirectory, StoreKeeps, DiskKeeps, OwnerKeeps, Clean, Shown
  <2>3. CallKeeps(p)'
    BY <1>2, <1>3, <2>1 DEF FsyncDirectory, StoreKeeps, CallKeeps, Writing
  <2> QED
    BY <1>3, <2>2, <2>3 DEF StoreKeeps
<1> QED
  BY <1>3, <1>4, <1>5 DEF StoreInv

\* A call begins, and gets the lock.
LEMMA EnterKeeps ==
  ASSUME StoreInv, NEW p \in Procs,
         Acquire(p) \/ \E c \in {"load", "update", "save"} : Call(p, c)
  PROVE  StoreInv'
<1>1. ASSUME NEW c \in {"load", "update", "save"}, Call(p, c) PROVE StoreInv'
  <2>1. /\ pc' \in [Procs -> Steps] /\ pc'[p] = "lock" /\ pc[p] = "idle"
        /\ \A q \in Procs \ {p} : pc'[q] = pc[q]
    BY <1>1 DEF Call, Goto, StoreInv, StoreTypes, Steps
  <2>2. /\ call' \in [Procs -> [op : {"load", "update", "save"}, id : Nat]]
        /\ call'[p].op = c /\ \A q \in Procs \ {p} : call'[q] = call[q]
    BY <1>1 DEF Call, StoreInv, StoreTypes
  <2>3. StoreTypes'
    BY <1>1, <2>1, <2>2 DEF Call, StoreInv, StoreTypes
  <2>4. LockMatchesCalls'
    BY <1>1, <2>1 DEF Call, StoreInv, LockMatchesCalls
  <2>5. Callers'
    BY <1>1, <2>1, <2>2 DEF Call, StoreInv, Callers
  <2>6. ASSUME damage' = 0 PROVE StoreKeeps'
    <3>1. StoreKeeps
      BY <1>1, <2>6 DEF Call, StoreInv
    <3>2. DiskKeeps' /\ OwnerKeeps'
      BY <1>1, <3>1 DEF Call, StoreKeeps, DiskKeeps, OwnerKeeps, Clean, Shown
    <3>3. \A q \in Procs : CallKeeps(q)'
      BY <1>1, <2>1, <2>2, <3>1 DEF Call, StoreKeeps, CallKeeps, Writing
    <3> QED
      BY <3>2, <3>3 DEF StoreKeeps
  <2> QED
    BY <2>3, <2>4, <2>5, <2>6 DEF StoreInv
<1>2. CASE Acquire(p)
  <2>1. PICK s \in {"inspect", "load"} : Goto(p, s) /\ (s = "inspect" => call[p].op = "save")
    BY <1>2 DEF Acquire
  <2>2. /\ pc' \in [Procs -> Steps] /\ pc'[p] = s /\ \A q \in Procs \ {p} : pc'[q] = pc[q]
    BY <2>1 DEF Goto, StoreInv, StoreTypes, Steps
  <2>3. \A q \in Procs : pc[q] \in {"idle", "lock"}
    BY <1>2, StoreAssumption DEF Acquire, StoreInv, LockMatchesCalls
  <2>4. StoreTypes' /\ Callers'
    BY <1>2, <2>1, <2>2 DEF Acquire, StoreInv, StoreTypes, Callers
  <2>5. LockMatchesCalls'
    BY <1>2, <2>2, <2>3 DEF Acquire, LockMatchesCalls
  <2>6. ASSUME damage' = 0 PROVE StoreKeeps'
    <3>1. StoreKeeps
      BY <1>2, <2>6 DEF Acquire, StoreInv
    <3>2. DiskKeeps' /\ OwnerKeeps'
      BY <1>2, <3>1 DEF Acquire, StoreKeeps, DiskKeeps, OwnerKeeps, Clean, Shown
    <3>3. \A q \in Procs : CallKeeps(q)'
      BY <2>2, <2>3 DEF CallKeeps, Writing
    <3> QED
      BY <3>2, <3>3 DEF StoreKeeps
  <2> QED
    BY <2>4, <2>5, <2>6 DEF StoreInv
<1> QED
  BY <1>1, <1>2

\* A call ends: it lets go of the lock if it holds it, and what it newly
\* acknowledges is what every surviving directory and the owner's copy hold.
LEMMA LeaveKeeps ==
  ASSUME StoreInv, NEW p \in Procs, Leave(p),
         lock' = IF lock = p THEN Free ELSE lock,
         UNCHANGED <<dir, surviving>>,
         read' \in [Procs -> SUBSET Nat], \A q \in Procs \ {p} : read'[q] = read[q],
         acked' \in SUBSET Nat, acked' = acked \/ lock = p,
         damage = 0 => \A d \in surviving : acked' \subseteq Shown(d),
         damage = 0 /\ discipline = "save" => acked' \subseteq read'[Owner]
  PROVE  StoreInv'
<1>1. /\ pc' \in [Procs -> Steps] /\ pc'[p] = "idle"
      /\ \A q \in Procs \ {p} : pc'[q] = pc[q] /\ payload'[q] = payload[q] /\ call'[q] = call[q]
      /\ call'[p].op = "load"
  BY DEF Leave, Goto, NoCall, StoreInv, StoreTypes, Steps
<1>2. StoreTypes'
  BY <1>1, FileKinds DEF Leave, NoCall, StoreInv, StoreTypes
<1>3. LockMatchesCalls'
  BY <1>1, StoreAssumption DEF StoreInv, LockMatchesCalls
<1>4. Callers'
  BY <1>1 DEF Leave, StoreInv, Callers
<1>5. ASSUME damage' = 0 PROVE StoreKeeps'
  <2>1. StoreKeeps /\ damage = 0 /\ discipline' = discipline
    BY <1>5 DEF Leave, StoreInv
  <2>2. DiskKeeps' /\ OwnerKeeps'
    BY <2>1 DEF StoreKeeps, DiskKeeps, OwnerKeeps, Clean, Shown
  <2>3. ASSUME NEW q \in Procs PROVE CallKeeps(q)'
    <3>1. CASE q = p
      BY <1>1, <3>1 DEF CallKeeps, Writing
    <3>2. CASE q # p /\ acked' = acked
      BY <1>1, <2>1, <3>2 DEF StoreKeeps, CallKeeps, Writing
    <3>3. CASE q # p /\ lock = p
      BY <1>1, <3>3 DEF StoreInv, LockMatchesCalls, CallKeeps, Writing
    <3> QED
      BY <3>1, <3>2, <3>3
  <2> QED
    BY <2>2, <2>3 DEF StoreKeeps
<1> QED
  BY <1>2, <1>3, <1>4, <1>5 DEF StoreInv

\* Returning, raising, giving up on the lock, and dying.
LEMMA EndKeeps ==
  ASSUME StoreInv, NEW p \in Procs, Return(p) \/ Raise(p) \/ LockTimeout(p) \/ Kill(p)
  PROVE  StoreInv'
<1>1. /\ read \in [Procs -> SUBSET Nat] /\ acked \in SUBSET Nat /\ Owner \in Procs
      /\ discipline \in {"update", "save"}
  BY OwnerIsProcess DEF StoreInv, StoreTypes
<1>2. damage = 0 => \A d \in surviving : acked \subseteq Shown(d)
  BY DEF StoreInv, StoreKeeps, DiskKeeps
<1>3. damage = 0 /\ discipline = "save" => acked \subseteq read[Owner]
  BY DEF StoreInv, StoreKeeps, OwnerKeeps
<1>4. /\ Forget(p) \in [Procs -> SUBSET Nat] /\ \A q \in Procs \ {p} : Forget(p)[q] = read[q]
      /\ discipline = "save" => Forget(p)[Owner] = read[Owner]
  BY <1>1 DEF Forget
<1>5. CASE Return(p)
  <2>1. lock = p /\ lock' = Free
    BY <1>5 DEF Return, StoreInv, LockMatchesCalls
  <2>2. acked' \in SUBSET Nat
    BY <1>1, <1>5 DEF Return
  <2>3. damage = 0 => \A d \in surviving : acked' \subseteq Shown(d)
    <3>1. ASSUME damage = 0, call[p].op # "load" PROVE surviving = {dir} /\ read[p] = Shown(dir)
      BY <1>5, <3>1 DEF Return, StoreInv, StoreKeeps, CallKeeps, Shown
    <3> QED
      BY <1>2, <1>5, <3>1 DEF Return
  <2>4. damage = 0 /\ discipline = "save" => acked' \subseteq read'[Owner]
    <3>1. discipline = "save" /\ call[p].op # "load" => p = Owner
      BY DEF StoreInv, Callers
    <3>2. read' = Forget(p)
      BY <1>5 DEF Return
    <3>3. acked' = IF call[p].op = "load" THEN acked ELSE acked \cup read[p]
      BY <1>5 DEF Return
    <3> QED
      BY <1>3, <1>4, <3>1, <3>2, <3>3
  <2> QED
    BY <1>4, <1>5, <2>1, <2>2, <2>3, <2>4, LeaveKeeps DEF Return
<1>6. CASE Raise(p)
  <2>1. lock = p /\ lock' = Free
    BY <1>6 DEF Raise, StoreInv, LockMatchesCalls
  <2> QED
    BY <1>1, <1>2, <1>3, <1>4, <1>6, <2>1, LeaveKeeps DEF Raise
<1>7. CASE LockTimeout(p)
  <2>1. lock # p
    BY <1>7 DEF LockTimeout, StoreInv, LockMatchesCalls
  <2> QED
    BY <1>1, <1>2, <1>3, <1>7, <2>1, LeaveKeeps DEF LockTimeout
<1>8. CASE Kill(p)
  <2>1. Shown(dir) \in SUBSET Nat
    BY FileKinds DEF StoreInv, StoreTypes, Directories, Shown
  <2>2. read' = [read EXCEPT ![p] = Reborn(p)] /\ dir' = dir
    BY <1>8 DEF Kill
  <2>3. Reborn(p) = IF discipline = "save" /\ p = Owner THEN Shown(dir) ELSE {}
    BY <2>2 DEF Reborn, Shown
  <2>4. read' \in [Procs -> SUBSET Nat] /\ \A q \in Procs \ {p} : read'[q] = read[q]
    BY <1>1, <2>1, <2>2, <2>3
  <2>5. damage = 0 /\ discipline = "save" => acked \subseteq read'[Owner]
    <3>1. damage = 0 => acked \subseteq Shown(dir)
      BY DEF StoreInv, StoreKeeps, DiskKeeps
    <3> QED
      BY <1>1, <1>3, <2>2, <2>3, <3>1
  <2> QED
    BY <1>1, <1>2, <1>8, <2>4, <2>5, LeaveKeeps DEF Kill
<1> QED
  BY <1>5, <1>6, <1>7, <1>8

\* A power loss leaves one of the surviving directories; damage is counted.
LEMMA DisasterKeeps ==
  ASSUME StoreInv, (PowerLoss /\ UNCHANGED wrecked) \/ Damage
  PROVE  StoreInv'
<1>1. CASE Damage
  <2>1. damage' \in Nat /\ damage' # 0
    BY <1>1 DEF Damage, StoreInv, StoreTypes
  <2>2. dir' \in Directories /\ surviving' \subseteq Directories
    BY <1>1, FileKinds DEF Damage, SyncRename, StoreInv, StoreTypes, Directories
  <2>3. StoreTypes'
    BY <1>1, <2>1, <2>2 DEF Damage, StoreInv, StoreTypes
  <2>4. LockMatchesCalls' /\ Callers'
    BY <1>1 DEF Damage, StoreInv, LockMatchesCalls, Callers
  <2> QED
    BY <2>1, <2>3, <2>4 DEF StoreInv
<1>2. CASE PowerLoss
  <2>1. dir' \in surviving /\ surviving' = {dir'}
    BY <1>2 DEF PowerLoss
  <2>2. dir' \in Directories
    BY <2>1 DEF StoreInv, StoreTypes
  <2>3. Shown(dir') \in SUBSET Nat
    BY <2>2, FileKinds DEF Directories, Shown
  <2>4. /\ read' \in [Procs -> SUBSET Nat]
        /\ discipline = "save" => read'[Owner] = Shown(dir')
    BY <1>2, <2>3, OwnerIsProcess DEF PowerLoss, Reborn
  <2>5. StoreTypes'
    BY <1>2, <2>1, <2>2, <2>4, FileKinds DEF PowerLoss, StoreInv, StoreTypes, Steps, NoCall
  <2>6. LockMatchesCalls' /\ Callers'
    BY <1>2, StoreAssumption DEF PowerLoss, StoreInv, LockMatchesCalls, Callers, NoCall
  <2>7. ASSUME damage' = 0 PROVE StoreKeeps'
    <3>1. StoreKeeps /\ acked' = acked /\ discipline' = discipline
      BY <1>2, <2>7 DEF PowerLoss, StoreInv
    <3>2. Clean(dir') /\ acked \subseteq Shown(dir')
      BY <2>1, <3>1 DEF StoreKeeps, DiskKeeps
    <3>3. DiskKeeps'
      BY <2>1, <3>1, <3>2 DEF DiskKeeps, Clean, Shown
    <3>4. OwnerKeeps'
      BY <2>4, <3>1, <3>2 DEF OwnerKeeps
    <3>5. \A q \in Procs : CallKeeps(q)'
      BY <1>2 DEF PowerLoss, CallKeeps, Writing
    <3> QED
      BY <3>3, <3>4, <3>5 DEF StoreKeeps
  <2> QED
    BY <2>5, <2>6, <2>7 DEF StoreInv
<1> QED
  BY <1>1, <1>2

\* Every step of the processes and of the environment keeps the invariant.
LEMMA StoreSteps == StoreInv /\ [StoreNext]_storeVars => StoreInv'
<1> SUFFICES ASSUME StoreInv, [StoreNext]_storeVars PROVE StoreInv'
  OBVIOUS
<1>1. ASSUME NEW p \in Procs, StoreStep(p) \/ CommitFails(p) \/ Kill(p) PROVE StoreInv'
  BY <1>1, LoadKeeps, RecoverKeeps, PrepareKeeps, CommitKeeps, InspectKeeps, SyncKeeps,
     EnterKeeps, EndKeeps DEF StoreStep
<1>2. ASSUME NEW p \in Procs, NEW c \in {"load", "update", "save"}, Call(p, c) PROVE StoreInv'
  BY <1>2, EnterKeeps
<1>3. CASE (PowerLoss /\ UNCHANGED wrecked) \/ Damage
  BY <1>3, DisasterKeeps
<1>4. CASE UNCHANGED storeVars
  BY <1>4 DEF storeVars, StoreInv, StoreTypes, LockMatchesCalls, Callers, StoreKeeps, DiskKeeps,
              OwnerKeeps, CallKeeps, Clean, Shown
<1> QED
  BY <1>1, <1>2, <1>3, <1>4 DEF StoreNext

\* At most one process is inside the store, and no exception, timeout or death
\* leaves the lock held.
THEOREM LockIsHeldByCalls == StoreSpec => []LockMatchesCalls
<1>1. StoreInv => LockMatchesCalls
  BY DEF StoreInv
<1> QED
  BY StoreStarts, StoreSteps, <1>1, PTL DEF StoreSpec

\* An update whose call has returned survives every crash, power loss, failed
\* commit and concurrent update, as long as no file is damaged from outside.
THEOREM AcknowledgedUpdatesSurvive == StoreSpec => []AcknowledgedSurvive
<1>1. StoreInv => AcknowledgedSurvive
  BY DEF StoreInv, StoreKeeps, DiskKeeps, AcknowledgedSurvive
<1> QED
  BY StoreStarts, StoreSteps, <1>1, PTL DEF StoreSpec
=============================================================================
