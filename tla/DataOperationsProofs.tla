------------------------ MODULE DataOperationsProofs ------------------------
(***************************************************************************)
(* Proofs about DataOperations, for any numbers of rows, backups, releases, *)
(* mishaps and scripts started, with and without copies in COS.            *)
(***************************************************************************)
EXTENDS DataOperations, FiniteSetTheorems, TLAPS

\* Clear and restore stop the application and replace its data.
Replacing == {"clear", "restore"}

StepsOf(s) ==
    CASE s = "scheduled" -> {"idle", "dump", "count", "check", "prune"}
      [] s = "clear" -> {"idle", "dump", "count", "check", "confirm", "stop",
                         "stopped", "clear", "audit", "start", "health"}
      [] s = "restore" -> {"idle", "dump", "count", "check", "confirm", "stop",
                           "stopped", "drop", "migrate", "match", "start", "health", "recover"}
      [] OTHER -> {"idle", "lock", "dump", "count", "check", "migrate", "start",
                   "health"}

\* Where a script goes from its backup.
AfterBackup(s) ==
    CASE s = "scheduled" -> {"prune"}
      [] s = "deploy" -> {"migrate", "idle"}
      [] OTHER -> {"confirm"}

BackingUp == {"dump", "count", "check"}

\* Where a script relies on its own backup.
Relies(s, r) ==
    \/ s \in Replacing /\ r.at \notin BackingUp \cup {"idle"}
    \/ s = "deploy" /\ r.at = "migrate" /\ r.made # 0

\* What a script carries, by the step it has reached.
Fits(s, r) ==
    /\ r.at \in StepsOf(s)
    /\ r.at = "idle" => r = Idle
    /\ r.at # "idle" => r.next \in AfterBackup(s)
    /\ r.undo => s = "deploy" /\ release.previous # 0
    /\ r.made # 0 => r.made \in 1..Len(files) /\ files[r.made].kept
    /\ r.at \in {"count", "check"} => r.made # 0
    /\ r.at = "check" => files[r.made].sealed
    /\ s \in Replacing => (r.at \in {"idle", "dump"} <=> r.made = 0)
    /\ Relies(s, r) => Complete(r.made)

Carried == \A s \in Scripts : Fits(s, script[s])

\* Clear and restore hold the lock from their first command to their last, the
\* other scripts while they make a backup.
NeedsLock(s) ==
    IF s \in Replacing THEN Running(s) ELSE script[s].at \in BackingUp

Held == \A s \in Scripts : NeedsLock(s) => lock = s

\* The backup a restore was given is there.
SourceThere ==
    Running("restore") => selected \in 1..Len(files) /\ Verified(selected)

\* Where tables are missing there are no rows.
TornIsEmpty ==
    /\ db.state # "whole" => db.rows = {}
    /\ \A n \in 1..Len(files) : files[n].db.state # "whole" => files[n].db.rows = {}

\* Once clear or restore has its backup, that backup covers the rows, save
\* those committed since, and those a restore brings from its source.
Covered ==
    \A s \in Replacing : script[s].made # 0 =>
      \A w \in db.rows :
        \/ w \in exposed
        \/ w \in files[script[s].made].db.rows
        \/ s = "restore" /\ w \in files[selected].db.rows

\* The inductive invariant.  SourcesKept and LossIsBounded are not inductive:
\* that pruning spares the backups in use follows from the lock (Held), and
\* that a clear may empty the tables from what its backup holds (Covered).
IInv ==
    /\ TypeOK
    /\ Carried
    /\ Held
    /\ SourceThere
    /\ TornIsEmpty
    /\ Covered
    /\ LossIsBounded

-----------------------------------------------------------------------------
ScriptState ==
    [at : At, next : At, made : 0..MaxBackups, undo : BOOLEAN, catalogs : {1, 2}]

LEMMA Bounds ==
    /\ MaxWrites \in Nat /\ MaxBackups \in Nat /\ MaxImages \in Nat
    /\ MaxMishaps \in Nat /\ MaxStarts \in Nat
  BY ConstantsAssumption

LEMMA CountsType ==
    ASSUME NEW d \in Database
    PROVE  Counts(d) \in {NoCounts} \cup ((0..MaxWrites) \X {1, 2})
  <1>1. MaxWrites \in Nat /\ d.rows \in SUBSET (1..MaxWrites) /\ d.catalogs \in {1, 2}
    BY ConstantsAssumption DEF Database
  <1>2. IsFiniteSet(1..MaxWrites) /\ Cardinality(1..MaxWrites) = MaxWrites
    BY <1>1, FS_Interval
  <1>3. IsFiniteSet(d.rows) /\ Cardinality(d.rows) <= MaxWrites
    BY <1>1, <1>2, FS_Subset
  <1>4. Cardinality(d.rows) \in 0..MaxWrites
    BY <1>1, <1>3, FS_CardinalityType
  <1> QED BY <1>1, <1>4 DEF Counts

LEMMA FreshIsDatabase ==
    /\ Fresh \in Database /\ Fresh.rows = {} /\ Fresh.state = "whole"
    /\ \A d \in Torn : d \in Database /\ d.rows = {} /\ d.state # "whole"
  <1>1. Fresh \in Database
    BY ConstantsAssumption DEF Fresh, Database
  <1>2. ASSUME NEW state \in {"empty", "partial"}
        PROVE  LET d == [Fresh EXCEPT !.state = state]
               IN  d \in Database /\ d.rows = {} /\ d.state = state
    BY <1>1 DEF Fresh, Database
  <1> QED BY <1>1, <1>2 DEF Torn, Fresh

LEMMA IdleIsState == Idle \in ScriptState
  BY ConstantsAssumption DEF Idle, ScriptState, At

LEMMA MigratedIsDatabase ==
    ASSUME IInv, NEW d \in Database
    PROVE  Migrated(d) \in Database /\ (d.state # "empty" => Migrated(d).rows = d.rows)
  <1>1. release.current \in 1..MaxImages
    BY DEF IInv, TypeOK
  <1> QED BY <1>1, FreshIsDatabase DEF Migrated, Database

LEMMA InitInvariant == Init => IInv
  <1> SUFFICES ASSUME Init PROVE IInv
    OBVIOUS
  <1>1. Fresh \in Database
    BY FreshIsDatabase
  <1>2. Counts(Fresh) \in {NoCounts} \cup ((0..MaxWrites) \X {1, 2})
    BY <1>1, CountsType
  <1> DEFINE f == [db |-> Fresh, counts |-> Counts(Fresh), sealed |-> TRUE,
                   cos |-> Production, imported |-> FALSE, kept |-> TRUE]
  <1>3. f \in BackupFile
    BY <1>1, <1>2, ConstantsAssumption DEF BackupFile
  <1>4. files = <<f>>
    BY DEF Init
  <1>5. files \in Seq(BackupFile) /\ Len(files) = 1 /\ files[1] = f
    BY <1>3, <1>4
  <1>6. \A s \in Scripts : script[s] = Idle
    BY DEF Init
  <1>7. TypeOK
    <2>1. script \in [Scripts -> ScriptState]
      BY IdleIsState DEF Init
    <2>2. db \in Database /\ lock = None /\ selected = 0 /\ writes = 0
          /\ mishaps = 0 /\ starts = 0 /\ expired = {} /\ exposed = {}
      BY <1>1 DEF Init
    <2>5. up \in BOOLEAN /\ unchecked \in BOOLEAN
      BY DEF Init
    <2>3. release \in [current : 1..MaxImages, previous : 0..MaxImages]
      BY ConstantsAssumption DEF Init
    <2>4. Len(files) <= MaxBackups
      BY <1>5, ConstantsAssumption
    <2> QED BY <1>5, <2>1, <2>2, <2>3, <2>4, <2>5, Bounds DEF TypeOK, ScriptState
  <1>8. Carried
    BY <1>6 DEF Carried, Fits, Relies, Idle, StepsOf, Scripts, Replacing
  <1>9. Held /\ SourceThere /\ Covered
    BY <1>6 DEF Held, NeedsLock, SourceThere, Covered, Running, Idle, BackingUp, Scripts, Replacing
  <1>10. TornIsEmpty /\ LossIsBounded
    BY <1>5 DEF Init, TornIsEmpty, LossIsBounded, Fresh
  <1> QED BY <1>7, <1>8, <1>9, <1>10 DEF IInv

-----------------------------------------------------------------------------
(***************************************************************************)
(* What a step of one script leaves of the others.                         *)
(***************************************************************************)
\* A backup file stays as good as it was.
Stays(n) ==
    n \in 1..Len(files) =>
      /\ n \in 1..Len(files')
      /\ files'[n].db = files[n].db
      /\ files[n].kept => files'[n].kept
      /\ files[n].sealed => files'[n].sealed
      /\ Production /\ files[n].cos => files'[n].cos

LEMMA OthersFit ==
    ASSUME IInv, NEW s \in Scripts,
           \A t \in Scripts \ {s} : script'[t] = script[t] /\ Stays(script[t].made),
           release.previous # 0 => release'.previous # 0,
           Fits(s, script[s])'
    PROVE  Carried'
  <1> SUFFICES ASSUME NEW t \in Scripts \ {s} PROVE Fits(t, script[t])'
    BY DEF Carried
  <1>1. Fits(t, script[t]) /\ script'[t] = script[t] /\ Stays(script[t].made)
    BY DEF IInv, Carried
  <1>2. Relies(t, script[t]) => script[t].made # 0
    BY <1>1 DEF Fits, Relies, BackingUp
  <1> QED BY <1>1, <1>2 DEF Fits, Relies, Stays, Complete, Verified

LEMMA SameFilesStay ==
    ASSUME UNCHANGED files, NEW n
    PROVE  Stays(n)
  BY DEF Stays

\* A script goes on, or starts, and the backup directory is left alone.
LEMMA ScriptGoesOn ==
    ASSUME IInv, NEW s \in Scripts, script' \in [Scripts -> ScriptState],
           \A t \in Scripts \ {s} : script'[t] = script[t],
           UNCHANGED files,
           release.previous # 0 => release'.previous # 0,
           Fits(s, script[s])',
           (s \in Replacing \/ script'[s].at \in BackingUp) => lock' = s,
           lock' # lock => lock \in {s, None},
           s # "restore" => selected' = selected,
           s = "restore" => selected' \in 1..Len(files) /\ Verified(selected')
    PROVE  Carried' /\ Held' /\ SourceThere'
  <1>1. Carried'
    BY SameFilesStay, OthersFit
  <1>2. None \notin Scripts
    BY ConstantsAssumption
  <1>3. Held'
    BY <1>2 DEF IInv, Held, NeedsLock, Running
  <1>4. SourceThere'
    BY DEF IInv, SourceThere, Running, Verified, Scripts
  <1> QED BY <1>1, <1>3, <1>4

\* The same where it goes to another step with the backup it has.
LEMMA ScriptMoves ==
    ASSUME IInv, NEW s \in Scripts, NEW at \in At, Running(s), Goes(s, at),
           at \in StepsOf(s) \ {"idle", "count", "check"},
           UNCHANGED <<files, selected>>,
           release.previous # 0 => release'.previous # 0,
           s \in Replacing =>
              script[s].at \notin BackingUp /\ at # "dump" /\ lock' = lock,
           s = "deploy" => at # "migrate",
           lock' # lock => lock \in {s, None},
           at = "dump" => lock' = s
    PROVE  /\ script' \in [Scripts -> ScriptState]
           /\ Carried' /\ Held' /\ SourceThere'
           /\ \A t \in Scripts : script'[t].made = script[t].made
  <1>1. /\ script \in [Scripts -> ScriptState] /\ script[s] \in ScriptState
        /\ Fits(s, script[s])
    BY DEF IInv, TypeOK, ScriptState, Carried
  <1>2. /\ script' = [script EXCEPT ![s] = [script[s] EXCEPT !.at = at]]
        /\ script'[s] = [script[s] EXCEPT !.at = at]
    BY <1>1 DEF Goes
  <1>3. /\ script'[s].at = at /\ script'[s].made = script[s].made
        /\ script'[s].next = script[s].next /\ script'[s].undo = script[s].undo
        /\ script'[s] \in ScriptState
    BY <1>1, <1>2 DEF ScriptState
  <1>4. script' \in [Scripts -> ScriptState] /\ \A t \in Scripts \ {s} : script'[t] = script[t]
    BY <1>1, <1>2, <1>3
  <1>5. Relies(s, script'[s]) => Relies(s, script[s])
    BY <1>3 DEF Relies, Running
  <1>6. Fits(s, script[s])'
    <2>1. s \in Replacing => script'[s].made # 0 /\ at # "idle"
      BY <1>1, <1>3 DEF Fits, Relies, Running, BackingUp
    <2>2. Relies(s, script'[s]) => Complete(script[s].made)
      BY <1>1, <1>5 DEF Fits
    <2>3. StepsOf(s)' = StepsOf(s) /\ AfterBackup(s)' = AfterBackup(s)
      BY DEF StepsOf, AfterBackup
    <2> QED BY <1>1, <1>3, <2>1, <2>2, <2>3 DEF Fits, Relies, Complete, Verified, Running
  <1>7. s \in Replacing \/ script'[s].at \in BackingUp => lock' = s
    BY <1>3 DEF IInv, Held, NeedsLock, BackingUp
  <1>8. s = "restore" => selected' \in 1..Len(files) /\ Verified(selected')
    BY DEF IInv, SourceThere
  <1>9. Carried' /\ Held' /\ SourceThere'
    BY <1>4, <1>6, <1>7, <1>8, ScriptGoesOn
  <1> QED BY <1>3, <1>4, <1>9

\* A script ends, and the backup directory is left alone.
LEMMA ScriptEnds ==
    ASSUME IInv, NEW s \in Scripts, Ends(s), UNCHANGED files,
           release.previous # 0 => release'.previous # 0
    PROVE  /\ script' \in [Scripts -> ScriptState]
           /\ selected' \in 0..MaxBackups
           /\ lock' \in Scripts \cup {None}
           /\ Carried' /\ Held' /\ SourceThere'
           /\ \A t \in Replacing : script'[t].made # 0 =>
                /\ script'[t] = script[t]
                /\ t = "restore" => selected' = selected
  <1>1. /\ script \in [Scripts -> ScriptState]
        /\ selected \in 0..MaxBackups /\ lock \in Scripts \cup {None}
        /\ None \notin Scripts
    BY ConstantsAssumption DEF IInv, TypeOK, ScriptState
  <1>2. script'[s] = Idle /\ \A t \in Scripts \ {s} : script'[t] = script[t]
    BY <1>1 DEF Ends
  <1>3. /\ script' \in [Scripts -> ScriptState]
        /\ selected' \in 0..MaxBackups
        /\ lock' \in Scripts \cup {None}
    BY <1>1, IdleIsState, Bounds DEF Ends
  <1>4. Fits(s, script[s])'
    BY <1>2 DEF Fits, Relies, Idle, StepsOf, Scripts, Replacing
  <1>5. Carried'
    BY <1>2, <1>4, SameFilesStay, OthersFit
  <1>6. Held'
    BY <1>1, <1>2 DEF IInv, Held, NeedsLock, Running, Ends, Idle, BackingUp
  <1>7. SourceThere'
    BY <1>1, <1>2 DEF IInv, SourceThere, Running, Verified, Ends, Idle
  <1>8. \A t \in Replacing : script'[t].made # 0 =>
          /\ script'[t] = script[t]
          /\ t = "restore" => selected' = selected
    BY <1>1, <1>2 DEF Ends, Idle, Replacing, Scripts
  <1> QED BY <1>3, <1>5, <1>6, <1>7, <1>8

-----------------------------------------------------------------------------
(***************************************************************************)
(* What a step leaves of the data.                                         *)
(***************************************************************************)
LEMMA CoveredStays ==
    ASSUME IInv, exposed \subseteq exposed',
           \A w \in db'.rows : w \in db.rows \/ w \in exposed',
           \A t \in Replacing : script'[t].made # 0 =>
              /\ script'[t].made = script[t].made
              /\ files'[script[t].made].db = files[script[t].made].db
              /\ t = "restore" =>
                   selected' = selected /\ files'[selected].db = files[selected].db
    PROVE  Covered'
  <1> SUFFICES ASSUME NEW t \in Replacing, script'[t].made # 0, NEW w \in db'.rows
               PROVE  \/ w \in exposed'
                      \/ w \in files'[script'[t].made].db.rows
                      \/ t = "restore" /\ w \in files'[selected'].db.rows
    BY DEF Covered
  <1> QED BY DEF IInv, Covered

LEMMA LossStaysBounded ==
    ASSUME IInv, writes' = writes, expired \subseteq expired', exposed \subseteq exposed',
           \A n \in 1..Len(files) : Verified(n) =>
              \/ n \in 1..Len(files') /\ Verified(n)' /\ files'[n].db = files[n].db
              \/ files[n].db.rows \subseteq expired',
           \A w \in db.rows :
              \/ w \in db'.rows \cup expired' \cup exposed'
              \/ \E n \in 1..Len(files) : Verified(n) /\ w \in files[n].db.rows
    PROVE  LossIsBounded'
  <1> SUFFICES ASSUME NEW w \in 1..writes
               PROVE  \/ w \in db'.rows \cup expired' \cup exposed'
                      \/ \E n \in 1..Len(files') : Verified(n)' /\ w \in files'[n].db.rows
    BY DEF LossIsBounded
  <1>1. \/ w \in db.rows \cup expired \cup exposed
        \/ \E n \in 1..Len(files) : Verified(n) /\ w \in files[n].db.rows
    BY DEF IInv, LossIsBounded
  <1>2. CASE w \in db'.rows \cup expired' \cup exposed'
    BY <1>2
  <1>3. CASE \E n \in 1..Len(files) : Verified(n) /\ w \in files[n].db.rows
    <2>1. PICK n \in 1..Len(files) : Verified(n) /\ w \in files[n].db.rows
      BY <1>3
    <2> QED BY <2>1
  <1> QED BY <1>1, <1>2, <1>3

\* A step that leaves database, directory and history alone.
LEMMA DataStay ==
    ASSUME IInv, UNCHANGED <<db, files, writes, expired, exposed>>,
           \A t \in Replacing : script'[t].made # 0 =>
              /\ script'[t].made = script[t].made
              /\ t = "restore" => selected' = selected
    PROVE  TornIsEmpty' /\ Covered' /\ LossIsBounded'
  <1>1. TornIsEmpty'
    BY DEF IInv, TornIsEmpty
  <1>2. Covered'
    BY CoveredStays
  <1>3. LossIsBounded'
    BY DEF IInv, LossIsBounded, Verified
  <1> QED BY <1>1, <1>2, <1>3

-----------------------------------------------------------------------------
(***************************************************************************)
(* The application.                                                        *)
(***************************************************************************)
LEMMA NothingScripted ==
    ASSUME IInv, UNCHANGED <<files, script, selected, lock, release>>
    PROVE  Carried' /\ Held' /\ SourceThere'
  BY DEF IInv, Carried, Fits, Relies, Complete, Verified, Held, NeedsLock, SourceThere,
         Running

LEMMA WriteKeeps == ASSUME IInv, Write PROVE IInv'
  <1>1. /\ db \in Database /\ writes \in 0..MaxWrites /\ writes < MaxWrites
        /\ db.state = "whole" /\ writes' = writes + 1
        /\ exposed \subseteq 1..MaxWrites
        /\ UNCHANGED <<up, files, lock, release, script, selected, unchecked,
                       mishaps, starts, expired>>
    BY DEF IInv, TypeOK, Write, Serving, counters
  <1>2. writes' \in 1..MaxWrites
    BY <1>1, Bounds
  <1>3. db' \in Database /\ db'.rows = db.rows \cup {writes'} /\ db'.state = "whole"
    BY <1>1, <1>2 DEF Write, Database
  <1>4. exposed' \subseteq 1..MaxWrites /\ exposed \subseteq exposed'
    BY <1>1, <1>2 DEF Write
  <1>5. TypeOK'
    BY <1>1, <1>2, <1>3, <1>4 DEF IInv, TypeOK
  <1>6. Carried' /\ Held' /\ SourceThere'
    BY <1>1, NothingScripted
  <1>7. TornIsEmpty'
    BY <1>1, <1>3 DEF IInv, TornIsEmpty
  <1>8. Covered'
    <2> SUFFICES ASSUME NEW t \in Replacing, script[t].made # 0, NEW w \in db'.rows
                 PROVE  \/ w \in exposed'
                        \/ w \in files[script[t].made].db.rows
                        \/ t = "restore" /\ w \in files[selected].db.rows
      BY <1>1 DEF Covered
    <2>1. writes' \in exposed'
      BY DEF Write, Replacing
    <2> QED BY <1>3, <1>4, <2>1 DEF IInv, Covered
  <1>9. LossIsBounded'
    BY <1>1, <1>3, <1>4 DEF IInv, LossIsBounded, Verified
  <1> QED BY <1>5, <1>6, <1>7, <1>8, <1>9 DEF IInv

LEMMA PublishKeeps == ASSUME IInv, Publish PROVE IInv'
  <1>1. PICK byOwner \in BOOLEAN :
          /\ db.catalogs < 2
          /\ db' = [db EXCEPT !.catalogs = @ + 1, !.owned = byOwner]
    BY DEF Publish
  <1>2. /\ db \in Database
        /\ UNCHANGED <<up, files, lock, release, script, selected, unchecked,
                       mishaps, starts, writes, expired, exposed>>
    BY DEF IInv, TypeOK, Publish, counters, history
  <1>3. db' \in Database /\ db'.rows = db.rows /\ db'.state = db.state
    <2>1. db.catalogs = 1
      BY <1>1, <1>2 DEF Database
    <2>2. db' = [db EXCEPT !.catalogs = 2, !.owned = byOwner]
      BY <1>1, <2>1
    <2> QED BY <1>2, <2>2 DEF Database
  <1>4. TypeOK'
    BY <1>2, <1>3 DEF IInv, TypeOK
  <1>5. Carried' /\ Held' /\ SourceThere'
    BY <1>2, NothingScripted
  <1>6. TornIsEmpty' /\ Covered'
    BY <1>2, <1>3 DEF IInv, TornIsEmpty, Covered
  <1>7. LossIsBounded'
    BY <1>2, <1>3 DEF IInv, LossIsBounded, Verified
  <1> QED BY <1>4, <1>5, <1>6, <1>7 DEF IInv

-----------------------------------------------------------------------------
(***************************************************************************)
(* Backups and their timer.                                                *)
(***************************************************************************)
LEMMA DirectoryType ==
    ASSUME IInv, NEW g \in [1..Len(files) -> BackupFile]
    PROVE  g \in Seq(BackupFile) /\ Len(g) = Len(files)
  <1>1. files \in Seq(BackupFile) /\ Len(files) \in Nat
    BY DEF IInv, TypeOK
  <1> QED BY <1>1

\* What does not depend on where the scripts stand.
Plain ==
    /\ db \in Database /\ up \in BOOLEAN /\ unchecked \in BOOLEAN
    /\ release \in [current : 1..MaxImages, previous : 0..MaxImages]
    /\ mishaps \in 0..MaxMishaps /\ starts \in 0..MaxStarts /\ writes \in 0..MaxWrites
    /\ expired \subseteq 1..MaxWrites /\ exposed \subseteq 1..MaxWrites

LEMMA PlainType ==
    /\ IInv => Plain
    /\ Plain' /\ script' \in [Scripts -> ScriptState] /\ selected' \in 0..MaxBackups
         /\ lock' \in Scripts \cup {None} /\ files' \in Seq(BackupFile)
         /\ Len(files') <= MaxBackups => TypeOK'
  BY DEF IInv, TypeOK, Plain, ScriptState

LEMMA StateOfScript ==
    ASSUME IInv, NEW s \in Scripts
    PROVE  /\ script[s] \in ScriptState /\ Fits(s, script[s])
           /\ script \in [Scripts -> ScriptState]
           /\ files \in Seq(BackupFile) /\ Len(files) \in Nat /\ Len(files) <= MaxBackups
           /\ selected \in 0..MaxBackups
           /\ lock \in Scripts \cup {None}
  BY DEF IInv, TypeOK, ScriptState, Carried

LEMMA LockForBackupKeeps ==
    ASSUME IInv, NEW s \in Scripts, LockForBackup(s) PROVE IInv'
  <1>1. script[s].at = "lock" /\ s = "deploy" /\ Running(s)
    BY StateOfScript DEF LockForBackup, Fits, StepsOf, Scripts, Running
  <1>2. /\ Goes(s, "dump") /\ lock = None /\ lock' = s
        /\ UNCHANGED <<db, up, files, release, selected, unchecked, mishaps, starts,
                       writes, expired, exposed>>
    BY DEF LockForBackup, counters, history
  <1>3. /\ script' \in [Scripts -> ScriptState]
        /\ Carried' /\ Held' /\ SourceThere'
        /\ \A t \in Scripts : script'[t].made = script[t].made
    BY <1>1, <1>2, ScriptMoves DEF At, StepsOf, Replacing
  <1>4. TypeOK'
    BY <1>2, <1>3, PlainType, StateOfScript DEF Plain
  <1>5. TornIsEmpty' /\ Covered' /\ LossIsBounded'
    BY <1>2, <1>3, DataStay DEF Replacing, Scripts
  <1> QED BY <1>3, <1>4, <1>5 DEF IInv

LEMMA StartScheduledKeeps == ASSUME IInv, StartScheduled PROVE IInv'
  <1> DEFINE s == "scheduled"
             r == [Idle EXCEPT !.at = "dump", !.next = "prune"]
  <1>1. s \in Scripts /\ s \notin Replacing
    BY DEF Scripts, Replacing
  <1>2. script[s] = Idle
    BY <1>1, StateOfScript DEF StartScheduled, CanStart, Running, Fits
  <1>3. r \in ScriptState /\ r.at = "dump" /\ r.made = 0 /\ r.next = "prune" /\ r.undo = FALSE
    BY IdleIsState DEF ScriptState, At, Idle
  <1>4. /\ lock = None /\ lock' = s
        /\ starts < MaxStarts /\ starts' = starts + 1
        /\ UNCHANGED <<db, up, files, release, selected, unchecked, mishaps,
                       writes, expired, exposed>>
    BY DEF StartScheduled, CanStart, history
  <1>5. /\ script' \in [Scripts -> ScriptState] /\ script'[s] = r
        /\ \A t \in Scripts \ {s} : script'[t] = script[t]
    BY <1>1, <1>2, <1>3, StateOfScript DEF StartScheduled
  <1>6. Fits(s, script[s])'
    BY <1>1, <1>3, <1>4, <1>5 DEF Fits, StepsOf, AfterBackup, Relies, Replacing
  <1>7. Carried' /\ Held' /\ SourceThere'
    BY <1>1, <1>4, <1>5, <1>6, ScriptGoesOn
  <1>8. starts' \in 0..MaxStarts
    BY <1>4, PlainType, Bounds DEF Plain
  <1>9. TypeOK'
    BY <1>1, <1>4, <1>5, <1>8, PlainType, StateOfScript DEF Plain
  <1>10. TornIsEmpty' /\ Covered' /\ LossIsBounded'
    BY <1>4, <1>5, DataStay DEF Replacing, Scripts
  <1> QED BY <1>7, <1>9, <1>10 DEF IInv

\* A step that adds to the directory, or makes a backup better.
LEMMA DirectoryChanges ==
    ASSUME IInv, NEW s \in Scripts,
           \A t \in Scripts \ {s} : script'[t] = script[t],
           \A n \in 1..Len(files) : Stays(n),
           UNCHANGED <<release, selected>>,
           Fits(s, script[s])',
           NeedsLock(s)' => lock' = s,
           lock' # lock => lock \in {s, None},
           Running("restore")' => Running("restore")
    PROVE  Carried' /\ Held' /\ SourceThere'
  <1>1. Carried'
    <2>1. \A t \in Scripts : Stays(script[t].made)
      BY DEF Stays
    <2> QED BY <2>1, OthersFit
  <1>2. None \notin Scripts
    BY ConstantsAssumption
  <1>3. Held'
    BY <1>2 DEF IInv, Held, NeedsLock, Running
  <1>4. SourceThere'
    BY DEF IInv, SourceThere, Verified, Stays
  <1> QED BY <1>1, <1>3, <1>4

\* The rows stay covered when database and history stay as they are.
LEMMA DirectoryKeepsRows ==
    ASSUME IInv, NEW s \in Scripts, UNCHANGED <<db, writes, expired, exposed, selected>>,
           \A n \in 1..Len(files) : Stays(n),
           \A t \in Scripts \ {s} : script'[t] = script[t],
           Carried',
           \/ script'[s].made \in {0, script[s].made}
           \/ files'[script'[s].made].db = db
    PROVE  Covered' /\ LossIsBounded'
  <1>1. Covered'
    <2> SUFFICES ASSUME NEW t \in Replacing, script'[t].made # 0, NEW w \in db.rows,
                        w \notin exposed
                 PROVE  \/ w \in files'[script'[t].made].db.rows
                        \/ t = "restore" /\ w \in files'[selected].db.rows
      BY DEF Covered
    <2>1. CASE script'[t].made = script[t].made
      <3>1. t \in Scripts
        BY DEF Scripts, Replacing
      <3>2. Fits(t, script[t]) /\ script[t].made \in 1..Len(files) /\ Running(t)
        BY <2>1, <3>1 DEF IInv, Carried, Fits, Running, Idle
      <3>3. files'[script[t].made].db = files[script[t].made].db
        BY <3>2 DEF Stays
      <3>4. t = "restore" => files'[selected].db = files[selected].db
        BY <3>2 DEF IInv, SourceThere, Stays
      <3> QED BY <2>1, <3>3, <3>4 DEF IInv, Covered
    <2>2. CASE t = s /\ files'[script'[s].made].db = db
      BY <2>2
    <2> QED BY <2>1, <2>2 DEF Replacing, Scripts
  <1>2. LossIsBounded'
    <2>1. \A n \in 1..Len(files) : Verified(n) =>
            n \in 1..Len(files') /\ Verified(n)' /\ files'[n].db = files[n].db
      BY DEF Stays, Verified
    <2> QED BY <2>1, LossStaysBounded
  <1> QED BY <1>1, <1>2

LEMMA AppendedBackup ==
    ASSUME IInv, NEW f \in BackupFile, files' = Append(files, f), Len(files) < MaxBackups
    PROVE  /\ files' \in Seq(BackupFile)
           /\ Len(files') = Len(files) + 1 /\ Len(files') <= MaxBackups
           /\ files'[Len(files) + 1] = f
           /\ \A n \in 1..Len(files) : files'[n] = files[n] /\ Stays(n)
  <1>1. files \in Seq(BackupFile) /\ Len(files) \in Nat
    BY DEF IInv, TypeOK
  <1>2. files' \in Seq(BackupFile) /\ Len(files') = Len(files) + 1
        /\ files'[Len(files) + 1] = f
        /\ \A n \in 1..Len(files) : files'[n] = files[n]
    BY <1>1
  <1> QED BY <1>1, <1>2, Bounds DEF Stays

LEMMA DumpKeeps == ASSUME IInv, NEW s \in Scripts, Dump(s) PROVE IInv'
  <1>1. /\ script[s] \in ScriptState /\ Fits(s, script[s]) /\ script[s].at = "dump"
        /\ script \in [Scripts -> ScriptState]
        /\ Len(files) \in Nat /\ Len(files) < MaxBackups
        /\ UNCHANGED <<db, up, lock, release, selected, unchecked, mishaps, starts,
                       writes, expired, exposed>>
    BY StateOfScript DEF Dump, counters, history
  <1>2. PICK f \in BackupFile :
          /\ files' = Append(files, f)
          /\ f.db = db /\ f.kept = TRUE
    <2> DEFINE f == [db |-> db, counts |-> NoMeta, sealed |-> FALSE, cos |-> FALSE,
                     imported |-> FALSE, kept |-> TRUE]
    <2>1. f \in BackupFile /\ f.db = db /\ f.kept = TRUE
      BY DEF IInv, TypeOK, BackupFile
    <2>2. files' = Append(files, f)
      BY DEF Dump
    <2> HIDE DEF f
    <2> QED BY <2>1, <2>2
  <1>3. /\ files' \in Seq(BackupFile)
        /\ Len(files') = Len(files) + 1 /\ Len(files') <= MaxBackups
        /\ files'[Len(files) + 1] = f
        /\ \A n \in 1..Len(files) : files'[n] = files[n] /\ Stays(n)
    BY <1>1, <1>2, AppendedBackup
  <1>4. /\ script'[s] = [script[s] EXCEPT !.at = "count", !.made = Len(files) + 1]
        /\ \A t \in Scripts \ {s} : script'[t] = script[t]
    BY <1>1 DEF Dump
  <1>5. /\ script'[s].at = "count" /\ script'[s].made = Len(files) + 1
        /\ script'[s].next = script[s].next /\ script'[s].undo = script[s].undo
        /\ script'[s] \in ScriptState
    <2>1. Len(files) + 1 \in 0..MaxBackups /\ "count" \in At
      BY <1>1, Bounds DEF At
    <2> QED BY <1>1, <1>4, <2>1 DEF ScriptState
  <1>6. script' \in [Scripts -> ScriptState]
    BY <1>1, <1>4, <1>5 DEF Dump
  <1>7. Fits(s, script[s])'
    BY <1>1, <1>2, <1>3, <1>5
    DEF Fits, StepsOf, AfterBackup, Relies, BackingUp, Scripts, Replacing
  <1>8. Carried' /\ Held' /\ SourceThere'
    <2>1. NeedsLock(s)' => lock' = s
      BY <1>1 DEF IInv, Held, NeedsLock, Running, BackingUp
    <2>2. Running("restore")' => Running("restore")
      BY <1>1, <1>4, <1>5 DEF Running, Scripts
    <2> QED BY <1>1, <1>3, <1>4, <1>7, <2>1, <2>2, DirectoryChanges
  <1>9. TypeOK'
    BY <1>1, <1>3, <1>6, PlainType, StateOfScript DEF Plain
  <1>10. Covered' /\ LossIsBounded'
    BY <1>1, <1>2, <1>3, <1>4, <1>5, <1>8, DirectoryKeepsRows
  <1>11. TornIsEmpty'
    BY <1>1, <1>2, <1>3 DEF IInv, TornIsEmpty
  <1> QED BY <1>8, <1>9, <1>10, <1>11 DEF IInv

\* One file of the directory replaced by a better one.
LEMMA ImprovedBackup ==
    ASSUME IInv, NEW m \in 1..Len(files), NEW f \in BackupFile,
           files' = [files EXCEPT ![m] = f], f.db = files[m].db,
           files[m].kept => f.kept, files[m].sealed => f.sealed,
           Production /\ files[m].cos => f.cos
    PROVE  /\ files' \in Seq(BackupFile)
           /\ Len(files') = Len(files)
           /\ files'[m] = f
           /\ \A n \in 1..Len(files) : n # m => files'[n] = files[n]
           /\ \A n \in 1..Len(files) : Stays(n)
  <1>1. files \in Seq(BackupFile) /\ Len(files) \in Nat
    BY DEF IInv, TypeOK
  <1>2. /\ files' \in Seq(BackupFile) /\ Len(files') = Len(files)
        /\ files'[m] = f
        /\ \A n \in 1..Len(files) : n # m => files'[n] = files[n]
    BY <1>1
  <1> QED BY <1>1, <1>2 DEF Stays

LEMMA CountKeeps == ASSUME IInv, NEW s \in Scripts, Count(s) PROVE IInv'
  <1> DEFINE m == script[s].made
  <1>1. /\ script[s] \in ScriptState /\ Fits(s, script[s]) /\ script[s].at = "count"
        /\ script \in [Scripts -> ScriptState]
        /\ files \in Seq(BackupFile) /\ Len(files) \in Nat /\ Len(files) <= MaxBackups
        /\ UNCHANGED <<db, up, lock, release, selected, unchecked, mishaps, starts,
                       writes, expired, exposed>>
    BY StateOfScript DEF Count, counters, history
  <1>2. m \in 1..Len(files) /\ files[m] \in BackupFile /\ files[m].kept
    BY <1>1 DEF Fits
  <1>3. PICK f \in BackupFile :
          /\ files' = [files EXCEPT ![m] = f]
          /\ f.db = files[m].db /\ f.kept = files[m].kept /\ f.sealed = TRUE
          /\ f.cos = files[m].cos
    <2> DEFINE f == [files[m] EXCEPT !.counts = Counts(db), !.sealed = TRUE]
    <2>1. Counts(db) \in {NoMeta, NoCounts} \cup ((0..MaxWrites) \X {1, 2})
      BY CountsType DEF IInv, TypeOK
    <2>2. f \in BackupFile /\ f.db = files[m].db /\ f.kept = files[m].kept
          /\ f.sealed = TRUE /\ f.cos = files[m].cos
      BY <1>2, <2>1 DEF BackupFile
    <2>3. files' = [files EXCEPT ![m] = f]
      BY <1>1, <1>2 DEF Count
    <2> HIDE DEF f
    <2> QED BY <2>2, <2>3
  <1>4. /\ files' \in Seq(BackupFile)
        /\ Len(files') = Len(files)
        /\ files'[m] = f
        /\ \A n \in 1..Len(files) : n # m => files'[n] = files[n]
        /\ \A n \in 1..Len(files) : Stays(n)
    BY <1>2, <1>3, ImprovedBackup
  <1>5. /\ script'[s] = [script[s] EXCEPT !.at = "check"]
        /\ \A t \in Scripts \ {s} : script'[t] = script[t]
        /\ script' = [script EXCEPT ![s] = [script[s] EXCEPT !.at = "check"]]
    BY <1>1 DEF Count, Goes
  <1>6. /\ script'[s].at = "check" /\ script'[s].made = m
        /\ script'[s].next = script[s].next /\ script'[s].undo = script[s].undo
        /\ script'[s] \in ScriptState
    BY <1>1, <1>5 DEF ScriptState, At
  <1>7. script' \in [Scripts -> ScriptState]
    BY <1>1, <1>5, <1>6
  <1>8. Fits(s, script[s])'
    BY <1>1, <1>2, <1>3, <1>4, <1>6
    DEF Fits, StepsOf, AfterBackup, Relies, BackingUp, Scripts, Replacing
  <1>9. Carried' /\ Held' /\ SourceThere'
    <2>1. NeedsLock(s)' => lock' = s
      BY <1>1 DEF IInv, Held, NeedsLock, Running, BackingUp
    <2>2. Running("restore")' => Running("restore")
      BY <1>1, <1>5, <1>6 DEF Running, Scripts
    <2> QED BY <1>1, <1>4, <1>5, <1>8, <2>1, <2>2, DirectoryChanges
  <1>10. TypeOK'
    BY <1>1, <1>4, <1>7, PlainType, StateOfScript DEF Plain
  <1>11. Covered' /\ LossIsBounded'
    BY <1>1, <1>4, <1>5, <1>6, <1>9, DirectoryKeepsRows
  <1>12. TornIsEmpty'
    BY <1>1, <1>2, <1>3, <1>4 DEF IInv, TornIsEmpty
  <1> QED BY <1>9, <1>10, <1>11, <1>12 DEF IInv

LEMMA CheckKeeps == ASSUME IInv, NEW s \in Scripts, Check(s) PROVE IInv'
  <1> DEFINE m == script[s].made
             r == IF script[s].next = "idle" THEN Idle
                  ELSE [script[s] EXCEPT !.at = script[s].next]
  <1>1. /\ script[s] \in ScriptState /\ Fits(s, script[s]) /\ script[s].at = "check"
        /\ script \in [Scripts -> ScriptState] /\ Verified(m)
        /\ files \in Seq(BackupFile) /\ Len(files) \in Nat /\ Len(files) <= MaxBackups
        /\ lock \in Scripts \cup {None}
        /\ UNCHANGED <<db, up, release, selected, unchecked, mishaps, starts,
                       writes, expired, exposed>>
    BY StateOfScript DEF Check, counters, history
  <1>2. m \in 1..Len(files) /\ files[m] \in BackupFile
    BY <1>1 DEF Fits
  <1>3. PICK f \in BackupFile :
          /\ files' = [files EXCEPT ![m] = f]
          /\ f.db = files[m].db /\ f.kept = files[m].kept /\ f.sealed = files[m].sealed
          /\ f.cos = Production
    <2> DEFINE f == [files[m] EXCEPT !.cos = Production]
    <2>1. f \in BackupFile /\ f.db = files[m].db /\ f.kept = files[m].kept
          /\ f.sealed = files[m].sealed /\ f.cos = Production
      BY <1>2, ConstantsAssumption DEF BackupFile
    <2>2. files' = [files EXCEPT ![m] = f]
      BY <1>1, <1>2 DEF Check, BackupToCos
    <2> HIDE DEF f
    <2> QED BY <2>1, <2>2
  <1>4. /\ files' \in Seq(BackupFile)
        /\ Len(files') = Len(files)
        /\ files'[m] = f
        /\ \A n \in 1..Len(files) : n # m => files'[n] = files[n]
        /\ \A n \in 1..Len(files) : Stays(n)
    BY <1>2, <1>3, ImprovedBackup
  <1>5. /\ script'[s] = r
        /\ \A t \in Scripts \ {s} : script'[t] = script[t]
        /\ script' = [script EXCEPT ![s] = r]
    BY <1>1 DEF Check
  <1>6. /\ r \in ScriptState
        /\ script[s].next # "idle" =>
              /\ r.at = script[s].next /\ r.made = m
              /\ r.next = script[s].next /\ r.undo = script[s].undo
    <2>1. CASE script[s].next = "idle"
      BY <2>1, IdleIsState
    <2>2. CASE script[s].next # "idle"
      <3>1. script[s] \in ScriptState /\ script[s].next \in At
        BY <1>1 DEF ScriptState
      <3>2. r = [script[s] EXCEPT !.at = script[s].next]
        BY <2>2
      <3> HIDE DEF r
      <3>3. /\ r.at = script[s].next /\ r.made = script[s].made
            /\ r.next = script[s].next /\ r.undo = script[s].undo
        BY <3>1, <3>2 DEF ScriptState
      <3>4. r \in ScriptState
        BY <3>1, <3>2 DEF ScriptState
      <3> QED BY <3>3, <3>4
    <2> QED BY <2>1, <2>2
  <1>7. script' \in [Scripts -> ScriptState]
    BY <1>1, <1>5, <1>6
  <1>8. files'[m].kept /\ files'[m].sealed /\ (Production => files'[m].cos)
    BY <1>1, <1>2, <1>3, <1>4 DEF Verified
  <1>9. Fits(s, script[s])'
    <2>1. CASE script[s].next = "idle"
      <3>1. script'[s] = Idle /\ s \notin Replacing
        BY <1>1, <1>5, <2>1 DEF Fits, AfterBackup, StepsOf, Replacing, Scripts
      <3> QED BY <3>1 DEF Fits, Relies, Idle, StepsOf, Scripts
    <2>2. CASE script[s].next # "idle"
      <3>1. script'[s] = r
        BY <1>5
      <3>2. /\ script'[s].at = script[s].next /\ script'[s].made = m
            /\ script'[s].next = script[s].next /\ script'[s].undo = script[s].undo
        BY <1>6, <2>2, <3>1
      <3>3. script[s].next \in AfterBackup(s)
        BY <1>1 DEF Fits
      <3>4. m \in 1..Len(files') /\ files'[m].kept /\ m # 0
        BY <1>1, <1>2, <1>4, <1>8
      <3>5. Complete(script[s].made)'
        BY <1>8, <3>2 DEF Complete, Verified
      <3> QED BY <1>1, <2>2, <3>2, <3>3, <3>4, <3>5
          DEF Fits, StepsOf, AfterBackup, Relies, BackingUp, Scripts, Replacing
    <2> QED BY <2>1, <2>2
  <1>10. lock = s
    BY <1>1 DEF IInv, Held, NeedsLock, Running, BackingUp
  <1>11. Carried' /\ Held' /\ SourceThere'
    <2>1. NeedsLock(s)' => lock' = s
      <3>1. CASE s \in Replacing
        BY <1>10, <3>1 DEF Check, Replacing
      <3>2. CASE s \notin Replacing
        <4>1. script'[s].at \notin BackingUp
          BY <1>1, <1>5, <1>6, <3>2
          DEF Fits, AfterBackup, BackingUp, Idle, Scripts, Replacing
        <4> QED BY <3>2, <4>1 DEF NeedsLock
      <3> QED BY <3>1, <3>2
    <2>2. Running("restore")' => Running("restore")
      BY <1>1, <1>5 DEF Running, Scripts
    <2> QED BY <1>1, <1>4, <1>5, <1>9, <1>10, <2>1, <2>2, DirectoryChanges
  <1>12. TypeOK'
    <2>1. lock' \in Scripts \cup {None}
      BY <1>1 DEF Check
    <2> QED BY <1>1, <1>4, <1>7, <2>1, PlainType, StateOfScript DEF Plain
  <1>13. Covered' /\ LossIsBounded'
    <2>1. script'[s].made \in {0, script[s].made}
      BY <1>5, <1>6 DEF Idle
    <2> QED BY <1>1, <1>4, <1>5, <1>11, <2>1, DirectoryKeepsRows
  <1>14. TornIsEmpty'
    BY <1>1, <1>2, <1>3, <1>4 DEF IInv, TornIsEmpty
  <1> QED BY <1>11, <1>12, <1>13, <1>14 DEF IInv

LEMMA PruneKeeps == ASSUME IInv, Prune PROVE IInv'
  <1> DEFINE s == "scheduled"
  <1>1. PICK oldest \in 0..Len(files) :
          /\ files' = [n \in 1..Len(files) |->
                         IF n \in Prunable(oldest) THEN Gone ELSE files[n]]
          /\ expired' = expired \cup
                           UNION {files[n].db.rows : n \in Prunable(oldest)}
    BY DEF Prune
  <1>2. /\ s \in Scripts /\ s \notin Replacing /\ lock = None /\ Ends(s)
        /\ UNCHANGED <<db, up, release, unchecked, mishaps, starts, writes, exposed>>
    BY DEF Prune, Scripts, Replacing, counters
  <1>3. /\ files \in Seq(BackupFile) /\ Len(files) \in Nat /\ Len(files) <= MaxBackups
        /\ script \in [Scripts -> ScriptState] /\ selected \in 0..MaxBackups
    BY <1>2, StateOfScript
  <1>4. Gone \in BackupFile /\ Gone.db.rows = {} /\ Gone.db.state = "whole"
    BY FreshIsDatabase DEF Gone, BackupFile
  <1>5. Prunable(oldest) \subseteq 1..Len(files)
    BY <1>1, <1>3 DEF Prunable
  <1>6. /\ files' \in Seq(BackupFile) /\ Len(files') = Len(files)
        /\ \A n \in 1..Len(files) :
             files'[n] = IF n \in Prunable(oldest) THEN Gone ELSE files[n]
    <2> DEFINE g == [n \in 1..Len(files) |->
                       IF n \in Prunable(oldest) THEN Gone ELSE files[n]]
    <2>1. g \in [1..Len(files) -> BackupFile]
      BY <1>3, <1>4
    <2> HIDE DEF g
    <2>2. files' = g
      BY <1>1 DEF g
    <2>3. g \in Seq(BackupFile) /\ Len(g) = Len(files)
      BY <2>1, DirectoryType
    <2> QED BY <1>1, <2>2, <2>3
  <1>7. \A t \in Scripts : Stays(script[t].made)
    BY <1>6 DEF Stays, Prunable
  <1>8. /\ script'[s] = Idle /\ \A t \in Scripts \ {s} : script'[t] = script[t]
        /\ script' \in [Scripts -> ScriptState]
    BY <1>2, <1>3, IdleIsState DEF Ends
  <1>9. /\ selected' = selected /\ lock' = lock
    BY <1>2 DEF Ends
  <1>10. Fits(s, script[s])'
    BY <1>8 DEF Fits, Relies, Idle, StepsOf, Replacing
  <1>11. Carried'
    BY <1>2, <1>7, <1>8, <1>10, OthersFit
  <1>12. \A t \in Replacing : ~Running(t) /\ script'[t] = Idle
    <2> SUFFICES ASSUME NEW t \in Replacing PROVE ~Running(t) /\ script'[t] = Idle
      OBVIOUS
    <2>1. t \in Scripts /\ t # s /\ None \notin Scripts
      BY ConstantsAssumption DEF Scripts, Replacing
    <2>2. ~Running(t)
      BY <1>2, <2>1 DEF IInv, Held, NeedsLock
    <2>3. script[t] = Idle
      BY <2>1, <2>2 DEF IInv, Carried, Fits, Running
    <2> QED BY <1>8, <2>1, <2>2, <2>3
  <1>13. Held'
    <2> SUFFICES ASSUME NEW t \in Scripts, NeedsLock(t)' PROVE FALSE
      BY DEF Held
    <2>1. t # s /\ t \notin Replacing
      BY <1>8, <1>12 DEF NeedsLock, Running, Idle, BackingUp
    <2>2. NeedsLock(t)
      BY <1>8, <2>1 DEF NeedsLock
    <2> QED BY <1>2, <2>2, ConstantsAssumption DEF IInv, Held
  <1>14. SourceThere' /\ Covered'
    BY <1>12 DEF SourceThere, Covered, Running, Idle, Replacing
  <1>15. expired' \subseteq 1..MaxWrites
    <2> SUFFICES ASSUME NEW w \in expired' PROVE w \in 1..MaxWrites
      OBVIOUS
    <2>1. CASE w \in expired
      BY <2>1 DEF IInv, TypeOK
    <2>2. CASE \E n \in Prunable(oldest) : w \in files[n].db.rows
      <3>1. PICK n \in 1..Len(files) : w \in files[n].db.rows
        BY <1>5, <2>2
      <3>2. files[n] \in BackupFile
        BY <1>3
      <3>3. files[n].db \in Database
        BY <3>2 DEF BackupFile
      <3>4. files[n].db.rows \subseteq 1..MaxWrites
        BY <3>3 DEF Database
      <3> QED BY <3>1, <3>4
    <2> QED BY <1>1, <2>1, <2>2
  <1>16. TypeOK'
    BY <1>2, <1>3, <1>6, <1>8, <1>9, <1>15, PlainType, StateOfScript DEF Plain
  <1>17. TornIsEmpty'
    BY <1>2, <1>4, <1>6 DEF IInv, TornIsEmpty
  <1>18. LossIsBounded'
    <2>1. \A n \in 1..Len(files) : Verified(n) =>
              \/ n \in 1..Len(files') /\ Verified(n)' /\ files'[n].db = files[n].db
              \/ files[n].db.rows \subseteq expired'
      BY <1>1, <1>6 DEF Verified
    <2>2. expired \subseteq expired'
      BY <1>1
    <2> QED BY <1>2, <2>1, <2>2, LossStaysBounded
  <1> QED BY <1>11, <1>13, <1>14, <1>16, <1>17, <1>18 DEF IInv

LEMMA ImportBackupKeeps == ASSUME IInv, ImportBackup PROVE IInv'
  <1> DEFINE f == [db |-> Fresh, counts |-> NoMeta, sealed |-> TRUE, cos |-> FALSE,
                   imported |-> TRUE, kept |-> TRUE]
  <1>1. /\ f \in BackupFile /\ f.db = Fresh
        /\ files' = Append(files, f) /\ Len(files) < MaxBackups
        /\ UNCHANGED <<db, up, lock, release, script, selected, unchecked, mishaps, starts,
                       writes, expired, exposed>>
    BY FreshIsDatabase DEF ImportBackup, BackupFile, counters, history
  <1> HIDE DEF f
  <1>2. /\ files' \in Seq(BackupFile)
        /\ Len(files') = Len(files) + 1 /\ Len(files') <= MaxBackups
        /\ files'[Len(files) + 1] = f
        /\ \A n \in 1..Len(files) : files'[n] = files[n] /\ Stays(n)
    BY <1>1, AppendedBackup
  <1> DEFINE s == "scheduled"
  <1>3. s \in Scripts
    BY DEF Scripts
  <1>4. /\ Fits(s, script[s]) /\ Stays(script[s].made) /\ Len(files) \in Nat
        /\ script \in [Scripts -> ScriptState] /\ selected \in 0..MaxBackups
        /\ lock \in Scripts \cup {None}
    BY <1>2, <1>3, StateOfScript DEF Stays
  <1>5. Fits(s, script[s])'
    <2>1. script'[s] = script[s] /\ UNCHANGED release
      BY <1>1
    <2>2. script[s].made # 0 => script[s].made \in 1..Len(files) /\ script[s].made \in 1..Len(files')
      BY <1>4 DEF Fits, Stays
    <2>3. ~Relies(s, script[s])
      BY DEF Relies, Replacing
    <2> QED BY <1>4, <2>1, <2>2, <2>3
        DEF Fits, Relies, Stays, StepsOf, AfterBackup, Replacing
  <1>6. NeedsLock(s)' => lock' = s
    BY <1>1, <1>3 DEF IInv, Held, NeedsLock, Running
  <1>7. Carried' /\ Held' /\ SourceThere'
    BY <1>1, <1>2, <1>3, <1>5, <1>6, DirectoryChanges DEF Running
  <1>8. TypeOK'
    BY <1>1, <1>2, <1>4, PlainType DEF Plain
  <1>9. Covered' /\ LossIsBounded'
    BY <1>1, <1>2, <1>3, <1>7, DirectoryKeepsRows
  <1>10. TornIsEmpty'
    BY <1>1, <1>2, <1>4, FreshIsDatabase DEF IInv, TornIsEmpty
  <1> QED BY <1>7, <1>8, <1>9, <1>10 DEF IInv

-----------------------------------------------------------------------------
(***************************************************************************)
(* The containers.                                                         *)
(***************************************************************************)
LEMMA MishapType == ASSUME IInv, Mishap PROVE mishaps' \in 0..MaxMishaps
  BY Bounds DEF Mishap, IInv, TypeOK

LEMMA ComposeType ==
    ASSUME IInv, NEW running \in BOOLEAN, Compose(running)
    PROVE  up' \in BOOLEAN /\ mishaps' \in 0..MaxMishaps
  BY MishapType DEF Compose, IInv, TypeOK

(***************************************************************************)
(* Steps that leave the rows alone, and steps that take rows away.         *)
(***************************************************************************)
\* A script goes on; of the data nothing changes.
LEMMA MoveKeeps ==
    ASSUME IInv, NEW s \in Scripts, NEW at \in At, Running(s), Goes(s, at),
           at \in StepsOf(s) \ {"idle", "dump", "count", "check"},
           s \in Replacing => script[s].at \notin BackingUp,
           s = "deploy" => at # "migrate",
           UNCHANGED <<db, files, lock, release, selected, starts, writes,
                       expired, exposed>>,
           up' \in BOOLEAN, unchecked' \in BOOLEAN, mishaps' \in 0..MaxMishaps
    PROVE  IInv'
  <1>1. /\ script' \in [Scripts -> ScriptState]
        /\ Carried' /\ Held' /\ SourceThere'
        /\ \A t \in Scripts : script'[t].made = script[t].made
    BY ScriptMoves
  <1>2. TypeOK'
    BY <1>1, PlainType, StateOfScript DEF Plain
  <1>3. TornIsEmpty' /\ Covered' /\ LossIsBounded'
    BY <1>1, DataStay DEF Replacing, Scripts
  <1> QED BY <1>1, <1>2, <1>3 DEF IInv

LEMMA ConfirmKeeps ==
    ASSUME IInv, NEW s \in Replacing, Confirm(s) PROVE IInv'
  <1>1. s \in Scripts /\ "stop" \in At /\ "stop" \in StepsOf(s)
    BY DEF Scripts, Replacing, At, StepsOf
  <1>2. script[s].at = "confirm" /\ Running(s) /\ Goes(s, "stop")
    BY DEF Confirm, Running
  <1>3. /\ UNCHANGED <<db, files, lock, release, selected, mishaps, starts, writes,
                       expired, exposed>>
        /\ up' \in BOOLEAN /\ unchecked' \in BOOLEAN /\ mishaps' \in 0..MaxMishaps
    BY DEF Confirm, counters, history, IInv, TypeOK
  <1> QED BY <1>1, <1>2, <1>3, MoveKeeps DEF BackingUp, Replacing

LEMMA StopKeeps ==
    ASSUME IInv, NEW s \in Replacing, Stop(s) PROVE IInv'
  <1>1. s \in Scripts /\ "stopped" \in At /\ "stopped" \in StepsOf(s)
    BY DEF Scripts, Replacing, At, StepsOf
  <1>2. script[s].at = "stop" /\ Running(s) /\ Goes(s, "stopped")
    BY DEF Stop, Running
  <1>3. /\ UNCHANGED <<db, files, lock, release, selected, starts, writes,
                       expired, exposed>>
        /\ up' \in BOOLEAN /\ unchecked' \in BOOLEAN /\ mishaps' \in 0..MaxMishaps
    BY DEF Stop, counters, history, IInv, TypeOK
  <1> QED BY <1>1, <1>2, <1>3, MoveKeeps DEF BackingUp, Replacing

LEMMA NoteStoppedKeeps ==
    ASSUME IInv, NEW s \in Replacing, NoteStopped(s) PROVE IInv'
  <1> DEFINE at == IF s = "clear" THEN "clear" ELSE "drop"
  <1>1. s \in Scripts /\ at \in At /\ at \in StepsOf(s) /\ at \notin BackingUp \cup {"idle"}
    BY DEF Scripts, Replacing, At, StepsOf, BackingUp
  <1>2. script[s].at = "stopped" /\ Running(s) /\ Goes(s, at)
    BY DEF NoteStopped, Running
  <1>3. /\ UNCHANGED <<db, files, lock, release, selected, starts, writes,
                       expired, exposed>>
        /\ up' \in BOOLEAN /\ unchecked' \in BOOLEAN /\ mishaps' \in 0..MaxMishaps
    BY DEF NoteStopped, counters, history, IInv, TypeOK
  <1> HIDE DEF at
  <1> QED BY <1>1, <1>2, <1>3, MoveKeeps DEF BackingUp, Replacing

LEMMA StartKeeps ==
    ASSUME IInv, NEW s \in Scripts, s # "scheduled", Start(s) PROVE IInv'
  <1>1. "health" \in At /\ "health" \in StepsOf(s)
    BY DEF Scripts, At, StepsOf
  <1>2. script[s].at = "start" /\ Running(s) /\ Goes(s, "health")
    BY DEF Start, Running
  <1>3. /\ UNCHANGED <<db, files, lock, release, selected, mishaps, starts, writes,
                       expired, exposed>>
        /\ up' \in BOOLEAN /\ unchecked' \in BOOLEAN /\ mishaps' \in 0..MaxMishaps
    BY DEF Start, counters, history, IInv, TypeOK
  <1> QED BY <1>1, <1>2, <1>3, MoveKeeps DEF BackingUp

LEMMA AuditKeeps == ASSUME IInv, Audit PROVE IInv'
  <1> DEFINE s == "clear"
  <1>1. s \in Scripts /\ "start" \in At /\ "start" \in StepsOf(s)
    BY DEF Scripts, At, StepsOf
  <1>2. script[s].at = "audit" /\ Running(s) /\ Goes(s, "start")
    BY DEF Audit, Running
  <1>3. /\ UNCHANGED <<db, files, lock, release, selected, mishaps, starts, writes,
                       expired, exposed>>
        /\ up' \in BOOLEAN /\ unchecked' \in BOOLEAN /\ mishaps' \in 0..MaxMishaps
    BY DEF Audit, counters, history, IInv, TypeOK
  <1> QED BY <1>1, <1>2, <1>3, MoveKeeps DEF BackingUp

LEMMA MetadataMatchesKeeps == ASSUME IInv, MetadataMatches PROVE IInv'
  <1> DEFINE s == "restore"
  <1>1. s \in Scripts /\ "start" \in At /\ "start" \in StepsOf(s)
    BY DEF Scripts, At, StepsOf
  <1>2. script[s].at = "match" /\ Running(s) /\ Goes(s, "start")
    BY DEF MetadataMatches, Running
  <1>3. /\ UNCHANGED <<db, files, lock, release, selected, mishaps, starts, writes,
                       expired, exposed>>
        /\ up' \in BOOLEAN /\ unchecked' \in BOOLEAN /\ mishaps' \in 0..MaxMishaps
    BY DEF MetadataMatches, counters, history, IInv, TypeOK
  <1> QED BY <1>1, <1>2, <1>3, MoveKeeps DEF BackingUp

\* Rows may go where clear or restore relies on its backup.
LEMMA RowsGo ==
    ASSUME IInv, UNCHANGED <<files, writes, expired, exposed>>,
           db'.rows \subseteq db.rows, db'.state # "whole" => db'.rows = {},
           \/ db'.rows = db.rows
           \/ \E t \in Replacing : Relies(t, script[t]),
           \A t \in Replacing : script'[t].made # 0 =>
              /\ script'[t].made = script[t].made
              /\ t = "restore" => selected' = selected
    PROVE  TornIsEmpty' /\ Covered' /\ LossIsBounded'
  <1>1. TornIsEmpty'
    BY DEF IInv, TornIsEmpty
  <1>2. Covered'
    BY CoveredStays
  <1>3. \A w \in db.rows :
              \/ w \in db'.rows \cup expired' \cup exposed'
              \/ \E n \in 1..Len(files) : Verified(n) /\ w \in files[n].db.rows
    <2>1. CASE db'.rows = db.rows
      BY <2>1
    <2>2. CASE \E t \in Replacing : Relies(t, script[t])
      <3>1. PICK t \in Replacing : Relies(t, script[t])
        BY <2>2
      <3>2. t \in Scripts /\ Running(t) /\ script[t].at # "dump"
        BY <3>1 DEF Relies, Running, BackingUp, Replacing, Scripts
      <3>3. /\ script[t].made # 0 /\ script[t].made \in 1..Len(files)
            /\ Verified(script[t].made)
        BY <3>1, <3>2 DEF IInv, Carried, Fits, Running, Complete
      <3>4. t = "restore" => selected \in 1..Len(files) /\ Verified(selected)
        BY <3>2 DEF IInv, SourceThere
      <3> QED BY <3>3, <3>4 DEF IInv, Covered
    <2> QED BY <2>1, <2>2
  <1>4. LossIsBounded'
    BY <1>3, LossStaysBounded DEF Verified
  <1> QED BY <1>1, <1>2, <1>4

\* A script ends; of the data nothing but the database may change.
LEMMA EndKeeps ==
    ASSUME IInv, NEW s \in Scripts, Ends(s), UNCHANGED <<files, writes, expired, exposed>>,
           Plain', release.previous # 0 => release'.previous # 0,
           db'.rows \subseteq db.rows, db'.state # "whole" => db'.rows = {},
           \/ db'.rows = db.rows
           \/ \E t \in Replacing : Relies(t, script[t])
    PROVE  IInv'
  <1>1. /\ script' \in [Scripts -> ScriptState]
        /\ selected' \in 0..MaxBackups
        /\ lock' \in Scripts \cup {None}
        /\ Carried' /\ Held' /\ SourceThere'
        /\ \A t \in Replacing : script'[t].made # 0 =>
             /\ script'[t] = script[t]
             /\ t = "restore" => selected' = selected
    BY ScriptEnds
  <1>2. TypeOK'
    BY <1>1, PlainType, StateOfScript
  <1>3. TornIsEmpty' /\ Covered' /\ LossIsBounded'
    BY <1>1, RowsGo
  <1> QED BY <1>1, <1>2, <1>3 DEF IInv

-----------------------------------------------------------------------------
(***************************************************************************)
(* Scripts that start, and scripts that end.                               *)
(***************************************************************************)
LEMMA HealthKeeps ==
    ASSUME IInv, NEW s \in Scripts, Health(s) PROVE IInv'
  <1>1. /\ script[s] \in ScriptState /\ Fits(s, script[s]) /\ script[s].at = "health"
        /\ script \in [Scripts -> ScriptState]
        /\ UNCHANGED <<db, up, files, release, unchecked, mishaps, starts,
                       writes, expired, exposed>>
    BY StateOfScript DEF Health, counters, history
  <1>2. CASE s # "deploy"
    <2>1. Ends(s) /\ Plain' /\ (db.state # "whole" => db.rows = {})
      BY <1>1, <1>2, PlainType DEF Health, Plain, IInv, TornIsEmpty
    <2> QED BY <1>1, <2>1, EndKeeps
  <1>3. CASE s = "deploy"
    <2>1. /\ script'[s] = [script[s] EXCEPT !.at = "lock", !.next = "idle"]
          /\ script' = [script EXCEPT ![s] = [script[s] EXCEPT !.at = "lock", !.next = "idle"]]
          /\ UNCHANGED <<lock, selected>>
          /\ \A t \in Scripts \ {s} : script'[t] = script[t]
      BY <1>1, <1>3 DEF Health
    <2>2. /\ script'[s].at = "lock" /\ script'[s].next = "idle"
          /\ script'[s].made = script[s].made /\ script'[s].undo = script[s].undo
          /\ script'[s] \in ScriptState
      BY <1>1, <2>1 DEF ScriptState, At
    <2>3. script' \in [Scripts -> ScriptState]
      BY <1>1, <2>1, <2>2
    <2>4. Fits(s, script[s])'
      BY <1>1, <1>3, <2>2 DEF Fits, StepsOf, AfterBackup, Relies, Replacing
    <2>5. Carried' /\ Held' /\ SourceThere'
      BY <1>1, <1>3, <2>1, <2>2, <2>3, <2>4, ScriptGoesOn DEF Replacing, BackingUp
    <2>6. TypeOK'
      BY <1>1, <2>1, <2>3, PlainType, StateOfScript DEF Plain
    <2>7. TornIsEmpty' /\ Covered' /\ LossIsBounded'
      BY <1>1, <1>3, <2>1, DataStay DEF Replacing, Scripts
    <2> QED BY <2>5, <2>6, <2>7 DEF IInv
  <1> QED BY <1>2, <1>3

\* Clear or restore starts with the lock and its backup before it.
LEMMA ReplacingStarts ==
    ASSUME IInv, NEW s \in Replacing, ~Running(s), script'[s] \in ScriptState,
           script' = [script EXCEPT ![s] = script'[s]],
           script'[s].at = "dump", script'[s].next = "confirm",
           script'[s].made = 0, script'[s].undo = FALSE,
           lock = None, lock' = s, starts < MaxStarts, starts' = starts + 1,
           UNCHANGED <<db, up, files, release, unchecked, mishaps,
                       writes, expired, exposed>>,
           s = "restore" => selected' \in 1..Len(files) /\ Verified(selected'),
           s # "restore" => selected' = selected
    PROVE  IInv'
  <1>1. s \in Scripts
    BY DEF Scripts, Replacing
  <1>2. /\ script \in [Scripts -> ScriptState] /\ Len(files) \in Nat
        /\ Len(files) <= MaxBackups /\ selected \in 0..MaxBackups /\ script[s] = Idle
    BY <1>1, StateOfScript DEF Fits, Running
  <1>3. /\ script' \in [Scripts -> ScriptState]
        /\ \A t \in Scripts \ {s} : script'[t] = script[t]
    BY <1>1, <1>2
  <1>4. Fits(s, script[s])'
    BY DEF Fits, StepsOf, AfterBackup, Relies, Replacing, BackingUp
  <1>5. Carried' /\ Held' /\ SourceThere'
    BY <1>1, <1>3, <1>4, ScriptGoesOn
  <1>6. starts' \in 0..MaxStarts
    BY PlainType, Bounds DEF Plain
  <1>7. selected' \in 0..MaxBackups
    BY <1>2, Bounds
  <1>8. TypeOK'
    BY <1>1, <1>3, <1>6, <1>7, PlainType, StateOfScript DEF Plain
  <1>9. \A t \in Replacing : script'[t].made # 0 =>
          script'[t].made = script[t].made /\ (t = "restore" => selected' = selected)
    BY <1>3 DEF Replacing, Scripts
  <1>10. TornIsEmpty' /\ Covered' /\ LossIsBounded'
    BY <1>9, DataStay
  <1> QED BY <1>5, <1>8, <1>10 DEF IInv

LEMMA StartClearKeeps == ASSUME IInv, StartClear PROVE IInv'
  <1> DEFINE s == "clear"
             r == [Idle EXCEPT !.at = "dump", !.next = "confirm", !.catalogs = db.catalogs]
  <1>1. s \in Scripts /\ s \in Replacing /\ s # "restore" /\ ~Running(s)
    BY DEF Scripts, Replacing, StartClear, CanStart
  <1>2. script[s] = Idle /\ script \in [Scripts -> ScriptState]
    BY <1>1, StateOfScript DEF Running, Fits
  <1>3. db.catalogs \in {1, 2}
    BY DEF IInv, TypeOK, Database
  <1>4. r \in ScriptState /\ r.at = "dump" /\ r.made = 0 /\ r.next = "confirm" /\ r.undo = FALSE
    BY <1>3, IdleIsState DEF ScriptState, At, Idle
  <1>5. script'[s] = r /\ script' = [script EXCEPT ![s] = r]
    BY <1>1, <1>2 DEF StartClear
  <1>6. /\ lock = None /\ lock' = s /\ starts < MaxStarts /\ starts' = starts + 1
        /\ UNCHANGED <<db, up, files, release, selected, unchecked, mishaps,
                       writes, expired, exposed>>
    BY DEF StartClear, CanStart, history
  <1> HIDE DEF r
  <1> QED BY <1>1, <1>4, <1>5, <1>6, ReplacingStarts

LEMMA StartRestoreKeeps == ASSUME IInv, StartRestore PROVE IInv'
  <1> DEFINE s == "restore"
             r == [Idle EXCEPT !.at = "dump", !.next = "confirm"]
  <1>1. s \in Scripts /\ s \in Replacing /\ ~Running(s)
    BY DEF Scripts, Replacing, StartRestore, CanStart
  <1>2. script[s] = Idle /\ script \in [Scripts -> ScriptState]
    BY <1>1, StateOfScript DEF Running, Fits
  <1>4. r \in ScriptState /\ r.at = "dump" /\ r.made = 0 /\ r.next = "confirm" /\ r.undo = FALSE
    BY IdleIsState DEF ScriptState, At, Idle
  <1>5. script'[s] = r /\ script' = [script EXCEPT ![s] = r]
    BY <1>1, <1>2 DEF StartRestore
  <1>6. /\ lock = None /\ lock' = s /\ starts < MaxStarts /\ starts' = starts + 1
        /\ UNCHANGED <<db, up, files, release, unchecked, mishaps,
                       writes, expired, exposed>>
        /\ selected' \in 1..Len(files) /\ Verified(selected')
    BY DEF StartRestore, CanStart, history
  <1> HIDE DEF r
  <1> QED BY <1>1, <1>4, <1>5, <1>6, ReplacingStarts

LEMMA StartDeployKeeps == ASSUME IInv, StartDeploy PROVE IInv'
  <1> DEFINE s == "deploy"
             at == IF db.state = "empty" THEN "migrate" ELSE "lock"
  <1>1. s \in Scripts /\ s \notin Replacing /\ ~Running(s)
    BY DEF Scripts, Replacing, StartDeploy, CanStart
  <1>2. script[s] = Idle /\ script \in [Scripts -> ScriptState]
    BY <1>1, StateOfScript DEF Running, Fits
  <1>3. /\ release \in [current : 1..MaxImages, previous : 0..MaxImages]
        /\ release.current < MaxImages
        /\ starts < MaxStarts /\ starts' = starts + 1
        /\ UNCHANGED <<db, up, files, lock, selected, unchecked, mishaps,
                       writes, expired, exposed>>
    BY DEF StartDeploy, CanStart, history, IInv, TypeOK
  <1>4. PICK upgrade \in BOOLEAN :
          /\ DeployBackup(upgrade)
          /\ release' \in [current : 1..MaxImages, previous : 0..MaxImages]
          /\ release.previous # 0 => release'.previous # 0
          /\ upgrade => release'.previous # 0
    <2>0. release.current + 1 \in 1..MaxImages /\ release.current \in 1..MaxImages
      BY <1>3, Bounds
    <2>1. CASE StartUpgrade /\ DeployBackup(TRUE)
      <3>1. release' = [current |-> release.current + 1, previous |-> release.current]
        BY <2>1 DEF StartUpgrade
      <3>2. /\ release' \in [current : 1..MaxImages, previous : 0..MaxImages]
            /\ release'.previous # 0
        BY <2>0, <3>1
      <3> QED BY <2>1, <3>2, Zenon
    <2>2. CASE StartPublished /\ DeployBackup(FALSE)
      <3>1. release' = [release EXCEPT !.current = release.current + 1]
        BY <2>2 DEF StartPublished
      <3>2. /\ release' \in [current : 1..MaxImages, previous : 0..MaxImages]
            /\ release'.previous = release.previous
        BY <1>3, <2>0, <3>1
      <3> QED BY <2>2, <3>2, Zenon
    <2> QED BY <2>1, <2>2 DEF StartDeploy
  <1>5. script'[s] = [Idle EXCEPT !.next = "migrate", !.at = at, !.undo = upgrade]
    BY <1>1, <1>2, <1>4 DEF DeployBackup
  <1>6. \A t \in Scripts \ {s} : script'[t] = script[t]
    BY <1>2, <1>4 DEF DeployBackup
  <1>7. at \in At /\ at \in {"migrate", "lock"} /\ "migrate" \in At
    BY DEF At
  <1> HIDE DEF at
  <1>8. /\ script'[s] \in ScriptState
        /\ script'[s].at = at /\ script'[s].next = "migrate" /\ script'[s].made = 0
        /\ script'[s].undo = upgrade
    BY <1>5, <1>7, IdleIsState DEF ScriptState, Idle
  <1>9. script' \in [Scripts -> ScriptState]
    BY <1>1, <1>2, <1>4, <1>8 DEF DeployBackup
  <1>10. Fits(s, script[s])'
    BY <1>1, <1>4, <1>7, <1>8 DEF Fits, StepsOf, AfterBackup, Relies
  <1>11. Carried' /\ Held' /\ SourceThere'
    BY <1>1, <1>3, <1>4, <1>6, <1>7, <1>8, <1>9, <1>10, ScriptGoesOn DEF BackingUp
  <1>12. starts' \in 0..MaxStarts
    BY <1>3, PlainType, Bounds DEF Plain
  <1>13. TypeOK'
    BY <1>1, <1>3, <1>4, <1>9, <1>12, PlainType, StateOfScript DEF Plain
  <1>14. TornIsEmpty' /\ Covered' /\ LossIsBounded'
    BY <1>3, <1>6, DataStay DEF Replacing, Scripts
  <1> QED BY <1>11, <1>13, <1>14 DEF IInv

LEMMA RollbackKeeps == ASSUME IInv, Rollback PROVE IInv'
  <1>1. /\ release \in [current : 1..MaxImages, previous : 0..MaxImages]
        /\ release.previous # 0 /\ Compose(TRUE)
        /\ release' = [release EXCEPT !.current = release.previous]
        /\ UNCHANGED <<db, files, lock, script, selected, unchecked, starts,
                       writes, expired, exposed>>
    BY DEF Rollback, IInv, TypeOK, counters, history
  <1>2. /\ release' \in [current : 1..MaxImages, previous : 0..MaxImages]
        /\ release'.previous = release.previous
    BY <1>1, Bounds
  <1> DEFINE s == "scheduled"
  <1>3. s \in Scripts /\ Fits(s, script[s])
    BY StateOfScript DEF Scripts
  <1>4. Fits(s, script[s])'
    BY <1>1, <1>2, <1>3 DEF Fits, StepsOf, AfterBackup, Relies, Complete, Verified
  <1>5. Carried'
    BY <1>1, <1>2, <1>3, <1>4, SameFilesStay, OthersFit
  <1>6. Held' /\ SourceThere'
    BY <1>1 DEF IInv, Held, NeedsLock, SourceThere, Running, Verified
  <1>7. TypeOK'
    BY <1>1, <1>2, ComposeType DEF IInv, TypeOK
  <1>8. TornIsEmpty' /\ Covered' /\ LossIsBounded'
    BY <1>1, DataStay
  <1> QED BY <1>5, <1>6, <1>7, <1>8 DEF IInv

LEMMA FailKeeps ==
    ASSUME IInv, NEW s \in Scripts, Fail(s) PROVE IInv'
  <1>1. /\ UNCHANGED <<db, files, unchecked, starts, writes, expired, exposed>>
        /\ Running(s) /\ Plain /\ Fits(s, script[s])
        /\ db.state # "whole" => db.rows = {}
    BY PlainType, StateOfScript DEF Fail, counters, history, IInv, TornIsEmpty
  <1>2. CASE s = "restore" /\ script[s].at \in {"migrate", "match", "health"}
    <2>1. RestoreFailsLater
      BY <1>2 DEF Fail
    <2>2. "recover" \in At /\ "recover" \in StepsOf(s)
      BY <1>2 DEF At, StepsOf
    <2>3. /\ Goes(s, "recover") /\ UNCHANGED <<lock, release, selected>>
          /\ up' \in BOOLEAN /\ mishaps' \in 0..MaxMishaps
      BY <1>2, <2>1, ComposeType DEF RestoreFailsLater
    <2>4. unchecked' \in BOOLEAN
      BY <1>1 DEF Plain
    <2> QED BY <1>1, <1>2, <2>2, <2>3, <2>4, MoveKeeps DEF BackingUp
  <1>3. CASE s = "deploy" /\ script[s].undo
    <2>1. /\ release' = [release EXCEPT !.current = release.previous]
          /\ Ends(s) /\ up' \in BOOLEAN /\ mishaps' \in 0..MaxMishaps
      BY <1>2, <1>3, ComposeType DEF Fail, UpgradeFails
    <2>2. release.previous # 0
      BY <1>1, <1>3 DEF Fits
    <2>3. /\ release' \in [current : 1..MaxImages, previous : 0..MaxImages]
          /\ release'.previous = release.previous
      BY <1>1, <2>1, <2>2, Bounds DEF Plain
    <2>4. Plain'
      BY <1>1, <2>1, <2>3 DEF Plain
    <2> QED BY <1>1, <2>1, <2>2, <2>3, <2>4, EndKeeps
  <1>4. CASE /\ ~(s = "restore" /\ script[s].at \in {"migrate", "match", "health"})
             /\ ~(s = "deploy" /\ script[s].undo)
    <2>1. Exit(s)
      BY <1>4 DEF Fail
    <2>2. /\ up' \in BOOLEAN /\ mishaps' \in 0..MaxMishaps
          /\ Ends(s) /\ release' = release
      <3>1. Ends(s) /\ release' = release
        BY <2>1 DEF Exit
      <3>2. CASE Compose(TRUE) \/ Compose(up)
        BY <1>1, <3>1, <3>2, ComposeType DEF Plain
      <3>3. CASE UNCHANGED up /\ (Mishap \/ UNCHANGED mishaps)
        BY <1>1, <3>1, <3>3, MishapType DEF Plain
      <3> QED BY <2>1, <3>1, <3>2, <3>3 DEF Exit
    <2>3. Plain'
      BY <1>1, <2>2 DEF Plain
    <2> QED BY <1>1, <2>2, <2>3, EndKeeps
  <1> QED BY <1>2, <1>3, <1>4

-----------------------------------------------------------------------------
(***************************************************************************)
(* Steps that replace the data.                                            *)
(***************************************************************************)
\* Only one of clear and restore runs.
LEMMA OneReplaces ==
    ASSUME IInv, NEW s \in Replacing, Running(s)
    PROVE  \A t \in Replacing \ {s} : ~Running(t) /\ script[t] = Idle
  <1> SUFFICES ASSUME NEW t \in Replacing \ {s} PROVE ~Running(t) /\ script[t] = Idle
    OBVIOUS
  <1>1. t \in Scripts /\ s \in Scripts
    BY DEF Scripts, Replacing
  <1>2. ~Running(t)
    BY <1>1 DEF IInv, Held, NeedsLock
  <1> QED BY <1>1, <1>2, StateOfScript DEF Fits, Running

\* A script goes on where the rows may go.
LEMMA MoveWhereRowsGo ==
    ASSUME IInv, NEW s \in Scripts, NEW at \in At, Running(s), Goes(s, at),
           at \in StepsOf(s) \ {"idle", "dump", "count", "check"},
           s \in Replacing => script[s].at \notin BackingUp,
           s = "deploy" => at # "migrate",
           UNCHANGED <<files, lock, release, selected, starts, writes,
                       expired, exposed>>,
           up' \in BOOLEAN, unchecked' \in BOOLEAN, mishaps' \in 0..MaxMishaps,
           db' \in Database,
           db'.rows \subseteq db.rows, db'.state # "whole" => db'.rows = {},
           \/ db'.rows = db.rows
           \/ \E t \in Replacing : Relies(t, script[t])
    PROVE  IInv'
  <1>1. /\ script' \in [Scripts -> ScriptState]
        /\ Carried' /\ Held' /\ SourceThere'
        /\ \A t \in Scripts : script'[t].made = script[t].made
    BY ScriptMoves
  <1>2. TypeOK'
    BY <1>1, PlainType, StateOfScript DEF Plain
  <1>3. TornIsEmpty' /\ Covered' /\ LossIsBounded'
    BY <1>1, RowsGo DEF Replacing, Scripts
  <1> QED BY <1>1, <1>2, <1>3 DEF IInv

LEMMA ClearKeeps == ASSUME IInv, Clear PROVE IInv'
  <1> DEFINE s == "clear"
  <1>1. s \in Scripts /\ s \in Replacing /\ "audit" \in At /\ "audit" \in StepsOf(s)
    BY DEF Scripts, Replacing, At, StepsOf
  <1>2. /\ script[s].at = "clear" /\ Running(s) /\ Goes(s, "audit") /\ db.state = "whole"
        /\ db' = [db EXCEPT !.rows = {}]
        /\ UNCHANGED <<files, lock, release, selected, mishaps, starts, writes,
                       expired, exposed>>
        /\ up' \in BOOLEAN /\ unchecked' \in BOOLEAN /\ mishaps' \in 0..MaxMishaps
    BY DEF Clear, Running, counters, history, IInv, TypeOK
  <1>3. db' \in Database /\ db'.rows = {}
    BY <1>2 DEF IInv, TypeOK, Database
  <1>4. Relies(s, script[s]) /\ script[s].at \notin BackingUp
    BY <1>1, <1>2 DEF Relies, BackingUp
  <1> QED BY <1>1, <1>2, <1>3, <1>4, MoveWhereRowsGo DEF BackingUp

LEMMA MigrateKeeps ==
    ASSUME IInv, NEW s \in {"restore", "deploy"}, Migrate(s) PROVE IInv'
  <1> DEFINE at == IF s = "restore" THEN "match" ELSE "start"
  <1>1. s \in Scripts /\ at \in At /\ at \in StepsOf(s) \ {"idle", "dump", "count", "check"}
        /\ at # "migrate"
    BY DEF Scripts, At, StepsOf
  <1>2. /\ script[s].at = "migrate" /\ Running(s) /\ Goes(s, at)
        /\ db' = Migrated(db)
        /\ UNCHANGED <<files, lock, release, selected, mishaps, starts, writes,
                       expired, exposed>>
        /\ up' \in BOOLEAN /\ unchecked' \in BOOLEAN /\ mishaps' \in 0..MaxMishaps
    BY DEF Migrate, Running, counters, history, IInv, TypeOK
  <1> HIDE DEF at
  <1>3. db \in Database /\ (db.state # "whole" => db.rows = {})
    BY DEF IInv, TypeOK, TornIsEmpty
  <1>4. db' \in Database /\ db'.rows = db.rows /\ (db'.state # "whole" => db'.rows = {})
    <2>1. CASE db.state = "empty"
      BY <1>2, <1>3, <2>1, MigratedIsDatabase DEF Migrated, Fresh
    <2>2. CASE db.state # "empty"
      <3>1. db' \in Database /\ db'.rows = db.rows
        BY <1>2, <1>3, <2>2, MigratedIsDatabase
      <3>2. db'.state = db.state
        BY <1>2, <1>3, <2>2 DEF Migrated, Database
      <3> QED BY <1>3, <3>1, <3>2
    <2> QED BY <2>1, <2>2
  <1>5. script[s].at \notin BackingUp
    BY <1>2 DEF BackingUp
  <1> QED BY <1>1, <1>2, <1>4, <1>5, MoveWhereRowsGo

LEMMA RestoreDumpKeeps == ASSUME IInv, RestoreDump PROVE IInv'
  <1> DEFINE s == "restore"
  <1>1. s \in Scripts /\ s \in Replacing /\ "migrate" \in At /\ "migrate" \in StepsOf(s)
    BY DEF Scripts, Replacing, At, StepsOf
  <1>2. /\ script[s].at = "drop" /\ Running(s) /\ Goes(s, "migrate")
        /\ db' = files[selected].db
        /\ UNCHANGED <<files, lock, release, selected, mishaps, starts, writes,
                       expired, exposed>>
        /\ up' \in BOOLEAN /\ unchecked' \in BOOLEAN
    BY DEF RestoreDump, Running, counters, history, IInv, TypeOK
  <1>3. /\ selected \in 1..Len(files) /\ Verified(selected)
        /\ files \in Seq(BackupFile) /\ files[selected] \in BackupFile
    BY <1>2 DEF IInv, TypeOK, SourceThere
  <1>4. db' \in Database
    BY <1>2, <1>3 DEF BackupFile
  <1>5. script[s].at \notin BackingUp /\ Relies(s, script[s])
    BY <1>1, <1>2 DEF BackingUp, Relies
  <1>6. /\ script' \in [Scripts -> ScriptState]
        /\ Carried' /\ Held' /\ SourceThere'
        /\ \A t \in Scripts : script'[t].made = script[t].made
    BY <1>1, <1>2, <1>5, ScriptMoves
  <1>7. TypeOK'
    BY <1>2, <1>4, <1>6, PlainType, StateOfScript, <1>1 DEF Plain
  <1>8. TornIsEmpty'
    BY <1>2, <1>3 DEF IInv, TornIsEmpty
  <1>9. Covered'
    <2>1. script'["clear"].made = 0
      BY <1>1, <1>2, <1>6, OneReplaces DEF Replacing, Scripts, Idle
    <2> QED BY <1>2, <2>1 DEF Covered, Replacing
  <1>10. LossIsBounded'
    <2>1. /\ script[s].made \in 1..Len(files) /\ script[s].made # 0
          /\ Verified(script[s].made)
      BY <1>1, <1>5, StateOfScript DEF Fits, Relies, BackingUp, Complete
    <2>2. \A w \in db.rows :
              \/ w \in db'.rows \cup expired' \cup exposed'
              \/ \E n \in 1..Len(files) : Verified(n) /\ w \in files[n].db.rows
      BY <1>1, <1>2, <1>3, <2>1 DEF IInv, Covered
    <2> QED BY <1>2, <2>2, LossStaysBounded DEF Verified
  <1> QED BY <1>6, <1>7, <1>8, <1>9, <1>10 DEF IInv

\* What a restore that is cut off leaves of the database.
LEMMA TornDatabase ==
    ASSUME IInv, db' \in {db} \cup Torn
    PROVE  /\ db' \in Database /\ db'.rows \subseteq db.rows
           /\ db'.state # "whole" => db'.rows = {}
  BY FreshIsDatabase DEF IInv, TypeOK, TornIsEmpty

LEMMA CutOffDatabase ==
    ASSUME IInv, script["restore"].at \in {"drop", "recover"}, CutOff
    PROVE  /\ db' \in Database
           /\ db'.state # "whole" => db'.rows = {}
           /\ script["restore"].at = "drop" => db' \in {db} \cup Torn
  <1>1. CASE db' \in {db} \cup Torn
    BY <1>1, TornDatabase
  <1>2. CASE /\ script["restore"].at = "recover"
             /\ db' = files[script["restore"].made].db
    <2> DEFINE safety == script["restore"].made
    <2>1. safety \in 1..Len(files) /\ files[safety] \in BackupFile
      BY <1>2, StateOfScript DEF Fits, Replacing, Scripts, IInv, TypeOK
    <2> QED BY <1>2, <2>1 DEF BackupFile, IInv, TornIsEmpty
  <1> QED BY <1>1, <1>2 DEF CutOff

\* A restore ends while the database is being replaced: whatever it holds
\* then, its rows of before are in the backups.
LEMMA RestoreEnds ==
    ASSUME IInv, script["restore"].at \in {"drop", "recover"}, Ends("restore"), Plain',
           db'.state # "whole" => db'.rows = {},
           UNCHANGED <<files, release, writes, expired, exposed>>
    PROVE  IInv'
  <1> DEFINE s == "restore"
             safety == script[s].made
  <1>1. s \in Scripts /\ s \in Replacing /\ Running(s)
    BY DEF Scripts, Replacing, Running
  <1>2. /\ safety \in 1..Len(files) /\ safety # 0
        /\ Verified(safety)
    BY <1>1, StateOfScript DEF Fits, Relies, Complete, BackingUp
  <1>3. /\ script' \in [Scripts -> ScriptState]
        /\ selected' \in 0..MaxBackups
        /\ lock' \in Scripts \cup {None}
        /\ Carried' /\ Held' /\ SourceThere'
    BY <1>1, ScriptEnds
  <1>4. TypeOK'
    BY <1>1, <1>3, PlainType, StateOfScript
  <1>5. TornIsEmpty'
    BY DEF IInv, TornIsEmpty
  <1>6. \A t \in Replacing : script'[t].made = 0
    <2> SUFFICES ASSUME NEW t \in Replacing PROVE script'[t].made = 0
      OBVIOUS
    <2>1. script \in [Scripts -> ScriptState] /\ t \in Scripts
      BY <1>1, StateOfScript DEF Replacing, Scripts
    <2>2. CASE t = s
      BY <2>1, <2>2 DEF Ends, Idle
    <2>3. CASE t # s
      BY <1>1, <2>1, <2>3, OneReplaces DEF Ends, Idle
    <2> QED BY <2>2, <2>3
  <1>7. Covered'
    BY <1>6 DEF Covered
  <1>8. LossIsBounded'
    <2>1. selected \in 1..Len(files) /\ Verified(selected)
      BY <1>1 DEF IInv, SourceThere
    <2>2. \A w \in db.rows :
              \/ w \in db'.rows \cup expired' \cup exposed'
              \/ \E n \in 1..Len(files) : Verified(n) /\ w \in files[n].db.rows
      BY <1>1, <1>2, <2>1 DEF IInv, Covered
    <2> QED BY <2>2, LossStaysBounded DEF Verified
  <1> QED BY <1>3, <1>4, <1>5, <1>7, <1>8 DEF IInv

LEMMA RestoreFailsKeeps == ASSUME IInv, RestoreFails PROVE IInv'
  <1> DEFINE s == "restore"
  <1>1. s \in Scripts /\ s \in Replacing /\ "recover" \in At /\ "recover" \in StepsOf(s)
    BY DEF Scripts, Replacing, At, StepsOf
  <1>2. /\ script[s].at \in {"drop", "recover"} /\ Running(s) /\ CutOff
        /\ unchecked' \in BOOLEAN
        /\ UNCHANGED <<files, release, starts, writes, expired, exposed>>
    BY DEF RestoreFails, Running, history
  <1>3. /\ db' \in Database
        /\ db'.state # "whole" => db'.rows = {}
    BY <1>2, CutOffDatabase
  <1>4. script[s].at \notin BackingUp /\ Relies(s, script[s])
    BY <1>1, <1>2 DEF BackingUp, Relies
  <1>5. CASE script[s].at = "drop"
    <2>1. Goes(s, "recover") /\ UNCHANGED <<lock, selected>> /\ Compose(FALSE)
      BY <1>5 DEF RestoreFails
    <2>2. up' \in BOOLEAN /\ mishaps' \in 0..MaxMishaps
      BY <2>1, ComposeType
    <2>3. db'.rows \subseteq db.rows
      BY <1>2, <1>5, CutOffDatabase, TornDatabase
    <2> QED BY <1>1, <1>2, <1>3, <1>4, <2>1, <2>2, <2>3, MoveWhereRowsGo
  <1>6. CASE script[s].at # "drop"
    <2>1. Ends(s) /\ Compose(TRUE)
      BY <1>6 DEF RestoreFails
    <2>2. up' \in BOOLEAN /\ mishaps' \in 0..MaxMishaps
      BY <2>1, ComposeType
    <2>3. Plain'
      BY <1>2, <1>3, <2>2, PlainType DEF Plain
    <2> QED BY <1>2, <1>3, <2>1, <2>3, RestoreEnds
  <1> QED BY <1>5, <1>6

LEMMA CrashKeeps ==
    ASSUME IInv, NEW s \in Scripts, Crash(s) PROVE IInv'
  <1>1. /\ Mishap /\ Ends(s)
        /\ UNCHANGED <<up, files, release, starts, writes, expired, exposed>>
        /\ Plain /\ (db.state # "whole" => db.rows = {})
    BY PlainType DEF Crash, history, IInv, TornIsEmpty
  <1>2. mishaps' \in 0..MaxMishaps
    BY <1>1, MishapType
  <1>3. CASE s = "restore" /\ script[s].at \in {"drop", "recover"}
    <2>1. CutOff /\ unchecked' = TRUE
      BY <1>3 DEF Crash
    <2>2. /\ db' \in Database
          /\ db'.state # "whole" => db'.rows = {}
      BY <1>3, <2>1, CutOffDatabase
    <2>3. Plain'
      BY <1>1, <1>2, <2>1, <2>2 DEF Plain
    <2> QED BY <1>1, <1>3, <2>2, <2>3, RestoreEnds
  <1>4. CASE ~(s = "restore" /\ script[s].at \in {"drop", "recover"})
    <2>1. UNCHANGED <<db, unchecked>>
      BY <1>4 DEF Crash
    <2>2. Plain'
      BY <1>1, <1>2, <2>1 DEF Plain
    <2> QED BY <1>1, <2>1, <2>2, EndKeeps
  <1> QED BY <1>3, <1>4

LEMMA RollbackToSafetyKeeps == ASSUME IInv, RollbackToSafety PROVE IInv'
  <1> DEFINE s == "restore"
             safety == script[s].made
  <1>1. s \in Scripts /\ s \in Replacing
    BY DEF Scripts, Replacing
  <1>2. /\ script[s].at = "recover" /\ Running(s) /\ Verified(safety)
        /\ files[safety].db.state # "partial"
        /\ db' = Migrated(files[safety].db)
        /\ unchecked' = FALSE /\ Compose(TRUE) /\ Ends(s)
        /\ UNCHANGED <<files, release, starts, writes, expired, exposed>>
    BY DEF RollbackToSafety, Running, history
  <1>3. /\ safety \in 1..Len(files) /\ files[safety] \in BackupFile
    BY <1>1, <1>2, StateOfScript DEF Fits
  <1>4. files[safety].db \in Database
    BY <1>3 DEF BackupFile
  <1>5. db' \in Database /\ (db'.state # "whole" => db'.rows = {})
    <2>1. db' \in Database
      BY <1>2, <1>4, MigratedIsDatabase
    <2>2. CASE files[safety].db.state = "empty"
      <3>1. db' = [Fresh EXCEPT !.schema = release.current]
        BY <1>2, <2>2 DEF Migrated
      <3>2. db'.state = "whole"
        BY <3>1, FreshIsDatabase DEF Fresh
      <3> QED BY <2>1, <3>2
    <2>3. CASE files[safety].db.state # "empty"
      <3>1. db'.state = "whole"
        BY <1>2, <1>4, <2>3 DEF Migrated, Database
      <3> QED BY <2>1, <3>1
    <2> QED BY <2>1, <2>2, <2>3
  <1>6. Plain'
    BY <1>2, <1>5, PlainType, ComposeType DEF Plain
  <1> QED BY <1>2, <1>5, <1>6, RestoreEnds

-----------------------------------------------------------------------------
(***************************************************************************)
(* The invariant, and what follows.                                        *)
(***************************************************************************)
LEMMA ProceedKeeps ==
    ASSUME IInv, NEW s \in Scripts, Proceed(s) PROVE IInv'
  <1>1. CASE Backup(s)
    BY <1>1, LockForBackupKeeps, DumpKeeps, CountKeeps, CheckKeeps DEF Backup
  <1>2. CASE Fail(s)
    BY <1>2, FailKeeps
  <1>3. CASE s \in {"clear", "restore"} /\ (Stop(s) \/ NoteStopped(s))
    BY <1>3, StopKeeps, NoteStoppedKeeps DEF Replacing
  <1>4. CASE s \in {"clear", "restore", "deploy"} /\ (Start(s) \/ Health(s))
    <2>1. s # "scheduled"
      BY <1>4
    <2> QED BY <1>4, <2>1, StartKeeps, HealthKeeps
  <1>5. CASE s \in {"restore", "deploy"} /\ Migrate(s)
    BY <1>5, MigrateKeeps
  <1>6. CASE s = "scheduled" /\ Prune
    BY <1>6, PruneKeeps
  <1>7. CASE s = "clear" /\ (Clear \/ Audit)
    BY <1>7, ClearKeeps, AuditKeeps
  <1>8. CASE s = "restore" /\ RestoreSteps
    BY <1>8, RestoreDumpKeeps, RestoreFailsKeeps, MetadataMatchesKeeps,
       RollbackToSafetyKeeps DEF RestoreSteps
  <1> QED BY <1>1, <1>2, <1>3, <1>4, <1>5, <1>6, <1>7, <1>8 DEF Proceed

LEMMA StutterKeeps == ASSUME IInv, UNCHANGED vars PROVE IInv'
  <1>1. UNCHANGED <<db, files, lock, release, script, selected, writes, expired, exposed>>
    BY DEF vars
  <1>2. TypeOK'
    BY DEF IInv, TypeOK, vars
  <1>3. Carried' /\ Held' /\ SourceThere'
    BY <1>1, NothingScripted
  <1>4. TornIsEmpty' /\ Covered' /\ LossIsBounded'
    BY <1>1, DataStay
  <1> QED BY <1>2, <1>3, <1>4 DEF IInv

LEMMA NextInvariant == IInv /\ [Next]_vars => IInv'
  <1> SUFFICES ASSUME IInv, [Next]_vars PROVE IInv'
    OBVIOUS
  <1>1. CASE UNCHANGED vars
    BY <1>1, StutterKeeps
  <1>2. CASE Write \/ Publish
    BY <1>2, WriteKeeps, PublishKeeps
  <1>3. CASE StartScheduled \/ StartClear \/ StartRestore \/ StartDeploy
    BY <1>3, StartScheduledKeeps, StartClearKeeps, StartRestoreKeeps, StartDeployKeeps
  <1>4. CASE Rollback \/ ImportBackup
    BY <1>4, RollbackKeeps, ImportBackupKeeps
  <1>5. CASE \E s \in {"clear", "restore"} : Confirm(s)
    BY <1>5, ConfirmKeeps DEF Replacing
  <1>6. CASE \E s \in Scripts : Proceed(s) \/ Crash(s)
    BY <1>6, ProceedKeeps, CrashKeeps
  <1> QED BY <1>1, <1>2, <1>3, <1>4, <1>5, <1>6 DEF Next

\* The inductive invariant holds whatever scripts run, fail or are killed.
THEOREM Invariance == Spec => []IInv
  <1>1. Init => IInv
    BY InitInvariant
  <1>2. IInv /\ [Next]_vars => IInv'
    BY NextInvariant
  <1> QED BY <1>1, <1>2, PTL DEF Spec

\* Files, database and scripts have the shapes the module states.
THEOREM TypeCorrect == Spec => []TypeOK
  <1>1. IInv => TypeOK
    BY DEF IInv
  <1> QED BY <1>1, Invariance, PTL

\* No committed row is lost but those whose retention ended and those
\* committed after a clear or restore made its backup: pruning and replacing
\* exclude each other by the lock of server-common.sh.
THEOREM LossBounded == Spec => []LossIsBounded
  <1>1. IInv => LossIsBounded
    BY DEF IInv
  <1> QED BY <1>1, Invariance, PTL

\* The backup a restore was given and its safety backup stay in the directory
\* until it ends: pruning waits for the lock.
THEOREM SourcesStay == Spec => []SourcesKept
  <1>1. ASSUME IInv, Running("restore")
        PROVE  /\ Verified(selected)
               /\ script["restore"].at \notin {"dump", "count"} =>
                    Verified(script["restore"].made)
    <2>1. Verified(selected)
      BY <1>1 DEF IInv, SourceThere
    <2>2. Fits("restore", script["restore"])
      BY <1>1, StateOfScript DEF Scripts
    <2>3. ASSUME script["restore"].at \notin {"dump", "count"}
          PROVE  Verified(script["restore"].made)
      <3>1. CASE script["restore"].at = "check"
        BY <2>2, <3>1 DEF Fits, Verified
      <3>2. CASE script["restore"].at # "check"
        BY <1>1, <2>2, <2>3, <3>2
        DEF Fits, Relies, Complete, Running, Replacing, BackingUp
      <3> QED BY <3>1, <3>2
    <2> QED BY <2>1, <2>3
  <1>2. IInv => SourcesKept
    BY <1>1 DEF SourcesKept
  <1> QED BY <1>2, Invariance, PTL

-----------------------------------------------------------------------------
(***************************************************************************)
(* Nothing is replaced before it is backed up.                             *)
(***************************************************************************)
HasBackup ==
    \/ \E s \in Scripts : script[s].made # 0 /\ Complete(script[s].made)
    \/ script["deploy"].at = "migrate" /\ script["deploy"].made = 0

LEMMA ReliedOnIsBackup ==
    ASSUME IInv, NEW s \in Replacing, Relies(s, script[s]) PROVE HasBackup
  <1>1. s \in Scripts /\ Fits(s, script[s])
    BY StateOfScript DEF Scripts, Replacing
  <1> QED BY <1>1 DEF HasBackup, Fits, Relies, BackingUp

LEMMA MigratesWithBackup ==
    ASSUME IInv, NEW s \in {"restore", "deploy"}, script[s].at = "migrate"
    PROVE  HasBackup
  <1>1. s \in Scripts /\ Fits(s, script[s])
    BY StateOfScript DEF Scripts
  <1>2. CASE s = "restore"
    BY <1>2, ReliedOnIsBackup DEF Relies, Replacing, BackingUp
  <1>3. CASE s = "deploy"
    BY <1>1, <1>3 DEF HasBackup, Fits, Relies
  <1> QED BY <1>2, <1>3

LEMMA ProceedReplaces ==
    ASSUME IInv, NEW s \in Scripts, Proceed(s), Replaced PROVE HasBackup
  <1>1. db' # db
    BY DEF Replaced
  <1>2. CASE Backup(s)
    BY <1>1, <1>2 DEF Backup, LockForBackup, Dump, Count, Check
  <1>3. CASE Fail(s)
    BY <1>1, <1>3 DEF Fail
  <1>4. CASE \/ Stop(s) \/ NoteStopped(s) \/ Start(s) \/ Health(s)
             \/ Prune \/ Audit \/ MetadataMatches
    BY <1>1, <1>4 DEF Stop, NoteStopped, Start, Health, Prune, Audit, MetadataMatches
  <1>5. CASE s \in {"restore", "deploy"} /\ Migrate(s)
    BY <1>5, MigratesWithBackup DEF Migrate
  <1>6. CASE Clear
    BY <1>6, ReliedOnIsBackup DEF Clear, Relies, Replacing, BackingUp
  <1>7. CASE RestoreDump \/ RestoreFails \/ RollbackToSafety
    BY <1>7, ReliedOnIsBackup
    DEF RestoreDump, RestoreFails, RollbackToSafety, Relies, Replacing, BackingUp
  <1> QED BY <1>2, <1>3, <1>4, <1>5, <1>6, <1>7 DEF Proceed, RestoreSteps

LEMMA NextReplaces == IInv /\ [Next]_vars /\ Replaced => HasBackup
  <1> SUFFICES ASSUME IInv, [Next]_vars, Replaced PROVE HasBackup
    OBVIOUS
  <1>1. db' # db
    BY DEF Replaced
  <1>2. CASE UNCHANGED vars
    BY <1>1, <1>2 DEF vars
  <1>3. CASE Write \/ Publish
    <2>1. db \in Database
      BY DEF IInv, TypeOK
    <2>2. db.rows \subseteq db'.rows /\ db'.schema = db.schema /\ db'.state = db.state
      BY <1>3, <2>1 DEF Write, Publish, Database
    <2> QED BY <2>2 DEF Replaced
  <1>4. CASE StartScheduled \/ StartClear \/ StartRestore \/ StartDeploy
    BY <1>1, <1>4 DEF StartScheduled, StartClear, StartRestore, StartDeploy
  <1>5. CASE Rollback \/ ImportBackup
    BY <1>1, <1>5 DEF Rollback, ImportBackup
  <1>6. CASE \E s \in {"clear", "restore"} : Confirm(s)
    BY <1>1, <1>6 DEF Confirm
  <1>7. CASE \E s \in Scripts : Proceed(s)
    BY <1>7, ProceedReplaces
  <1>8. CASE \E s \in Scripts : Crash(s)
    <2>1. PICK s \in Scripts : Crash(s)
      BY <1>8
    <2>2. s = "restore" /\ script[s].at \in {"drop", "recover"}
      BY <1>1, <2>1 DEF Crash
    <2> QED BY <2>2, ReliedOnIsBackup DEF Relies, Replacing, BackingUp
  <1> QED BY <1>2, <1>3, <1>4, <1>5, <1>6, <1>7, <1>8 DEF Next

\* Rows go, and the schema changes, only beside a script with a backup that is
\* verified and, in production, read back from COS, or in a deployment that
\* found no tables.
THEOREM BackedUpFirst == Spec => BackupFirst
  <1>1. IInv /\ [Next]_vars =>
          [Replaced /\ db.state # "empty" =>
             \/ \E s \in Scripts : script[s].made # 0 /\ Complete(script[s].made)
             \/ script["deploy"].at = "migrate" /\ script["deploy"].made = 0]_vars
    BY NextReplaces DEF HasBackup
  <1> QED BY <1>1, Invariance, PTL DEF Spec, BackupFirst
=============================================================================
