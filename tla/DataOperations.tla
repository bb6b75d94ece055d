--------------------------- MODULE DataOperations ---------------------------
(***************************************************************************)
(* The scripts that operate on the data of a server: backup and its timer, *)
(* pruning, clearing of user data, restore, import of a backup, deployment, *)
(* upgrade and rollback (scripts/deployment).                              *)
(*                                                                         *)
(* One script of each kind runs at a time; a step is a command, and while  *)
(* it runs the application goes on writing and the other scripts go on.    *)
(* Any command may fail, which ends the script by its error path.  Mishaps  *)
(* are counted: a script is killed, which runs no trap, or docker compose   *)
(* does not stop or start the containers as it was told.                   *)
(*                                                                         *)
(* The database is abstracted to the business rows committed so far (by    *)
(* number; rows are never removed but by these scripts), the number of     *)
(* published catalogs, whether one of them was published by a user who is  *)
(* no ADMIN, the newest migration, and whether its tables are all there.   *)
(* An image is the number of the newest migration it brings.               *)
(***************************************************************************)
EXTENDS Integers, FiniteSets, Sequences

CONSTANTS
    Production,    \* whether backups must reach COS as well
    MaxWrites,     \* bound: business rows the application commits
    MaxBackups,    \* bound: backup files
    MaxImages,     \* bound: releases
    MaxMishaps,    \* bound: kills, and stops and starts that go wrong
    MaxStarts,     \* bound: scripts that are started
    None           \* nobody holds the lock

Scripts == {"scheduled", "clear", "restore", "deploy"}

ASSUME ConstantsAssumption ==
    /\ Production \in BOOLEAN
    /\ {MaxWrites, MaxBackups, MaxImages, MaxMishaps, MaxStarts} \subseteq Nat
    /\ MaxBackups >= 1 /\ MaxImages >= 1
    /\ None \notin Scripts

VARIABLES
    db,        \* the database
    up,        \* whether caddy, web and api run
    files,     \* the backup directory, in the order of names
    lock,      \* the script that holds .data-operation.lock
    release,   \* the image selected, and the one selected before an upgrade
    script,    \* where each script stands
    selected,  \* the backup given to server-restore-backup.sh
    unchecked, \* whether data were replaced and the script's checks did not pass yet
    writes,    \* business rows committed so far
    mishaps,
    starts,
    \* History: rows a retention period ended for, and rows committed after a
    \* clear or restore made its backup.
    expired, exposed

vars == <<db, up, files, lock, release, script, selected, unchecked, writes,
          mishaps, starts, expired, exposed>>

NoMeta == <<>>       \* there is no .meta file
NoCounts == <<-1>>   \* the .meta file holds no counts

Database ==
    [rows : SUBSET (1..MaxWrites), catalogs : {1, 2}, owned : BOOLEAN,
     schema : 1..MaxImages, state : {"whole", "partial", "empty"}]

Counts(d) ==
    IF d.state = "whole" THEN <<Cardinality(d.rows), d.catalogs>> ELSE NoCounts

BackupFile ==
    [db : Database, counts : {NoMeta, NoCounts} \cup ((0..MaxWrites) \X {1, 2}),
     sealed : BOOLEAN, cos : BOOLEAN, imported : BOOLEAN,
     kept : BOOLEAN]

At == {"idle", "lock", "dump", "count", "check", "confirm", "stop", "stopped",
       "clear", "audit", "drop", "migrate", "match", "start", "health", "recover",
       "prune"}

TypeOK ==
    /\ db \in Database /\ up \in BOOLEAN /\ unchecked \in BOOLEAN
    /\ files \in Seq(BackupFile) /\ Len(files) <= MaxBackups
    /\ lock \in Scripts \cup {None}
    /\ release \in [current : 1..MaxImages, previous : 0..MaxImages]
    /\ script \in [Scripts ->
         [at : At, next : At, made : 0..MaxBackups, undo : BOOLEAN,
          catalogs : {1, 2}]]
    /\ selected \in 0..MaxBackups
    /\ mishaps \in 0..MaxMishaps /\ starts \in 0..MaxStarts /\ writes \in 0..MaxWrites
    /\ expired \subseteq 1..MaxWrites /\ exposed \subseteq 1..MaxWrites

Idle == [at |-> "idle", next |-> "idle", made |-> 0, undo |-> FALSE,
         catalogs |-> 1]

(***************************************************************************)
(* A server with one backup, made before the first business row.           *)
(***************************************************************************)
Fresh == [rows |-> {}, catalogs |-> 1, owned |-> FALSE, schema |-> 1,
          state |-> "whole"]

Init ==
    /\ db = Fresh /\ up = TRUE /\ lock = None /\ unchecked = FALSE
    /\ files = <<[db |-> Fresh, counts |-> Counts(Fresh), sealed |-> TRUE,
                  cos |-> Production, imported |-> FALSE,
                  kept |-> TRUE]>>
    /\ release = [current |-> 1, previous |-> 0]
    /\ script = [s \in Scripts |-> Idle]
    /\ selected = 0 /\ writes = 0 /\ mishaps = 0 /\ starts = 0
    /\ expired = {} /\ exposed = {}

Running(s) == script[s].at # "idle"
CanStart(s) ==
    /\ ~Running(s) /\ starts < MaxStarts
    /\ starts' = starts + 1

Goes(s, at) == script' = [script EXCEPT ![s].at = at]

\* The script ends: its lock is released with its file descriptor.
Ends(s) ==
    /\ script' = [script EXCEPT ![s] = Idle]
    /\ lock' = IF lock = s THEN None ELSE lock
    /\ selected' = IF s = "restore" THEN 0 ELSE selected

\* What verify_backup_file accepts: the dump with its checksums and a list
\* that pg_restore can read.
Verified(n) == files[n].kept /\ files[n].sealed

\* server-backup-to-cos.sh leaves a marker once the copy was read back.
Complete(n) == Verified(n) /\ (Production => files[n].cos)

history == <<writes, expired, exposed>>
counters == <<mishaps, starts>>

-----------------------------------------------------------------------------
(***************************************************************************)
(* The application.                                                        *)
(***************************************************************************)
Serving == up /\ db.state = "whole"

Write ==
    /\ Serving /\ writes < MaxWrites
    /\ writes' = writes + 1
    /\ db' = [db EXCEPT !.rows = @ \cup {writes'}]
    /\ exposed' = IF \E s \in {"clear", "restore"} : script[s].made # 0
                    THEN exposed \cup {writes'} ELSE exposed
    /\ UNCHANGED <<up, files, lock, release, script, selected, unchecked,
                   counters, expired>>

Publish ==
    \E byOwner \in BOOLEAN :
      /\ Serving /\ db.catalogs < 2
      /\ db' = [db EXCEPT !.catalogs = @ + 1, !.owned = byOwner]
      /\ UNCHANGED <<up, files, lock, release, script, selected, unchecked,
                     counters, history>>

-----------------------------------------------------------------------------
(***************************************************************************)
(* server-backup.sh, run by another script or by the timer.  A dump is in  *)
(* place before it is counted and sealed; the counts are read by a         *)
(* transaction of their own.                                               *)
(***************************************************************************)
LockForBackup(s) ==
    /\ script[s].at = "lock" /\ lock = None
    /\ lock' = s
    /\ Goes(s, "dump")
    /\ UNCHANGED <<db, up, files, release, selected, unchecked, counters, history>>

\* Mutant: a backup takes the name of the last one.
DumpOver(s) ==
    /\ script[s].at = "dump"
    /\ files' = [files EXCEPT ![Len(files)] =
         [db |-> db, counts |-> NoMeta, sealed |-> FALSE, cos |-> FALSE,
          imported |-> FALSE, kept |-> TRUE]]
    /\ script' = [script EXCEPT ![s].at = "count", ![s].made = Len(files)]
    /\ UNCHANGED <<db, up, lock, release, selected, unchecked, counters, history>>

Dump(s) ==
    /\ script[s].at = "dump" /\ Len(files) < MaxBackups
    /\ files' = Append(files,
         [db |-> db, counts |-> NoMeta, sealed |-> FALSE, cos |-> FALSE,
          imported |-> FALSE, kept |-> TRUE])
    /\ script' = [script EXCEPT ![s].at = "count", ![s].made = Len(files) + 1]
    /\ UNCHANGED <<db, up, lock, release, selected, unchecked, counters, history>>

Count(s) ==
    /\ script[s].at = "count"
    /\ files' = [files EXCEPT ![script[s].made].counts = Counts(db),
                              ![script[s].made].sealed = TRUE]
    /\ Goes(s, "check")
    /\ UNCHANGED <<db, up, lock, release, selected, unchecked, counters, history>>

\* Mutant: an upload that failed is no failure.
BackupToCosOrNot(s) ==
    files' \in {files, [files EXCEPT ![script[s].made].cos = Production]}

\* Upload, read back, verify the copy, leave the marker.
BackupToCos(s) ==
    files' = [files EXCEPT ![script[s].made].cos = Production]

\* The lock is released where the backup took it itself; the last step of a
\* deployment is its second backup.
Check(s) ==
    /\ script[s].at = "check" /\ Verified(script[s].made)
    /\ BackupToCos(s)
    /\ script' = [script EXCEPT ![s] =
         IF @.next = "idle" THEN Idle ELSE [@ EXCEPT !.at = script[s].next]]
    /\ lock' = IF s \in {"scheduled", "deploy"} THEN None ELSE lock
    /\ UNCHANGED <<db, up, release, selected, unchecked, counters, history>>

\* server-scheduled-backup.sh: the backup, and only after it the pruning.
StartScheduled ==
    /\ CanStart("scheduled") /\ lock = None
    /\ lock' = "scheduled"
    /\ script' = [script EXCEPT !["scheduled"].at = "dump",
                                !["scheduled"].next = "prune"]
    /\ UNCHANGED <<db, up, files, release, selected, unchecked, mishaps, history>>

\* A backup that was pruned is no state of its own any more.
Gone ==
    [db |-> Fresh, counts |-> NoMeta, sealed |-> FALSE, cos |-> FALSE,
     imported |-> FALSE, kept |-> FALSE]

\* find looks at the top of the directory only, where no import is.  Any
\* number of the oldest files may have passed the retention time; no script
\* takes as long as that.
Prunable(oldest) ==
    {n \in 1..oldest : files[n].kept /\ ~files[n].imported
                        /\ \A s \in Scripts : script[s].made # n}

\* Mutant: pruning does not take the lock.
PruneUnlocked ==
    /\ script["scheduled"].at = "prune"
    /\ \E oldest \in 0..Len(files) :
         /\ files' = [n \in 1..Len(files) |->
                        IF n \in Prunable(oldest) THEN Gone ELSE files[n]]
         /\ expired' = expired \cup
                          UNION {files[n].db.rows : n \in Prunable(oldest)}
    /\ Ends("scheduled")
    /\ UNCHANGED <<db, up, release, unchecked, counters, writes, exposed>>

Prune ==
    /\ script["scheduled"].at = "prune" /\ lock = None
    /\ \E oldest \in 0..Len(files) :
         /\ files' = [n \in 1..Len(files) |->
                        IF n \in Prunable(oldest) THEN Gone ELSE files[n]]
         /\ expired' = expired \cup
                          UNION {files[n].db.rows : n \in Prunable(oldest)}
    /\ Ends("scheduled")
    /\ UNCHANGED <<db, up, release, unchecked, counters, writes, exposed>>

\* migrate-backup-between-servers.sh: the dump gets its name last, when its
\* checksums are in place.  A source without .meta is the one that makes a
\* difference.
ImportBackup ==
    /\ Len(files) < MaxBackups /\ \A n \in 1..Len(files) : ~files[n].imported
    /\ files' = Append(files,
         [db |-> Fresh, counts |-> NoMeta, sealed |-> TRUE, cos |-> FALSE,
          imported |-> TRUE, kept |-> TRUE])
    /\ UNCHANGED <<db, up, lock, release, script, selected, unchecked, counters, history>>

-----------------------------------------------------------------------------
(***************************************************************************)
(* What clear and restore share: the operator confirms twice, then the     *)
(* application is stopped; at the end it is started and asked for its      *)
(* health.                                                                 *)
(***************************************************************************)
\* The script verifies its own backup once more before it asks.
Confirm(s) ==
    /\ script[s].at = "confirm" /\ Verified(script[s].made)
    /\ Goes(s, "stop")
    /\ UNCHANGED <<db, up, files, lock, release, selected, unchecked, counters, history>>

Stop(s) ==
    /\ script[s].at = "stop"
    /\ up' = FALSE
    /\ Goes(s, "stopped")
    /\ UNCHANGED <<db, files, lock, release, selected, unchecked, counters, history>>

\* services_stopped=1, once compose stop has returned.
NoteStopped(s) ==
    /\ script[s].at = "stopped"
    /\ Goes(s, IF s = "clear" THEN "clear" ELSE "drop")
    /\ UNCHANGED <<db, up, files, lock, release, selected, unchecked, counters, history>>

Mishap ==
    /\ mishaps < MaxMishaps
    /\ mishaps' = mishaps + 1

\* What docker compose leaves: what it was told to, or the opposite.
Compose(running) ==
    \/ up' = running /\ UNCHANGED mishaps
    \/ up' = ~running /\ Mishap

Start(s) ==
    /\ script[s].at = "start"
    /\ up' = TRUE
    /\ Goes(s, "health")
    /\ UNCHANGED <<db, files, lock, release, selected, unchecked, counters, history>>

\* A deployment makes a second backup when it is healthy.
Health(s) ==
    /\ script[s].at = "health"
    /\ IF s = "deploy"
         THEN /\ script' = [script EXCEPT ![s].at = "lock", ![s].next = "idle"]
              /\ UNCHANGED <<lock, selected>>
         ELSE Ends(s)
    /\ UNCHANGED <<db, up, files, release, unchecked, counters, history>>

-----------------------------------------------------------------------------
(***************************************************************************)
(* server-backup-and-clear-user-data.sh.                                   *)
(***************************************************************************)
\* No catalog that stays may refer to a user who goes.
StartClear ==
    /\ CanStart("clear") /\ lock = None
    /\ db.state = "whole" /\ ~db.owned
    /\ lock' = "clear"
    /\ script' = [script EXCEPT !["clear"] =
         [@ EXCEPT !.at = "dump", !.next = "confirm", !.catalogs = db.catalogs]]
    /\ UNCHANGED <<db, up, files, release, selected, unchecked, mishaps, history>>

\* One transaction: it fails where an owner has published since.
Clear ==
    /\ script["clear"].at = "clear" /\ db.state = "whole" /\ ~db.owned
    /\ db' = [db EXCEPT !.rows = {}]
    /\ unchecked' = TRUE
    /\ Goes("clear", "audit")
    /\ UNCHANGED <<up, files, lock, release, selected, counters, history>>

\* Every table is empty and the catalog's fingerprint is what it was.
Audit ==
    /\ script["clear"].at = "audit"
    /\ db.rows = {} /\ db.catalogs = script["clear"].catalogs
    /\ unchecked' = FALSE
    /\ Goes("clear", "start")
    /\ UNCHANGED <<db, up, files, lock, release, selected, counters, history>>

-----------------------------------------------------------------------------
(***************************************************************************)
(* server-restore-backup.sh.                                               *)
(***************************************************************************)
StartRestore ==
    /\ CanStart("restore") /\ lock = None
    /\ \E n \in 1..Len(files) :
         /\ Verified(n)
         /\ selected' = n
    /\ lock' = "restore"
    /\ script' = [script EXCEPT !["restore"] =
         [@ EXCEPT !.at = "dump", !.next = "confirm"]]
    /\ UNCHANGED <<db, up, files, release, unchecked, mishaps, history>>

RestoreDump ==
    /\ script["restore"].at = "drop" /\ Verified(selected)
    /\ db' = files[selected].db
    /\ unchecked' = TRUE
    /\ Goes("restore", "migrate")
    /\ UNCHANGED <<up, files, lock, release, selected, counters, history>>

\* dropdb and pg_restore leave when they do not finish: no table, or some tables.
Torn == {[Fresh EXCEPT !.state = state] : state \in {"empty", "partial"}}

\* What a restore leaves that is cut off: of the safety backup perhaps all,
\* but not migrated.
CutOff ==
    \/ db' \in {db} \cup Torn
    \/ script["restore"].at = "recover" /\ db' = files[script["restore"].made].db

\* restore_dump failed.  When it is the safety backup that was restored, or
\* could not be migrated, the script gives up, and its exit tries to start
\* the application.
RestoreFails ==
    /\ script["restore"].at \in {"drop", "recover"}
    /\ CutOff
    /\ unchecked' = (unchecked \/ db' # db)
    /\ IF script["restore"].at = "drop"
         THEN /\ Compose(FALSE) /\ Goes("restore", "recover")
              /\ UNCHANGED <<lock, selected>>
         ELSE Compose(TRUE) /\ Ends("restore")
    /\ UNCHANGED <<files, release, starts, history>>

\* node-pg-migrate runs what the database misses, in one transaction.
Migrated(d) ==
    IF d.state = "empty" THEN [Fresh EXCEPT !.schema = release.current]
    ELSE [d EXCEPT !.schema = IF @ < release.current THEN release.current ELSE @]

Migrate(s) ==
    /\ script[s].at = "migrate" /\ db.state # "partial"
    /\ db' = Migrated(db)
    /\ Goes(s, IF s = "restore" THEN "match" ELSE "start")
    /\ UNCHANGED <<up, files, lock, release, selected, unchecked, counters, history>>

MetadataMatches ==
    /\ script["restore"].at = "match"
    /\ files[selected].counts \in {NoMeta, Counts(db)}
    /\ unchecked' = FALSE
    /\ Goes("restore", "start")
    /\ UNCHANGED <<db, up, files, lock, release, selected, counters, history>>

\* The safety backup is restored and migrated, and the application started.
RollbackToSafety ==
    LET safety == script["restore"].made
    IN  /\ script["restore"].at = "recover" /\ Verified(safety)
        /\ files[safety].db.state # "partial"
        /\ db' = Migrated(files[safety].db)
        /\ unchecked' = FALSE
        /\ Compose(TRUE)
        /\ Ends("restore")
        /\ UNCHANGED <<files, release, starts, history>>

-----------------------------------------------------------------------------
(***************************************************************************)
(* server-deploy.sh, run by server-upgrade.sh, which keeps the old         *)
(* selection, or by publish-from-mac.sh, which does not.  It takes the     *)
(* lock for its backups only.                                              *)
(***************************************************************************)
\* server-deploy.sh backs up a database that has tables, and only that.
DeployBackup(upgrade) ==
    script' = [script EXCEPT !["deploy"].next = "migrate",
         !["deploy"].at = IF db.state = "empty" THEN "migrate" ELSE "lock",
         !["deploy"].undo = upgrade]

StartUpgrade ==
    release' = [current |-> release.current + 1, previous |-> release.current]

StartPublished ==
    release' = [release EXCEPT !.current = @ + 1]

StartDeploy ==
    /\ CanStart("deploy") /\ release.current < MaxImages
    /\ \/ StartUpgrade /\ DeployBackup(TRUE)
       \/ StartPublished /\ DeployBackup(FALSE)
    /\ UNCHANGED <<db, up, files, lock, selected, unchecked, mishaps, history>>

\* server-rollback.sh: the images selected before the last upgrade.
Rollback ==
    /\ release.previous \notin {0, release.current}
    /\ release' = [release EXCEPT !.current = release.previous]
    /\ Compose(TRUE)
    /\ UNCHANGED <<db, files, lock, script, selected, unchecked, starts, history>>

-----------------------------------------------------------------------------
(***************************************************************************)
(* A command of a script fails, or the operator does not confirm.          *)
(***************************************************************************)
ServicesStopped(s) ==
    s \in {"clear", "restore"} /\ script[s].at \in {"clear", "audit", "start", "health"}

\* Mutant: the exit only cleans up.
ExitAsIs(s) ==
    /\ UNCHANGED <<up, mishaps>>
    /\ Ends(s)
    /\ UNCHANGED release

\* recover_services and cleanup.  The application is started if the script
\* noted that it had stopped it; a compose stop that fails half way, or is
\* interrupted, was not noted.
Exit(s) ==
    /\ \/ ServicesStopped(s) /\ Compose(TRUE)
       \/ script[s].at = "stopped" /\ UNCHANGED up /\ Mishap
       \/ s = "deploy" /\ script[s].at = "start" /\ Compose(up)
       \/ /\ ~ServicesStopped(s) /\ script[s].at # "stopped"
          /\ UNCHANGED <<up, mishaps>>
    /\ Ends(s)
    /\ UNCHANGED release

\* rollback_to_safety begins by stopping what runs.
RestoreFailsLater ==
    /\ Compose(FALSE)
    /\ Goes("restore", "recover")
    /\ UNCHANGED <<lock, release, selected>>

UpgradeFails ==
    /\ Compose(TRUE)
    /\ release' = [release EXCEPT !.current = release.previous]
    /\ Ends("deploy")

Fail(s) ==
    /\ Running(s)
    /\ ~(s = "restore" /\ script[s].at \in {"drop", "recover"})
    /\ CASE s = "restore" /\ script[s].at \in {"migrate", "match", "health"} ->
              RestoreFailsLater
         [] s = "deploy" /\ script[s].undo -> UpgradeFails
         [] OTHER -> Exit(s)
    /\ UNCHANGED <<db, files, unchecked, starts, history>>

\* A script is killed: what it stopped stays stopped, what it selected stays
\* selected.  Elsewhere a kill is no different from a failure.
Crash(s) ==
    /\ \/ ServicesStopped(s) \/ script[s].undo
       \/ script[s].at \in {"stopped", "drop", "recover", "migrate", "match"}
    /\ Mishap
    /\ IF s = "restore" /\ script[s].at \in {"drop", "recover"}
         THEN CutOff /\ unchecked' = TRUE
         ELSE UNCHANGED <<db, unchecked>>
    /\ Ends(s)
    /\ UNCHANGED <<up, files, release, starts, history>>

-----------------------------------------------------------------------------
Backup(s) == LockForBackup(s) \/ Dump(s) \/ Count(s) \/ Check(s)

Scheduled == StartScheduled \/ Prune

RestoreSteps == RestoreDump \/ RestoreFails \/ MetadataMatches \/ RollbackToSafety

\* What a script does by itself once it was started and confirmed.
Proceed(s) ==
    \/ Backup(s) \/ Fail(s)
    \/ s \in {"clear", "restore"} /\ (Stop(s) \/ NoteStopped(s))
    \/ s \in {"clear", "restore", "deploy"} /\ (Start(s) \/ Health(s))
    \/ s \in {"restore", "deploy"} /\ Migrate(s)
    \/ s = "scheduled" /\ Prune
    \/ s = "clear" /\ (Clear \/ Audit)
    \/ s = "restore" /\ RestoreSteps

Next ==
    \/ Write \/ Publish
    \/ StartScheduled \/ StartClear \/ StartRestore \/ StartDeploy
    \/ Rollback \/ ImportBackup
    \/ \E s \in {"clear", "restore"} : Confirm(s)
    \/ \E s \in Scripts : Proceed(s) \/ Crash(s)

Spec == Init /\ [][Next]_vars

(***************************************************************************)
(* A command ends, in success or failure; whether an operator confirms is  *)
(* the operator's business.                                                *)
(***************************************************************************)
FairSpec ==
    Spec /\ \A s \in Scripts :
              WF_vars(Proceed(s) /\ script[s].at # "confirm")

-----------------------------------------------------------------------------
(***************************************************************************)
(* Properties.                                                             *)
(***************************************************************************)
(***************************************************************************)
(* Whatever scripts run, fail or are killed, a row that was ever committed *)
(* is in the database or in a backup that would be accepted, unless its    *)
(* retention ended or it was committed after a clear or restore had made   *)
(* its backup (server-restore-backup.sh 24-47).                            *)
(***************************************************************************)
LossIsBounded ==
    \A w \in 1..writes :
      \/ w \in db.rows \cup expired \cup exposed
      \/ \E n \in 1..Len(files) : Verified(n) /\ w \in files[n].db.rows

(***************************************************************************)
(* While a restore is under way, the backup it was given and the safety    *)
(* backup it made are there, checksums and all: pruning takes the lock.    *)
(***************************************************************************)
SourcesKept ==
    Running("restore") =>
      /\ Verified(selected)
      /\ script["restore"].at \notin {"dump", "count"} =>
           Verified(script["restore"].made)

(***************************************************************************)
(* Rows go, and the schema changes, only while a script runs that has made *)
(* a backup before, uploaded and read back in production.  A database      *)
(* without tables needs none, and a deployment that found it without them  *)
(* makes none: what a restore brings before it migrates, it migrates.      *)
(***************************************************************************)
Replaced ==
    \/ ~(db.rows \subseteq db'.rows)
    \/ <<db.schema, db.state>> # <<db.schema, db.state>>'

BackupFirst ==
    [][Replaced /\ db.state # "empty" =>
         \/ \E s \in Scripts : script[s].made # 0 /\ Complete(script[s].made)
         \/ script["deploy"].at = "migrate" /\ script["deploy"].made = 0]_vars

(***************************************************************************)
(* An application that is down is up again some day, whatever commands of  *)
(* a script fail at whatever step, as long as no script is killed and      *)
(* compose itself stops and starts the containers.  The rest is left to    *)
(* the operator: the trap ignores a compose up that fails, and does not    *)
(* know of a compose stop that was not completed                           *)
(* (server-restore-backup.sh 39-48 and 98-124, the same of clear).         *)
(***************************************************************************)
ServicesReturn == (~up /\ mishaps = 0) ~> (up \/ mishaps > 0)

(***************************************************************************)
(* The application runs on data that were replaced only when they passed   *)
(* the checks of the script.                                               *)
(***************************************************************************)
StoppedUntilChecked == up => ~unchecked
=============================================================================
