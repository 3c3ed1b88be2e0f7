---------------------------- MODULE BackupRestore ----------------------------
(* Backup and restore (src/src/lib/admin/backup-service.mjs): the database    *)
(* file with the ledger of backups in it, the archives on disk, and           *)
(* restoreBackup, which takes a safety backup and then replaces the database  *)
(* under the running process.  The code is synchronous, so nothing runs       *)
(* beside it; but every step may fail, and the process may end between two.   *)
(* Archives are numbered in the order they are made.                          *)
EXTENDS Naturals, FiniteSets

CONSTANTS
  MaxArchives,   \* archives that are made (bound)
  MaxWrites,     \* changes of the gateway's data (bound)
  Retentions,    \* values of retention the operator sets
  DefaultKeep,   \* retention of a new database
  KeepPre,       \* pre_restore backups that retention keeps
  NoDb,          \* no file
  Torn,          \* a file that was being copied
  Partial,       \* an archive that was cut short
  Gone           \* the VM files are deleted

ASSUME BackupAssumption ==
  /\ MaxArchives \in Nat /\ MaxWrites \in Nat
  /\ Retentions \subseteq Nat \ {0} /\ DefaultKeep \in Nat \ {0} /\ KeepPre \in Nat \ {0}
  /\ Gone \notin Nat

Archives == 1..MaxArchives
Gens     == 0..MaxWrites
Kinds    == {"none", "ordinary", "imported", "pre_restore"}

(* A database: its data, backup_records and the retention setting.            *)
Database == [gen : Gens, ledger : [Archives -> Kinds], keep : Retentions \cup {DefaultKeep}]
Snapshot == [db : Database, vms : Gens]

ASSUME MarkersAssumption ==
  NoDb \notin Database /\ Torn \notin Database /\ NoDb # Torn /\ Partial \notin Snapshot

NoRows == [n \in Archives |-> "none"]
Empty  == [gen |-> 0, ledger |-> NoRows, keep |-> DefaultKeep]

VARIABLES
  db,        \* kin.db, if the process has it open or not
  aside,     \* kin.db.pre-restore
  vms,       \* the VM and config files: whose data they are
  files,     \* the archives on disk
  content,   \* what each archive holds
  made,      \* the number of archives made
  up,        \* the process: up, closed (it has lost its database) or down
  step,      \* where restoreBackup is
  target,    \* the archive it restores
  pre,       \* the safety backup of the latest restore
  before,    \* history: the data that restore replaces
  dropped,   \* history: the operator deleted the safety backup
  cut        \* history: a backup or a restore was cut short, and no restore came through since

disk == <<db, aside, vms, files, content, made>>
vars == <<disk, up, step, target, pre, before, dropped, cut>>

Init ==
  /\ db = Empty /\ aside = NoDb /\ vms = 0
  /\ files = {} /\ content = [n \in Archives |-> Partial] /\ made = 0
  /\ up = "up" /\ step = "idle" /\ target = 0 /\ pre = 0
  /\ before = 0 /\ dropped = FALSE /\ cut = FALSE

Idle == up = "up" /\ step = "idle"

-----------------------------------------------------------------------------
(* The ledger.                                                                *)

Rows(ledger) == {n \in Archives : ledger[n] # "none"}

(* mutant: the oldest are kept                                                *)
BeyondOldest(rows, keep) == {n \in rows : Cardinality({m \in rows : m < n}) >= keep}

(* The rows beyond the newest.                                                *)
Beyond(rows, keep) == {n \in rows : Cardinality({m \in rows : m > n}) >= keep}

(* beyondRetention and preRestoreBeyond                                       *)
BeyondRetention(d) ==
  Beyond({n \in Archives : d.ledger[n] \in {"ordinary", "imported"}}, d.keep)
    \cup Beyond({n \in Archives : d.ledger[n] = "pre_restore"}, KeepPre)

Without(ledger, gone) == [n \in Archives |-> IF n \in gone THEN "none" ELSE ledger[n]]

(* The row the target was chosen by, as the safety backup has it.             *)
ChosenBy == content[pre].db.ledger[target]

(* mutant: only the two archives at hand are listed again                     *)
RegisteredKnown(ledger) ==
  [n \in Archives |-> IF ledger[n] # "none" \/ n \notin files \cap {pre, target} THEN ledger[n]
                      ELSE IF n = pre THEN "pre_restore" ELSE ChosenBy]

(* _registerOrphanArchives: the archives the restored ledger does not know.   *)
Registered(ledger) ==
  [n \in Archives |-> IF ledger[n] # "none" \/ n \notin files THEN ledger[n]
                      ELSE IF n = pre THEN "pre_restore"
                      ELSE IF n = target THEN ChosenBy ELSE "imported"]

-----------------------------------------------------------------------------
(* createBackup.                                                              *)

NewArchive == made + 1

(* The archive holds the database as it is before its own row is written.     *)
Archived(what) ==
  /\ made < MaxArchives /\ made' = NewArchive
  /\ content' = [content EXCEPT ![NewArchive] = what]

Whole == [db |-> db, vms |-> vms]

(* The row is written, then applyRetention deletes what is beyond.            *)
Recorded(kind) ==
  LET d    == [db EXCEPT !.ledger[NewArchive] = kind]
      drop == BeyondRetention(d)
  IN  /\ db' = [d EXCEPT !.ledger = Without(d.ledger, drop)]
      /\ files' = (files \cup {NewArchive}) \ drop

CreateBackup ==
  /\ Idle /\ Archived(Whole) /\ Recorded("ordinary")
  /\ UNCHANGED <<aside, vms, up, step, target, pre, before, dropped, cut>>

(* tar fails, for the operator's backup or for the safety backup of a         *)
(* restore, and leaves what it has written.                                   *)
BackupFails ==
  /\ Idle /\ Archived(Partial) /\ files' = files \cup {NewArchive}
  /\ cut' = TRUE
  /\ UNCHANGED <<db, aside, vms, up, step, target, pre, before, dropped>>

(* The process ends while tar writes, or before the row is written.           *)
CrashInBackup ==
  /\ Idle /\ (Archived(Partial) \/ Archived(Whole)) /\ files' = files \cup {NewArchive}
  /\ up' = "down" /\ cut' = TRUE
  /\ UNCHANGED <<db, aside, vms, step, target, pre, before, dropped>>

-----------------------------------------------------------------------------
(* restoreBackup.                                                             *)

Goto(where) == step' = where

(* An exception: before the database is closed the process goes on, after it  *)
(* the process has no database until it is started again.                     *)
Fails(closed) ==
  /\ Goto("idle") /\ up' = IF closed THEN "closed" ELSE up
  /\ cut' = (cut \/ closed)
  /\ UNCHANGED <<target, pre, before, dropped>>

(* The record is there, so is the file, and the checksum is right, even that  *)
(* of an archive that was cut short; then the safety backup is made.          *)
BeginRestore(n) ==
  /\ Idle /\ db.ledger[n] # "none" /\ n \in files
  /\ Archived(Whole) /\ Recorded("pre_restore")
  /\ Goto("made") /\ target' = n /\ pre' = NewArchive
  /\ before' = db.gen /\ dropped' = FALSE
  /\ UNCHANGED <<aside, vms, up, cut>>

(* tar extracts the target, if it is still there and whole.                   *)
Extract ==
  /\ step = "made"
  /\ IF target \in files /\ content[target] # Partial
     THEN Goto("extracted") /\ UNCHANGED <<up, target, pre, before, dropped, cut>>
     ELSE Fails(FALSE)
  /\ UNCHANGED disk

(* The database is closed, and the one set aside by an earlier restore goes.  *)
Close ==
  /\ step = "extracted" /\ Goto("closed") /\ aside' = NoDb
  /\ UNCHANGED <<db, vms, files, content, made, up, target, pre, before, dropped, cut>>

(* The live database is set aside; if that fails, the copy goes over it.      *)
SetAside ==
  /\ step = "closed" /\ Goto("aside")
  /\ \/ aside' = db /\ db' = NoDb
     \/ UNCHANGED <<aside, db>>
  /\ UNCHANGED <<vms, files, content, made, up, target, pre, before, dropped, cut>>

CopyDb ==
  /\ step = "aside"
  /\ \/ Goto("copied") /\ db' = content[target].db /\ UNCHANGED <<up, target, pre, before, dropped, cut>>
     \/ Fails(TRUE) /\ db' = NoDb
  /\ UNCHANGED <<aside, vms, files, content, made>>

(* The VM files are deleted, then copied from the archive.                    *)
DeleteVms ==
  /\ step = "copied" /\ Goto("vms") /\ vms' = Gone
  /\ UNCHANGED <<db, aside, files, content, made, up, target, pre, before, dropped, cut>>

CopyVms ==
  /\ step = "vms"
  /\ \/ Goto("reopen") /\ vms' = content[target].vms /\ UNCHANGED <<up, target, pre, before, dropped, cut>>
     \/ Fails(TRUE) /\ UNCHANGED vms
  /\ UNCHANGED <<db, aside, files, content, made>>

(* mutant: VM files that are missing are not written again                    *)
ReconciledNever(d) == vms

(* reconcileVms: files that are missing are rebuilt from the database.        *)
Reconciled(d) == IF vms = Gone THEN d.gen ELSE vms

(* The database is opened and migrated, or that fails; the archives are       *)
(* listed; the stores are bound anew, and a store that cannot be only makes   *)
(* the restore report a failure.                                              *)
Reopen ==
  /\ step = "reopen"
  /\ \/ /\ Goto("idle") /\ db' = [db EXCEPT !.ledger = Registered(@)] /\ vms' = Reconciled(db)
        /\ cut' = FALSE /\ UNCHANGED <<up, target, pre, before, dropped>>
     \/ Fails(TRUE) /\ UNCHANGED <<db, vms>>
  /\ UNCHANGED <<aside, files, content, made>>

(* The process ends between two steps, or in the middle of the copy.          *)
Crash ==
  /\ step # "idle" /\ Goto("idle") /\ up' = "down"
  /\ db' \in IF step = "aside" THEN {db, Torn} ELSE {db}
  /\ cut' = TRUE
  /\ UNCHANGED <<aside, vms, files, content, made, target, pre, before, dropped>>

(* A new process opens the database, or makes one where there is none.  It    *)
(* does not look at kin.db.pre-restore, nor at the archives.  On a file that  *)
(* was cut short it does not start.                                           *)
Restart ==
  /\ up # "up" /\ db # Torn /\ up' = "up"
  /\ db' = IF db = NoDb THEN Empty ELSE db
  /\ vms' = Reconciled(db')
  /\ UNCHANGED <<aside, files, content, made, step, target, pre, before, dropped, cut>>

-----------------------------------------------------------------------------
(* The rest of the panel, and the gateway at work.                            *)

(* remove                                                                     *)
RemoveBackup(n) ==
  /\ Idle /\ db.ledger[n] # "none"
  /\ db' = [db EXCEPT !.ledger[n] = "none"] /\ files' = files \ {n}
  /\ dropped' = (dropped \/ n = pre)
  /\ UNCHANGED <<aside, vms, content, made, up, step, target, pre, before, cut>>

(* updateSchedule; nothing is deleted before the next backup.                 *)
UpdateSchedule(keep) ==
  /\ Idle /\ db' = [db EXCEPT !.keep = keep]
  /\ UNCHANGED <<aside, vms, files, content, made, up, step, target, pre, before, dropped, cut>>

Write ==
  /\ Idle /\ db.gen < MaxWrites
  /\ db' = [db EXCEPT !.gen = @ + 1] /\ vms' = db.gen + 1
  /\ UNCHANGED <<aside, files, content, made, up, step, target, pre, before, dropped, cut>>

Next ==
  \/ CreateBackup \/ BackupFails \/ CrashInBackup
  \/ \E n \in Archives : BeginRestore(n) \/ RemoveBackup(n)
  \/ Extract \/ Close \/ SetAside \/ CopyDb \/ DeleteVms \/ CopyVms \/ Reopen
  \/ Crash \/ Restart
  \/ \E keep \in Retentions : UpdateSchedule(keep)
  \/ Write

Spec == Init /\ [][Next]_vars

-----------------------------------------------------------------------------
(* Properties.                                                                *)

(* Every variable has its type; the VM files are there whenever the gateway   *)
(* runs, although a restore deletes them and may be cut short right after.    *)
TypeOK ==
  /\ db \in Database \cup {NoDb, Torn} /\ aside \in Database \cup {NoDb}
  /\ vms \in Gens \cup {Gone} /\ (Idle => db \in Database /\ vms \in Gens)
  /\ made \in 0..MaxArchives /\ files \subseteq 1..made
  /\ content \in [Archives -> Snapshot \cup {Partial}]
  /\ up \in {"up", "closed", "down"}
  /\ step \in {"idle", "made", "extracted", "closed", "aside", "copied", "vms", "reopen"}
  /\ target \in 0..made /\ pre \in 0..made /\ before \in Gens
  /\ dropped \in BOOLEAN /\ cut \in BOOLEAN

(* What a restore replaces can be had back: its safety backup stays on disk,  *)
(* whole and with the data of that moment, wherever the restore fails or the  *)
(* process ends, and whatever is backed up afterwards, until the next restore *)
(* or until the operator deletes it.                                          *)
SafetyBackupStays ==
  pre # 0 /\ ~dropped => pre \in files /\ content[pre] # Partial /\ content[pre].db.gen = before

(* Every archive on disk is in the ledger, although a restore rolls the       *)
(* ledger back to the time of the backup; what a backup or restore that was   *)
(* cut short left unlisted, the next restore that comes through lists again.  *)
ArchivesListed == Idle /\ ~cut => files \subseteq Rows(db.ledger)
=============================================================================
