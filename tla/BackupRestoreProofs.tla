------------------------ MODULE BackupRestoreProofs ------------------------
(* Machine-checked theorems about BackupRestore, for any number of archives,  *)
(* writes and retention settings.                                             *)
EXTENDS BackupRestore, FiniteSetTheorems, TLAPS

-----------------------------------------------------------------------------
(* The inductive invariant.                                                   *)

(* Where restoreBackup is tells what it has done; a process that has lost its *)
(* database or has ended was cut short.                                       *)
RestoreUnderWay ==
  /\ up # "up" => cut /\ step = "idle"
  /\ step # "idle" => /\ ~dropped /\ pre \in Archives /\ target \in Archives /\ target < pre
                      /\ content[pre].db.ledger[target] # "none"
  /\ step \in {"made", "extracted", "closed"} => db \in Database /\ vms \in Gens
  /\ step \notin {"idle", "made"} => content[target] # Partial
  /\ step \in {"copied", "vms", "reopen"} => db = content[target].db
  /\ step = "reopen" => vms \in Gens

(* In a ledger the latest safety backup is the newest of its kind, and        *)
(* nothing is listed that was not made.                                       *)
Ordered(ledger) ==
  \A n \in Archives : /\ n > made => ledger[n] = "none"
                      /\ n > pre => ledger[n] # "pre_restore"
                      /\ n = pre => ledger[n] \in {"none", "pre_restore"}

LedgerOrdered == db \in Database => Ordered(db.ledger)

(* An archive lists older ones only.                                          *)
ArchivesOlder ==
  \A m, n \in Archives : content[m] # Partial /\ n >= m => content[m].db.ledger[n] = "none"

(* ArchivesListed, from the safety backup of a restore on.                    *)
Listed == up = "up" /\ step \in {"idle", "made"} /\ ~cut => files \subseteq Rows(db.ledger)

IInv ==
  /\ TypeOK /\ SafetyBackupStays
  /\ RestoreUnderWay /\ LedgerOrdered /\ ArchivesOlder /\ Listed

-----------------------------------------------------------------------------
(* The operators of the model.                                                *)

LEMMA Numbers ==
  /\ MaxArchives \in Nat /\ MaxWrites \in Nat /\ KeepPre \in Nat /\ KeepPre >= 1
  /\ \A n : n \in Archives <=> n \in Nat /\ 1 <= n /\ n <= MaxArchives
BY BackupAssumption DEF BackupAssumption, Archives

LEMMA EmptyFacts == Empty \in Database /\ \A n \in Archives : Empty.ledger[n] = "none"
<1>1. 0 \in Gens /\ NoRows \in [Archives -> Kinds]
  BY Numbers DEF Gens, NoRows, Kinds
<1> QED  BY <1>1 DEF Empty, Database, NoRows

(* Retention never reaches the newest safety backup.                          *)
LEMMA RetentionFacts ==
  ASSUME NEW d \in Database, NEW p \in Archives,
         d.ledger[p] \in {"none", "pre_restore"},
         \A n \in Archives : n > p => d.ledger[n] # "pre_restore"
  PROVE  p \notin BeyondRetention(d)
<1> DEFINE rows == {n \in Archives : d.ledger[n] = "pre_restore"}
<1>1. {m \in rows : m > p} = {}
  OBVIOUS
<1>2. Cardinality({m \in rows : m > p}) = 0
  BY <1>1, FS_EmptySet
<1>3. p \notin Beyond(rows, KeepPre)
  BY <1>2, Numbers DEF Beyond
<1>4. p \notin Beyond({n \in Archives : d.ledger[n] \in {"ordinary", "imported"}}, d.keep)
  BY DEF Beyond
<1> QED  BY <1>3, <1>4 DEF BeyondRetention

(* The row of a new archive is written and retention applied.                 *)
LEMMA RecordedFacts ==
  ASSUME TypeOK, db \in Database, NEW kind \in {"ordinary", "pre_restore"},
         made < MaxArchives, Recorded(kind)
  PROVE  /\ NewArchive \in Archives /\ NewArchive = made + 1
         /\ db' \in Database /\ db'.gen = db.gen
         /\ \A n \in Archives : \/ db'.ledger[n] = "none"
                                \/ n # NewArchive /\ db'.ledger[n] = db.ledger[n]
                                \/ n = NewArchive /\ db'.ledger[n] = kind
         /\ files' \subseteq files \cup {NewArchive}
         /\ \A n \in files' : db'.ledger[n] = IF n = NewArchive THEN kind ELSE db.ledger[n]
         /\ \A p \in Archives :
              /\ p \in files \cup {NewArchive}
              /\ IF p = NewArchive THEN kind = "pre_restore"
                 ELSE db.ledger[p] \in {"none", "pre_restore"}
              /\ \A n \in Archives : n > p => IF n = NewArchive THEN kind # "pre_restore"
                                              ELSE db.ledger[n] # "pre_restore"
              => p \in files'
<1> DEFINE d == [db EXCEPT !.ledger[NewArchive] = kind]
           drop == BeyondRetention(d)
<1>1. NewArchive \in Archives /\ NewArchive = made + 1 /\ files \subseteq Archives
  BY Numbers DEF NewArchive, TypeOK, Archives
<1>2. kind \in Kinds /\ db.ledger \in [Archives -> Kinds] /\ db.gen \in Gens
  BY DEF Kinds, Database
<1>3. /\ d \in Database /\ d.gen = db.gen
      /\ \A n \in Archives : d.ledger[n] = IF n = NewArchive THEN kind ELSE db.ledger[n]
  BY <1>1, <1>2 DEF Database
<1>4. db' = [d EXCEPT !.ledger = Without(d.ledger, drop)] /\ files' = (files \cup {NewArchive}) \ drop
  BY DEF Recorded
<1> HIDE DEF d
<1>5. /\ Without(d.ledger, drop) \in [Archives -> Kinds]
      /\ \A n \in Archives : Without(d.ledger, drop)[n] = IF n \in drop THEN "none" ELSE d.ledger[n]
  BY <1>3 DEF Without, Kinds, Database
<1> HIDE DEF drop
<1>6. /\ db' \in Database /\ db'.gen = db.gen
      /\ \A n \in Archives : db'.ledger[n] = IF n \in drop THEN "none" ELSE d.ledger[n]
  BY <1>3, <1>4, <1>5 DEF Database
<1>7. ASSUME NEW p \in Archives, p \in files \cup {NewArchive},
             IF p = NewArchive THEN kind = "pre_restore" ELSE db.ledger[p] \in {"none", "pre_restore"},
             \A n \in Archives : n > p => IF n = NewArchive THEN kind # "pre_restore"
                                          ELSE db.ledger[n] # "pre_restore"
      PROVE  p \in files'
  <2>1. d.ledger[p] \in {"none", "pre_restore"}
    BY <1>3, <1>7
  <2>2. \A n \in Archives : n > p => d.ledger[n] # "pre_restore"
    BY <1>3, <1>7
  <2>3. p \notin drop
    BY <1>3, <2>1, <2>2, RetentionFacts DEF drop
  <2> QED  BY <1>4, <1>7, <2>3
<1>8. \A n \in files' : db'.ledger[n] = IF n = NewArchive THEN kind ELSE db.ledger[n]
  BY <1>1, <1>3, <1>4, <1>6
<1> QED  BY <1>1, <1>3, <1>4, <1>6, <1>7, <1>8

(* A new archive leaves the earlier ones as they are.                         *)
LEMMA ArchivedFacts ==
  ASSUME TypeOK, ArchivesOlder, NEW what \in Snapshot \cup {Partial}, Archived(what),
         what # Partial => \A n \in Archives : n > made => what.db.ledger[n] = "none"
  PROVE  /\ made < MaxArchives /\ made' = made + 1 /\ made' \in 0..MaxArchives
         /\ NewArchive \in Archives /\ NewArchive = made + 1
         /\ content' \in [Archives -> Snapshot \cup {Partial}] /\ content'[NewArchive] = what
         /\ \A n \in Archives : n # NewArchive => content'[n] = content[n]
         /\ ArchivesOlder'
<1>1. made < MaxArchives /\ made' = made + 1 /\ NewArchive = made + 1 /\ made \in Nat
  BY Numbers DEF Archived, NewArchive, TypeOK
<1>2. NewArchive \in Archives /\ made' \in 0..MaxArchives
  BY <1>1, Numbers
<1>3. /\ content' \in [Archives -> Snapshot \cup {Partial}] /\ content'[NewArchive] = what
      /\ \A n \in Archives : n # NewArchive => content'[n] = content[n]
  BY <1>2 DEF Archived, TypeOK
<1>4. ASSUME NEW m \in Archives, NEW n \in Archives, content'[m] # Partial, n >= m
      PROVE  content'[m].db.ledger[n] = "none"
  <2>1. CASE m = NewArchive
    <3>1. n > made
      BY <1>1, <1>4, <2>1, Numbers
    <3> QED  BY <1>3, <1>4, <2>1, <3>1
  <2>2. CASE m # NewArchive
    BY <1>3, <1>4, <2>2 DEF ArchivesOlder
  <2> QED  BY <2>1, <2>2
<1>5. ArchivesOlder'
  BY <1>4 DEF ArchivesOlder
<1> QED  BY <1>1, <1>2, <1>3, <1>5

(* The gateway between two operations.                                        *)
LEMMA IdleFacts ==
  ASSUME IInv, Idle
  PROVE  /\ db \in Database /\ vms \in Gens /\ up = "up" /\ step = "idle"
         /\ Ordered(db.ledger) /\ Whole \in Snapshot /\ Whole # Partial /\ Whole.db = db
         /\ \A n \in Archives : n > made => db.ledger[n] = "none"
<1>1. db \in Database /\ vms \in Gens /\ up = "up" /\ step = "idle"
  BY DEF IInv, TypeOK, Idle
<1>2. Whole \in Snapshot /\ Whole.db = db
  BY <1>1 DEF Whole, Snapshot
<1> QED  BY <1>1, <1>2, MarkersAssumption DEF MarkersAssumption, IInv, LedgerOrdered, Ordered

-----------------------------------------------------------------------------
(* createBackup.                                                              *)

LEMMA CreateStep == ASSUME IInv, CreateBackup PROVE IInv'
<1>1. /\ Idle /\ Archived(Whole) /\ Recorded("ordinary")
      /\ UNCHANGED <<aside, vms, up, step, target, pre, before, dropped, cut>>
  BY DEF CreateBackup
<1>2. /\ db \in Database /\ vms \in Gens /\ up = "up" /\ step = "idle"
      /\ Ordered(db.ledger) /\ Whole \in Snapshot /\ Whole # Partial /\ Whole.db = db
      /\ \A n \in Archives : n > made => db.ledger[n] = "none"
  BY <1>1, IdleFacts
<1>3. /\ made < MaxArchives /\ made' = made + 1 /\ made' \in 0..MaxArchives
      /\ NewArchive \in Archives /\ NewArchive = made + 1
      /\ content' \in [Archives -> Snapshot \cup {Partial}]
      /\ \A n \in Archives : n # NewArchive => content'[n] = content[n]
      /\ ArchivesOlder'
  BY <1>1, <1>2, ArchivedFacts DEF IInv
<1>4. /\ db' \in Database /\ db'.gen = db.gen
      /\ \A n \in Archives : \/ db'.ledger[n] = "none"
                             \/ n # NewArchive /\ db'.ledger[n] = db.ledger[n]
                             \/ n = NewArchive /\ db'.ledger[n] = "ordinary"
      /\ files' \subseteq files \cup {NewArchive}
      /\ \A n \in files' : db'.ledger[n] = IF n = NewArchive THEN "ordinary" ELSE db.ledger[n]
  BY <1>1, <1>2, <1>3, RecordedFacts DEF IInv
<1>5. made \in Nat /\ pre \in 0..made /\ target \in 0..made /\ files \subseteq 1..made
  BY DEF IInv, TypeOK
<1>6. TypeOK'
  <2>1. files' \subseteq 1..made' /\ pre \in 0..made' /\ target \in 0..made'
    BY <1>3, <1>4, <1>5
  <2> QED  BY <1>1, <1>2, <1>3, <1>4, <2>1 DEF IInv, TypeOK
<1>7. SafetyBackupStays'
  <2> SUFFICES ASSUME pre # 0, ~dropped
               PROVE  pre \in files' /\ content'[pre] # Partial /\ content'[pre].db.gen = before
    BY <1>1 DEF SafetyBackupStays
  <2>1. pre \in files /\ content[pre] # Partial /\ content[pre].db.gen = before
    BY DEF IInv, SafetyBackupStays
  <2>2. pre \in Archives /\ pre # NewArchive
    BY <1>3, <1>5, <2>1, Numbers
  <2>3. pre \in files'
    <3>1. db.ledger[pre] \in {"none", "pre_restore"} /\ \A n \in Archives : n > pre => db.ledger[n] # "pre_restore"
      BY <1>2, <2>2 DEF Ordered
    <3> QED  BY <1>1, <1>2, <1>3, <2>1, <2>2, <3>1, RecordedFacts DEF IInv
  <2> QED  BY <1>3, <2>1, <2>2, <2>3
<1>8. RestoreUnderWay'
  BY <1>1, <1>2 DEF RestoreUnderWay
<1>9. LedgerOrdered'
  <2> SUFFICES ASSUME NEW n \in Archives
               PROVE  /\ n > made' => db'.ledger[n] = "none"
                      /\ n > pre => db'.ledger[n] # "pre_restore"
                      /\ n = pre => db'.ledger[n] \in {"none", "pre_restore"}
    BY <1>1 DEF LedgerOrdered, Ordered
  <2>1. n \in Nat /\ (n > made' => n > made /\ n # NewArchive) /\ (n = pre => n # NewArchive)
    BY <1>3, <1>5, Numbers
  <2> QED  BY <1>2, <1>4, <2>1 DEF Ordered
<1>10. Listed'
  <2>1. ASSUME ~cut PROVE files' \subseteq Rows(db'.ledger)
    <3>1. files \subseteq Rows(db.ledger)
      BY <1>2, <2>1 DEF IInv, Listed
    <3>2. files' \subseteq Archives
      BY <1>3, <1>4, <3>1 DEF Rows
    <3> QED  BY <1>4, <3>1, <3>2 DEF Rows
  <2> QED  BY <1>1, <2>1 DEF Listed
<1> QED  BY <1>3, <1>6, <1>7, <1>8, <1>9, <1>10 DEF IInv

(* tar fails, or the process ends before the row is written.                  *)
LEMMA CutStep == ASSUME IInv, BackupFails \/ CrashInBackup PROVE IInv'
<1>1. /\ Idle /\ files' = files \cup {NewArchive} /\ cut' = TRUE /\ up' \in {up, "down"}
      /\ UNCHANGED <<db, aside, vms, step, target, pre, before, dropped>>
  BY DEF BackupFails, CrashInBackup
<1>2. /\ db \in Database /\ vms \in Gens /\ up = "up" /\ step = "idle"
      /\ Ordered(db.ledger) /\ Whole \in Snapshot /\ Whole # Partial /\ Whole.db = db
      /\ \A n \in Archives : n > made => db.ledger[n] = "none"
  BY <1>1, IdleFacts
<1>3. /\ made < MaxArchives /\ made' = made + 1 /\ made' \in 0..MaxArchives
      /\ NewArchive \in Archives /\ NewArchive = made + 1
      /\ content' \in [Archives -> Snapshot \cup {Partial}]
      /\ \A n \in Archives : n # NewArchive => content'[n] = content[n]
      /\ ArchivesOlder'
  <2>1. PICK what \in {Whole, Partial} : Archived(what)
    BY DEF BackupFails, CrashInBackup
  <2>2. what \in Snapshot \cup {Partial} /\ (what # Partial => \A n \in Archives : n > made => what.db.ledger[n] = "none")
    BY <1>2, <2>1
  <2> QED  BY <2>1, <2>2, ArchivedFacts DEF IInv
<1>4. made \in Nat /\ pre \in 0..made /\ target \in 0..made /\ files \subseteq 1..made
  BY DEF IInv, TypeOK
<1>5. TypeOK'
  <2>1. files' \subseteq 1..made' /\ pre \in 0..made' /\ target \in 0..made'
    BY <1>1, <1>3, <1>4
  <2> QED  BY <1>1, <1>2, <1>3, <2>1 DEF IInv, TypeOK
<1>6. SafetyBackupStays'
  <2>1. pre # 0 => pre \in Archives /\ pre # NewArchive
    BY <1>3, <1>4, Numbers
  <2> QED  BY <1>1, <1>3, <2>1 DEF IInv, SafetyBackupStays
<1>7. RestoreUnderWay'
  BY <1>1, <1>2 DEF RestoreUnderWay
<1>8. LedgerOrdered'
  <2>1. \A n \in Archives : n > made' => n > made
    BY <1>3, <1>4, Numbers
  <2> QED  BY <1>1, <1>2, <2>1 DEF LedgerOrdered, Ordered
<1>9. Listed'
  BY <1>1 DEF Listed
<1> QED  BY <1>3, <1>5, <1>6, <1>7, <1>8, <1>9 DEF IInv

-----------------------------------------------------------------------------
(* restoreBackup.                                                             *)

(* The safety backup becomes the newest of its kind, and lists the target.    *)
LEMMA BeginStep == ASSUME IInv, NEW t \in Archives, BeginRestore(t) PROVE IInv'
<1>1. /\ Idle /\ db.ledger[t] # "none" /\ t \in files /\ Archived(Whole) /\ Recorded("pre_restore")
      /\ step' = "made" /\ target' = t /\ pre' = NewArchive /\ before' = db.gen /\ dropped' = FALSE
      /\ UNCHANGED <<aside, vms, up, cut>>
  BY DEF BeginRestore, Goto
<1>2. /\ db \in Database /\ vms \in Gens /\ up = "up" /\ step = "idle"
      /\ Ordered(db.ledger) /\ Whole \in Snapshot /\ Whole # Partial /\ Whole.db = db
      /\ \A n \in Archives : n > made => db.ledger[n] = "none"
  BY <1>1, IdleFacts
<1>3. /\ made < MaxArchives /\ made' = made + 1 /\ made' \in 0..MaxArchives
      /\ NewArchive \in Archives /\ NewArchive = made + 1
      /\ content' \in [Archives -> Snapshot \cup {Partial}] /\ content'[NewArchive] = Whole
      /\ ArchivesOlder'
  BY <1>1, <1>2, ArchivedFacts DEF IInv
<1>4. /\ db' \in Database
      /\ \A n \in Archives : \/ db'.ledger[n] = "none"
                             \/ n # NewArchive /\ db'.ledger[n] = db.ledger[n]
                             \/ n = NewArchive /\ db'.ledger[n] = "pre_restore"
      /\ files' \subseteq files \cup {NewArchive}
      /\ \A n \in files' : db'.ledger[n] = IF n = NewArchive THEN "pre_restore" ELSE db.ledger[n]
  BY <1>1, <1>2, <1>3, RecordedFacts DEF IInv
<1>5. made \in Nat /\ files \subseteq 1..made /\ t \in 1..made
  <2>1. made \in 0..MaxArchives /\ files \subseteq 1..made
    BY DEF IInv, TypeOK
  <2> QED  BY <1>1, <2>1
<1>6. TypeOK'
  <2>1. files' \subseteq 1..made' /\ pre' \in 0..made' /\ target' \in 0..made'
    BY <1>1, <1>3, <1>4, <1>5
  <2>2. before' \in Gens /\ step' # "idle" /\ dropped' \in BOOLEAN
    BY <1>1, <1>2 DEF Database
  <2> QED  BY <1>1, <1>3, <1>4, <2>1, <2>2 DEF IInv, TypeOK, Idle
<1>7. SafetyBackupStays'
  <2>1. NewArchive \in files'
    <3>1. \A n \in Archives : n > NewArchive => n # NewArchive /\ db.ledger[n] # "pre_restore"
      BY <1>2, <1>3, <1>5, Numbers
    <3> QED  BY <1>1, <1>2, <1>3, <3>1, RecordedFacts DEF IInv
  <2> QED  BY <1>1, <1>2, <1>3, <2>1 DEF SafetyBackupStays
<1>8. RestoreUnderWay'
  <2>1. t < NewArchive
    BY <1>3, <1>5
  <2> QED  BY <1>1, <1>2, <1>3, <1>4, <2>1 DEF RestoreUnderWay
<1>9. LedgerOrdered'
  <2> SUFFICES ASSUME NEW n \in Archives
               PROVE  /\ n > made' => db'.ledger[n] = "none"
                      /\ n > NewArchive => db'.ledger[n] # "pre_restore"
                      /\ n = NewArchive => db'.ledger[n] \in {"none", "pre_restore"}
    BY <1>1 DEF LedgerOrdered, Ordered
  <2>1. n \in Nat /\ (n > NewArchive => n > made /\ n # NewArchive) /\ made' = NewArchive
    BY <1>3, <1>5, Numbers
  <2> QED  BY <1>2, <1>4, <2>1
<1>10. Listed'
  <2>1. ASSUME ~cut PROVE files' \subseteq Rows(db'.ledger)
    <3>1. files \subseteq Rows(db.ledger)
      BY <1>2, <2>1 DEF IInv, Listed
    <3>2. files' \subseteq Archives
      BY <1>3, <1>4, <3>1 DEF Rows
    <3> QED  BY <1>4, <3>1, <3>2 DEF Rows
  <2> QED  BY <1>1, <2>1 DEF Listed
<1> QED  BY <1>3, <1>6, <1>7, <1>8, <1>9, <1>10 DEF IInv

(* A restore under way: its archives are whole.                               *)
LEMMA RestoreFacts ==
  ASSUME IInv, step # "idle"
  PROVE  /\ up = "up" /\ ~dropped /\ pre \in Archives /\ target \in Archives /\ target < pre
         /\ pre \in files /\ content[pre] \in Snapshot
         /\ content[pre].db.ledger[target] # "none"
         /\ step # "made" => content[target] \in Snapshot /\ Ordered(content[target].db.ledger)
<1>1. /\ up = "up" /\ ~dropped /\ pre \in Archives /\ target \in Archives /\ target < pre
      /\ content[pre].db.ledger[target] # "none"
      /\ step # "made" => content[target] # Partial
  BY DEF IInv, RestoreUnderWay
<1>2. pre # 0 /\ pre \in 0..made /\ made \in Nat /\ pre \in Nat /\ target \in Nat
  BY <1>1, Numbers DEF IInv, TypeOK
<1>3. pre \in files /\ content[pre] # Partial
  BY <1>1, <1>2 DEF IInv, SafetyBackupStays
<1>4. /\ content[pre] \in Snapshot
      /\ step # "made" => content[target] \in Snapshot
  BY <1>1, <1>3 DEF IInv, TypeOK
<1>5. ASSUME step # "made" PROVE Ordered(content[target].db.ledger)
  <2>1. ASSUME NEW n \in Archives, n > made \/ n >= pre PROVE content[target].db.ledger[n] = "none"
    <3>1. n >= target
      BY <1>1, <1>2, <2>1, Numbers
    <3> QED  BY <1>1, <1>5, <3>1 DEF IInv, ArchivesOlder
  <2>2. \A n \in Archives : n > pre \/ n = pre => n >= pre
    BY <1>2, Numbers
  <2> QED  BY <2>1, <2>2 DEF Ordered
<1> QED  BY <1>1, <1>3, <1>4, <1>5

(* A step of the restore that changes neither archives nor ledger.            *)
LEMMA RestoreStep ==
  ASSUME IInv, Extract \/ Close \/ SetAside \/ CopyDb \/ DeleteVms \/ CopyVms
  PROVE  IInv'
<1>1. step # "idle"
  BY DEF Extract, Close, SetAside, CopyDb, DeleteVms, CopyVms
<1>2. /\ up = "up" /\ ~dropped /\ pre \in Archives /\ target \in Archives /\ target < pre
      /\ content[pre].db.ledger[target] # "none"
      /\ step # "made" => content[target] \in Snapshot /\ Ordered(content[target].db.ledger)
  BY <1>1, RestoreFacts
<1>3. UNCHANGED <<files, content, made, target, pre, before, dropped>>
  BY DEF Extract, Close, SetAside, CopyDb, DeleteVms, CopyVms, Fails, disk
<1>4. SafetyBackupStays' /\ ArchivesOlder'
  BY <1>3 DEF IInv, SafetyBackupStays, ArchivesOlder
<1>5. \A ledger : Ordered(ledger)' <=> Ordered(ledger')
  BY <1>3 DEF Ordered
<1>6. /\ db \in Database \cup {NoDb, Torn} /\ aside \in Database \cup {NoDb}
      /\ vms \in Gens \cup {Gone} /\ (step \in {"made", "extracted", "closed"} => db \in Database /\ vms \in Gens)
      /\ step \in {"copied", "vms", "reopen"} => db = content[target].db
      /\ cut \in BOOLEAN /\ (cut \/ TRUE) \in BOOLEAN /\ (cut \/ FALSE) = cut
  BY DEF IInv, TypeOK, RestoreUnderWay
<1>7. CASE Extract
  <2>1. step = "made" /\ UNCHANGED <<db, aside, vms, up>>
    BY <1>7 DEF Extract, disk, Fails
  <2>2. cut' = cut
    BY <1>6, <1>7 DEF Extract, Fails
  <2>3. step' = "idle" \/ (step' = "extracted" /\ content[target] # Partial)
    BY <1>7 DEF Extract, Fails, Goto
  <2>4. TypeOK'
    BY <1>3, <1>6, <2>1, <2>2, <2>3 DEF IInv, TypeOK, Idle
  <2>5. RestoreUnderWay'
    BY <1>2, <1>3, <1>6, <2>1, <2>3 DEF RestoreUnderWay
  <2>6. LedgerOrdered' /\ Listed'
    BY <1>3, <1>5, <2>1, <2>2, <2>3 DEF IInv, LedgerOrdered, Ordered, Listed
  <2> QED  BY <1>4, <2>4, <2>5, <2>6 DEF IInv
<1>8. CASE Close
  <2>1. step = "extracted" /\ step' = "closed" /\ aside' = NoDb /\ UNCHANGED <<db, vms, up, cut>>
    BY <1>8 DEF Close, Goto
  <2>2. TypeOK'
    BY <1>3, <1>6, <2>1 DEF IInv, TypeOK, Idle
  <2>3. RestoreUnderWay'
    BY <1>2, <1>3, <1>6, <2>1 DEF IInv, RestoreUnderWay
  <2>4. LedgerOrdered' /\ Listed'
    BY <1>3, <2>1 DEF IInv, LedgerOrdered, Ordered, Listed
  <2> QED  BY <1>4, <2>2, <2>3, <2>4 DEF IInv
<1>9. CASE SetAside
  <2>1. /\ step = "closed" /\ step' = "aside" /\ UNCHANGED <<vms, up, cut>>
        /\ (aside' = db /\ db' = NoDb) \/ UNCHANGED <<aside, db>>
    BY <1>9 DEF SetAside, Goto
  <2>2. TypeOK'
    BY <1>3, <1>6, <2>1 DEF IInv, TypeOK, Idle
  <2>3. RestoreUnderWay'
    BY <1>2, <1>3, <1>6, <2>1 DEF IInv, RestoreUnderWay
  <2>4. LedgerOrdered' /\ Listed'
    BY <1>3, <2>1, MarkersAssumption DEF MarkersAssumption, IInv, LedgerOrdered, Ordered, Listed
  <2> QED  BY <1>4, <2>2, <2>3, <2>4 DEF IInv
<1>10. CASE CopyDb
  <2>1. /\ step = "aside" /\ UNCHANGED <<vms, aside>>
        /\ \/ step' = "copied" /\ db' = content[target].db /\ UNCHANGED <<up, cut>>
           \/ step' = "idle" /\ up' = "closed" /\ db' = NoDb /\ cut' = (cut \/ TRUE)
    BY <1>10 DEF CopyDb, Goto, Fails
  <2>2. content[target].db \in Database /\ content[target] # Partial
    BY <1>2, <2>1, MarkersAssumption DEF MarkersAssumption, Snapshot
  <2>3. TypeOK'
    BY <1>3, <1>6, <2>1, <2>2 DEF IInv, TypeOK, Idle
  <2>4. RestoreUnderWay'
    BY <1>2, <1>3, <2>1, <2>2 DEF IInv, RestoreUnderWay
  <2>5. LedgerOrdered' /\ Listed'
    BY <1>2, <1>3, <2>1, MarkersAssumption DEF MarkersAssumption, LedgerOrdered, Ordered, Listed
  <2> QED  BY <1>4, <2>3, <2>4, <2>5 DEF IInv
<1>11. CASE DeleteVms
  <2>1. step = "copied" /\ step' = "vms" /\ vms' = Gone /\ UNCHANGED <<db, aside, up, cut>>
    BY <1>11 DEF DeleteVms, Goto
  <2>2. TypeOK'
    BY <1>3, <1>6, <2>1 DEF IInv, TypeOK, Idle
  <2>3. RestoreUnderWay'
    BY <1>2, <1>3, <1>6, <2>1 DEF IInv, RestoreUnderWay
  <2>4. LedgerOrdered' /\ Listed'
    BY <1>3, <2>1 DEF IInv, LedgerOrdered, Ordered, Listed
  <2> QED  BY <1>4, <2>2, <2>3, <2>4 DEF IInv
<1>12. CASE CopyVms
  <2>1. /\ step = "vms" /\ UNCHANGED <<db, aside>>
        /\ \/ step' = "reopen" /\ vms' = content[target].vms /\ UNCHANGED <<up, cut>>
           \/ step' = "idle" /\ up' = "closed" /\ vms' = vms /\ cut' = (cut \/ TRUE)
    BY <1>12 DEF CopyVms, Goto, Fails
  <2>2. content[target].vms \in Gens /\ content[target] # Partial
    BY <1>2, <2>1, MarkersAssumption DEF MarkersAssumption, Snapshot
  <2>3. TypeOK'
    BY <1>3, <1>6, <2>1, <2>2 DEF IInv, TypeOK, Idle
  <2>4. RestoreUnderWay'
    BY <1>2, <1>3, <1>6, <2>1, <2>2 DEF IInv, RestoreUnderWay
  <2>5. LedgerOrdered' /\ Listed'
    BY <1>3, <2>1 DEF IInv, LedgerOrdered, Ordered, Listed
  <2> QED  BY <1>4, <2>3, <2>4, <2>5 DEF IInv
<1> QED  BY <1>7, <1>8, <1>9, <1>10, <1>11, <1>12

(* The archives the restored ledger does not know are listed again.           *)
LEMMA RegisteredFacts ==
  ASSUME IInv, step \notin {"idle", "made"}
  PROVE  LET ledger == Registered(content[target].db.ledger) IN
         /\ ledger \in [Archives -> Kinds] /\ Ordered(ledger) /\ files \subseteq Rows(ledger)
<1>1. /\ pre \in Archives /\ target \in Archives /\ target < pre
      /\ content[pre] \in Snapshot /\ content[pre].db.ledger[target] # "none"
      /\ content[target] \in Snapshot /\ Ordered(content[target].db.ledger)
  BY RestoreFacts
<1> DEFINE old == content[target].db.ledger
           ledger == Registered(old)
<1>2. old \in [Archives -> Kinds] /\ ChosenBy \in Kinds \ {"none"}
  BY <1>1 DEF Snapshot, Database, ChosenBy
<1>3. Ordered(old)
  BY <1>1
<1>4. files \subseteq Archives /\ \A n \in files : n <= made
  BY Numbers DEF IInv, TypeOK
<1> HIDE DEF old
<1>5. /\ ledger \in [Archives -> Kinds]
      /\ \A n \in Archives : ledger[n] = IF old[n] # "none" \/ n \notin files THEN old[n]
                                         ELSE IF n = pre THEN "pre_restore"
                                         ELSE IF n = target THEN ChosenBy ELSE "imported"
  BY <1>2 DEF Registered, Kinds
<1> HIDE DEF ledger
<1>6. files \subseteq Rows(ledger)
  BY <1>2, <1>4, <1>5 DEF Rows
<1>7. Ordered(ledger)
  <2> SUFFICES ASSUME NEW n \in Archives
               PROVE  /\ n > made => ledger[n] = "none"
                      /\ n > pre => ledger[n] # "pre_restore"
                      /\ n = pre => ledger[n] \in {"none", "pre_restore"}
    BY DEF Ordered
  <2>1. n > made => n \notin files
    BY <1>4, Numbers DEF IInv, TypeOK
  <2>2. n > pre => n # pre /\ n # target
    BY <1>1, Numbers
  <2> QED  BY <1>3, <1>5, <2>1, <2>2 DEF Ordered
<1> QED  BY <1>5, <1>6, <1>7 DEF ledger, old

LEMMA ReopenStep == ASSUME IInv, Reopen PROVE IInv'
<1>1. step = "reopen" /\ UNCHANGED <<aside, files, content, made, target, pre, before, dropped>>
  BY DEF Reopen, Fails
<1>2. db = content[target].db /\ vms \in Gens /\ up = "up" /\ content[target] \in Snapshot
  BY <1>1, RestoreFacts DEF IInv, RestoreUnderWay
<1>3. db \in Database
  BY <1>2 DEF Snapshot
<1>4. SafetyBackupStays' /\ ArchivesOlder'
  BY <1>1 DEF IInv, SafetyBackupStays, ArchivesOlder
<1>5. CASE /\ step' = "idle" /\ db' = [db EXCEPT !.ledger = Registered(@)] /\ vms' = Reconciled(db)
           /\ cut' = FALSE /\ up' = up
  <2> DEFINE ledger == Registered(content[target].db.ledger)
  <2>1. ledger \in [Archives -> Kinds] /\ Ordered(ledger) /\ files \subseteq Rows(ledger)
    BY <1>1, RegisteredFacts
  <2>2. db' = [db EXCEPT !.ledger = ledger]
    BY <1>2, <1>5
  <2>3. vms' \in Gens
    BY <1>2, <1>3, <1>5 DEF Reconciled, Database
  <2> HIDE DEF ledger
  <2>4. db' \in Database /\ db'.ledger = ledger
    BY <1>3, <2>1, <2>2 DEF Database
  <2>5. TypeOK'
    BY <1>1, <1>5, <2>3, <2>4 DEF IInv, TypeOK
  <2>6. RestoreUnderWay'
    BY <1>2, <1>5 DEF RestoreUnderWay
  <2>7. LedgerOrdered' /\ Listed'
    BY <1>1, <2>1, <2>4 DEF LedgerOrdered, Ordered, Listed
  <2> QED  BY <1>4, <2>5, <2>6, <2>7 DEF IInv
<1>6. CASE step' = "idle" /\ up' = "closed" /\ cut' = (cut \/ TRUE) /\ db' = db /\ vms' = vms
  <2>1. TypeOK'
    BY <1>1, <1>2, <1>3, <1>6 DEF IInv, TypeOK, Idle
  <2>2. RestoreUnderWay'
    BY <1>6 DEF RestoreUnderWay
  <2>3. LedgerOrdered' /\ Listed'
    BY <1>1, <1>6 DEF IInv, LedgerOrdered, Ordered, Listed
  <2> QED  BY <1>4, <2>1, <2>2, <2>3 DEF IInv
<1> QED  BY <1>5, <1>6 DEF Reopen, Goto, Fails

(* The process ends in the middle of a restore, and is started again.         *)
LEMMA CrashStep == ASSUME IInv, Crash \/ Restart PROVE IInv'
<1>1. UNCHANGED <<aside, files, content, made, target, pre, before, dropped>>
  BY DEF Crash, Restart
<1>2. SafetyBackupStays' /\ ArchivesOlder'
  BY <1>1 DEF IInv, SafetyBackupStays, ArchivesOlder
<1>3. CASE Crash
  <2>1. step' = "idle" /\ up' = "down" /\ db' \in {db, Torn} /\ cut' = TRUE /\ vms' = vms
    BY <1>3 DEF Crash, Goto
  <2>2. TypeOK'
    BY <1>1, <2>1 DEF IInv, TypeOK, Idle
  <2>3. RestoreUnderWay'
    BY <2>1 DEF RestoreUnderWay
  <2>4. LedgerOrdered' /\ Listed'
    BY <1>1, <2>1, MarkersAssumption DEF MarkersAssumption, IInv, LedgerOrdered, Ordered, Listed
  <2> QED  BY <1>2, <2>2, <2>3, <2>4 DEF IInv
<1>4. CASE Restart
  <2>1. /\ up # "up" /\ db # Torn /\ up' = "up" /\ db' = (IF db = NoDb THEN Empty ELSE db)
        /\ vms' = Reconciled(db') /\ UNCHANGED <<step, cut>>
    BY <1>4 DEF Restart
  <2>2. cut /\ step = "idle"
    BY <2>1 DEF IInv, RestoreUnderWay
  <2>3. db' \in Database
    BY <2>1, EmptyFacts DEF IInv, TypeOK
  <2>4. vms' \in Gens
    BY <2>1, <2>3 DEF Reconciled, Database, IInv, TypeOK
  <2>5. TypeOK'
    BY <1>1, <2>1, <2>3, <2>4 DEF IInv, TypeOK
  <2>6. RestoreUnderWay'
    BY <2>1, <2>2 DEF RestoreUnderWay
  <2>7. LedgerOrdered' /\ Listed'
    <3>1. CASE db = NoDb
      BY <1>1, <2>1, <2>2, <3>1, EmptyFacts DEF LedgerOrdered, Ordered, Listed
    <3>2. CASE db # NoDb
      BY <1>1, <2>1, <2>2, <3>2 DEF IInv, LedgerOrdered, Ordered, Listed
    <3> QED  BY <3>1, <3>2
  <2> QED  BY <1>2, <2>5, <2>6, <2>7 DEF IInv
<1> QED  BY <1>3, <1>4

-----------------------------------------------------------------------------
(* The rest of the panel, and the gateway at work.                            *)

LEMMA PanelStep ==
  ASSUME IInv, \/ \E n \in Archives : RemoveBackup(n)
               \/ \E keep \in Retentions : UpdateSchedule(keep)
               \/ Write
  PROVE  IInv'
<1>1. Idle /\ UNCHANGED <<aside, content, made, up, step, target, pre, before, cut>>
  BY DEF RemoveBackup, UpdateSchedule, Write
<1>2. /\ db \in Database /\ vms \in Gens /\ up = "up" /\ step = "idle"
      /\ Ordered(db.ledger)
  BY <1>1, IdleFacts
<1>3. RestoreUnderWay' /\ ArchivesOlder'
  BY <1>1, <1>2 DEF IInv, RestoreUnderWay, ArchivesOlder
<1>4. ASSUME NEW n \in Archives, RemoveBackup(n) PROVE IInv'
  <2>1. /\ db' = [db EXCEPT !.ledger[n] = "none"] /\ files' = files \ {n}
        /\ dropped' = (dropped \/ n = pre) /\ vms' = vms
    BY <1>4 DEF RemoveBackup
  <2>2. /\ db' \in Database
        /\ \A m \in Archives : db'.ledger[m] = IF m = n THEN "none" ELSE db.ledger[m]
    BY <1>2, <2>1 DEF Database, Kinds
  <2>3. dropped' \in BOOLEAN /\ (~dropped' => ~dropped /\ n # pre)
    BY <2>1, Zenon
  <2>4. TypeOK'
    BY <1>1, <1>2, <2>1, <2>2, <2>3 DEF IInv, TypeOK
  <2>5. SafetyBackupStays'
    BY <1>1, <2>1, <2>3 DEF IInv, SafetyBackupStays
  <2>6. LedgerOrdered'
    BY <1>1, <1>2, <2>2 DEF LedgerOrdered, Ordered
  <2>7. Listed'
    BY <1>1, <1>2, <2>1, <2>2 DEF IInv, Listed, Rows
  <2> QED  BY <1>3, <2>4, <2>5, <2>6, <2>7 DEF IInv
<1>5. ASSUME db' \in Database, db'.ledger = db.ledger, vms' \in Gens, UNCHANGED <<files, dropped>>
      PROVE  IInv'
  <2>1. TypeOK'
    BY <1>1, <1>5 DEF IInv, TypeOK
  <2>2. SafetyBackupStays' /\ LedgerOrdered' /\ Listed'
    BY <1>1, <1>2, <1>5 DEF IInv, SafetyBackupStays, LedgerOrdered, Ordered, Listed
  <2> QED  BY <1>3, <2>1, <2>2 DEF IInv
<1>6. ASSUME NEW keep \in Retentions, UpdateSchedule(keep) PROVE IInv'
  BY <1>2, <1>5, <1>6 DEF UpdateSchedule, Database
<1>7. CASE Write
  <2>1. db.gen \in Gens /\ db.gen < MaxWrites
    BY <1>2, <1>7 DEF Write, Database
  <2>2. db.gen + 1 \in Gens
    BY <2>1, Numbers DEF Gens
  <2> QED  BY <1>2, <1>5, <1>7, <2>2 DEF Write, Database
<1> QED  BY <1>4, <1>6, <1>7

-----------------------------------------------------------------------------
(* The invariant holds.                                                       *)

LEMMA InitHolds == Init => IInv
<1> SUFFICES ASSUME Init PROVE IInv
  OBVIOUS
<1>1. 0 \in Gens /\ 0 \in 0..MaxArchives /\ Empty \in Database
  BY Numbers, EmptyFacts DEF Gens
<1>2. TypeOK
  <2>1. content \in [Archives -> Snapshot \cup {Partial}]
    BY DEF Init
  <2>2. made = 0 /\ target \in 0..made /\ pre \in 0..made /\ files \subseteq 1..made
    BY DEF Init
  <2> QED  BY <1>1, <2>1, <2>2 DEF Init, TypeOK
<1>3. SafetyBackupStays /\ RestoreUnderWay /\ ArchivesOlder /\ Listed
  BY DEF Init, SafetyBackupStays, RestoreUnderWay, ArchivesOlder, Listed
<1>4. LedgerOrdered
  BY EmptyFacts DEF Init, LedgerOrdered, Ordered
<1> QED  BY <1>2, <1>3, <1>4 DEF IInv

LEMMA NextHolds == IInv /\ [Next]_vars => IInv'
<1> SUFFICES ASSUME IInv, [Next]_vars PROVE IInv'
  OBVIOUS
<1>1. CASE UNCHANGED vars
  <2>1. TypeOK' /\ SafetyBackupStays' /\ RestoreUnderWay'
    BY <1>1 DEF vars, disk, IInv, TypeOK, Idle, SafetyBackupStays, RestoreUnderWay
  <2>2. LedgerOrdered' /\ ArchivesOlder' /\ Listed'
    BY <1>1 DEF vars, disk, IInv, LedgerOrdered, Ordered, ArchivesOlder, Listed
  <2> QED  BY <2>1, <2>2 DEF IInv
<1>2. CASE Next
  BY <1>2, CreateStep, CutStep, BeginStep, RestoreStep, ReopenStep, CrashStep, PanelStep DEF Next
<1> QED  BY <1>1, <1>2

(* Every reachable state satisfies the inductive invariant.                   *)
THEOREM Inductive == Spec => []IInv
BY InitHolds, NextHolds, PTL DEF Spec

(* Every variable keeps its type, and whenever the gateway runs it has a      *)
(* database and the VM files, wherever restoreBackup failed before.           *)
THEOREM TypeCorrect == Spec => []TypeOK
<1>1. IInv => TypeOK
  BY DEF IInv
<1> QED  BY <1>1, Inductive, PTL

(* No failure, crash, restart or later backup with its retention costs the    *)
(* safety backup that restoreBackup made of the data it replaced.             *)
THEOREM SafetyCorrect == Spec => []SafetyBackupStays
<1>1. IInv => SafetyBackupStays
  BY DEF IInv
<1> QED  BY <1>1, Inductive, PTL

(* After a restore _registerOrphanArchives has listed every archive on disk,  *)
(* and only a backup or restore that is cut short leaves one unlisted.        *)
THEOREM ListedCorrect == Spec => []ArchivesListed
<1>1. IInv => ArchivesListed
  BY DEF IInv, Listed, ArchivesListed, Idle
<1> QED  BY <1>1, Inductive, PTL
=============================================================================
