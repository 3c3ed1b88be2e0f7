SPECIFICATION Spec
CONSTANTS
  MaxArchives = 4
  MaxWrites = 1
  Retentions = {1, 2}
  DefaultKeep = 2
  KeepPre = 2
  NoDb = NoDb
  Torn = Torn
  Partial = Partial
  Gone = Gone
CHECK_DEADLOCK FALSE
INVARIANTS TypeOK SafetyBackupStays ArchivesListed
