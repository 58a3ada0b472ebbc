SPECIFICATION FairSpec
CONSTANTS
  Atoi <- MCAtoi
  LoadError = LoadError
  Panic = Panic
  Dirs <- MCDirs
  Text <- MCText
  Settings <- MCSettings
  Confs <- MCConfs
  Contents <- MCContents
  NoFile = NoFile
  MaxFaults = 2
INVARIANTS TypeOK SuccessMeansMigrated
PROPERTIES Implements OnlyCutsLose EventuallyMigrated
