SPECIFICATION Spec
CONSTANTS
  Atoi <- MCAtoi
  LoadError = LoadError
  Panic = Panic
  NoFile = NoFile
  None = None
  Deployments <- MCDeployments
  MaxWrites = 1
  MaxTime = 1
  MaxFaults = 1
  MaxCalls = 2
  Backups = {1, 2}
CHECK_DEADLOCK FALSE
INVARIANTS TypeOK WaitSeesNewSave UploadIsNew BackupHasWrites FailureIsExplained EveryStartEnds SecretIsMasked KeysAreCounted ResetForgets ResetFailsForAReason NeverOnTornConf NoCallIsStuck
PROPERTIES StrandedForGood
