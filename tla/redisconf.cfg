SPECIFICATION Spec
CONSTANTS
  Atoi <- MCAtoi
  LoadError = LoadError
  Panic = Panic
  Texts <- MCTexts
  Keys <- MCKeys
  Values <- MCValues
  MaxEdits = 1
  NoFile = NoFile
  MaxFaults = 2
  MaxLength = 4
INVARIANTS ReadsBack FirstLineWins EditSurvivesSave PortSpeaksTLS LastAliasWins MoveKeepsText

CHECK_DEADLOCK FALSE
