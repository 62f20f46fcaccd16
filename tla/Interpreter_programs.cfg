CONSTANTS
  Programs <- AllPrograms
  Environment <- MCEnvironment
  Inputs <- MCInputs
  Alphabet <- MCAlphabet
  MaxInt = 7
  Highest = 3
CHECK_DEADLOCK FALSE
SPECIFICATION FairSpec
INVARIANTS WellTypedKeepsTypes WellTypedNeverFails
PROPERTY LoopsEnd
