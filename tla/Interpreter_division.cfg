CONSTANTS
  Programs <- TypingPrograms
  Environment <- MCEnvironment
  Inputs <- MCInputs
  Alphabet <- MCAlphabet
  MaxInt = 7
  Highest = 3
CHECK_DEADLOCK FALSE
SPECIFICATION ProgramSpec
INVARIANT OnlyZeroDivides
