CONSTANTS
  Words <- MCWords
  MaxWords = 2
  MaxBlanks = 2
  MaxLines = 3
CHECK_DEADLOCK FALSE
SPECIFICATION FairSpec
INVARIANTS NamesLast MeansText Serialises
PROPERTY Terminates
