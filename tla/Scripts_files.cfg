CONSTANTS
  Letters = {"a", "e", "n"}
  Digits = {"1"}
  Keywords <- MCKeywords
  Files <- MCFiles
CHECK_DEADLOCK FALSE
SPECIFICATION Spec
INVARIANTS ScriptKept NothingLost Relexes StringsKeepText PositionsRight
PROPERTY GetsOn
