CONSTANTS
  Methods = {"GET", "HEAD"}
  Others = {"x", "html", "jpg", "jpeg", "POST", "/cgi-bin"}
  Titles <- MCTitles
  Disk <- MCDisk
  Directory = directory
  Outputs <- MCOutputs
CHECK_DEADLOCK FALSE
SPECIFICATION FairSpec
INVARIANTS MeansRequestLine NeverUninitialised AnswerFramed AnswerFits
PROPERTY Answered
