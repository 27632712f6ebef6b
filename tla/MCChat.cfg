CONSTANTS
  Keyword = {"admin", "there"}
  Response = {"yes", "here I am"}
  Seconds <- ResponseSeconds
  Color <- AllColors
  AlertColor = "red"
  Digits <- ColorDigits
  Line <- Lines
  LogSize = 1
  Wrap = 3
  MaxNow = 4
  MaxLines = 3
  MaxEdits = 2
  MaxEntries = 2
SPECIFICATION FairSpec
INVARIANTS
  OneAlarm
PROPERTIES
  
  AnswerTakesTime
  
