CONSTANTS
  Keyword = {"admin", "there"}
  Response = {"yes", "here I am"}
  Seconds <- ResponseSeconds
  Color <- AllColors
  AlertColor = "red"
  Digits <- ColorDigits
  Line <- Lines
  LogSize = 1
  Wrap = 2
  MaxNow = 2
  MaxLines = 3
  MaxEdits = 2
  MaxEntries = 1
SPECIFICATION Spec
PROPERTY GoodLineScanned
