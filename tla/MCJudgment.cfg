SPECIFICATION JudgeSpec
CONSTANTS
  Scripts <- MCScripts
  Texts <- MCTexts
  MAX_OPERATIONS = 2
  MAX_HISTORY = 2
INVARIANTS SuccessIffDelivery CsvFollows CcninfoSound CountsAgree
CHECK_DEADLOCK FALSE
