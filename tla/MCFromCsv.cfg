CONSTANTS
  Attributes <- MCAttributes
  NullCell = NullCell
  MaxDigits = 2
  Files <- MCFiles
  Filters = {none, first_not_null}
  NoFilter = none
  Keeps <- MCKeeps
  Absent = Absent
  MaxCalls = 2
SPECIFICATION LoadSpec
INVARIANTS LoadTypeOK LoadsFile AnswersAgree
PROPERTY CallsEnd
CHECK_DEADLOCK FALSE
