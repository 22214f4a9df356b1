SPECIFICATION MCSpec
CONSTANTS
  PageSize = 12
  BitsPerByte = 1
  Null = Null
  Garbage = Garbage
  String <- MCString
  LongPage = 10
  LongPageNext = 9
  MaxStrings = 3
  MaxNulls = 9
INVARIANT ReadsBack
CHECK_DEADLOCK FALSE
