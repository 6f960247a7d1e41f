SPECIFICATION BusSpec
CONSTANTS
  W = 64
  IoTop = 16
  NBars = 3
  Hardware <- MCHardware
  HoleStart = 33
  HoleSize = 24
  FirstSize = 1
  GrowBy = 1
  Codes <- MCCodes
  FirstAnswer = 1
  AnswerGrows = 1
INVARIANTS DecodesRealAddress DecodingRestored AllEnumerated RecordedBarsReal MovedApart Filtered
PROPERTIES SizingUndone Ends
CHECK_DEADLOCK FALSE
