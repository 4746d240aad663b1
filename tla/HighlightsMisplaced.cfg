\* The instance of DisplayRun.
SPECIFICATION DisplaySpec
CONSTANTS
  a = a
  upperA = upperA
  emoji = emoji
  barA = barA
  lowerBarA = lowerBarA
  kelvin = kelvin
  k = k
  bash = bash
  prose = prose
  plan = plan
  NoResult = NoResult
  Chars <- SevenChars
  LowerCase <- Small
  Bytes <- BytesOfChars
  Units <- UnitsOfChars
  WindowSize = 3
  Contents <- LongTexts
  Terms <- ShortTerms
  Messages <- FiveMessages
  ToolContents = {bash, plan}
  MessageLists <- ListsOfThree
  Capacity = 2
INVARIANTS
  MarksAreTerm
