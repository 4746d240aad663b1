\* Contents of up to five characters, of which two have small letters of other lengths,
\* a window of three; up to three of five messages, a cache of two.
SPECIFICATION DisplaySpec
CONSTANTS
  a = a
  upperA = upperA
  emoji = emoji
  barA = barA
  lowerBarA = lowerBarA
  kelvin = kelvin
  k = k
  bash = bash
  prose = prose
  plan = plan
  NoResult = NoResult
  Chars <- SevenChars
  LowerCase <- Small
  Bytes <- BytesOfChars
  Units <- UnitsOfChars
  WindowSize = 3
  Contents <- LongTexts
  Terms <- ShortTerms
  Messages <- FiveMessages
  ToolContents = {bash, plan}
  MessageLists <- ListsOfThree
  Capacity = 2
INVARIANTS
  ItemsAreMessages
  KeepsRecent
  SnippetShowsTerm
  PartsAreSnippet
