CONSTANTS
  Block = 1
  Rep = 3
  Sizes = {8, 9}
  MaxBlocks = 40
  Chars <- AllChars
  MaxShort = 4
  Names <- TwoNames
  Strings <- TwoStrings
  Longer <- Nested
SPECIFICATION DocumentSpec
INVARIANTS TypeOK InsideBlock ObjectsDisjoint PrintsWhatWasRead ReadsBack OverrunsOnlyIfCut LookupsAgree CommandReadBack NodesAtMostChars
PROPERTY EachParseReads
CHECK_DEADLOCK FALSE
