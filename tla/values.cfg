CONSTANTS
  ByteBits = 2
  V4Bytes = 4
  V6Bytes = 3
  PathLen = 5
  Kilo = 4
  IntMax = 127
  MaxLen = 6
  Alpha <- Letters
  Known <- Directives
SPECIFICATION Spec
CHECK_DEADLOCK FALSE
INVARIANTS SubnetsExact TextNamesAddress HostIsSplit PatternReadsBack SleepsAsAsked
