SPECIFICATION FairSpec
CONSTANTS
  a = a
  b = b
  All = All
  None = None
  Records <- MCRecords
  Named <- MCNamed
  Base <- MCBase
  GitRanged = {a}
  Signed = {a}
  Garbled = {b}
  GIT = "GIT"
  EMPTY = "[EMPTY]"
  NoName = ""
  Downloaders = {d1, d2}
  Writers = {x1, x2}
  ToBucket = TRUE
  MaxFaults = 1
INVARIANTS
  TypeOK
  NoSendOnClosed
  SuccessIsComplete
  PublishedIsWhole
  NoDeadlock
PROPERTIES
  KeepsPromise
  RunEnds
