SPECIFICATION FairSpec
CONSTANTS
  IDs = {1, 2}
  Workers = {w1}
  Contents <- MCContents
  MaxImports = 3
  MaxFaults = 1
  MaxEvents = 3
INVARIANTS
  TypeOK
  RelatedIsMutual
  UpstreamIsTransitive
  GroupsAreShown
PROPERTY RunComesToEnd
