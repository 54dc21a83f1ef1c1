SPECIFICATION FairSpec
CONSTANTS
  g1 = g1
  g2 = g2
  r1 = r1
  r2 = r2
  t1 = t1
  Git = {g1}
  Repo = {r1}
  Tags = {t1}
  Forced = {r1}
  Cancellable = {g1}
  Tagged = {1}
  Slots = 1
  MaxVersion = 2
  MaxFaults = 1
INVARIANTS
  TypeOK
  ArchiveShowsClone
  ErrorsAreCaused
  ForcedFetchIsFresh
  NobodyStuck
PROPERTY EveryRequestAnswered
