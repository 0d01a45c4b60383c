CONSTANTS
  first = first
  second = second
  Launches = {first, second}
  Watched = first
  MayFail = TRUE
SPECIFICATION FairSpec
INVARIANTS
  TypeOK
  Protected
  ReceiptsTrue
PROPERTIES
  ImplementsContract
  DeathReleases
