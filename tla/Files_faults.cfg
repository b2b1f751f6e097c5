SPECIFICATION ListingSpec
CONSTANTS
  Names <- SmallNames
  Volumes <- SmallVolumes
  Texts <- SmallTexts
  Chunk = 2
  ScriptBytes = 3
  LineRoom = 3
  Faults = {"locate", "volume", "open", "read", "delete", "seek", "write"}
  MaxSize = 4
  MaxEntries = 2
  LongNames = {"long"}
  ShortName <- SmallShortNames
  BuiltIn <- Table
INVARIANTS
  TypeOK
  HandlesClosed
  CatPrintsFile
  SourceRunsLines
  DoneMeansDone
  FailureIsContained
  ListingShowsVolume
PROPERTY
  EveryCommandEnds
