\* Lists of up to two filters; one flag, lists of up to two, a scale of five;
\* two URLs, an API key and a log level in arguments and environment.
SPECIFICATION Spec
CONSTANTS
  nil = nil
  Nil = nil
  Strings <- MCStrings
  DateOf <- MCDateOf
  Names <- MCNames
  Lower <- MCLower
  EmptyName = ""
  EmptyType = ""
  MaxFilters = 2
  Candidates <- MCCandidates
  RawAttributes <- MCRawAttributes
  Ids = {"word"}
  EntityTypes = {"", "User"}
  EntityNames = {"", "word"}
  Folded <- MCFolded
  SamplingHash <- MCSamplingHash
  VariationHash <- MCVariationHash
  Scale = 5
  InitialFlags <- MCInitialFlags
  Entities <- MCEntities
  Listed <- MCListed
  Empty = ""
  NoArgs = nil
  Settings <- MCSettings
  DefaultURL <- MCDefaultURL
  WellFormed = {"url"}
  LogLevels = {"info", "error"}
CHECK_DEADLOCK FALSE
INVARIANTS
  EscapeIsIdempotent
  PresentIsConjunction
  OutcomeIsConsistent
  ListsBeatSampling
  GroupMembersAgree
PROPERTIES
  AppendingNarrows
  GrowingKeepsEnabled
  GrowingKeepsVariation
  GivenArgumentsPrevail
