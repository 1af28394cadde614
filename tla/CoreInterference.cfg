SPECIFICATION MCSpec
CONSTANTS
  nil = nil
  Nil = nil
  c1 = c1
  Strings <- MCStrings
  DateOf <- MCDateOf
  Names <- MCNames
  Lower <- MCLower
  Folded <- MCFolded
  SamplingHash <- MCSamplingHash
  VariationHash <- MCVariationHash
  Configurations <- MCConfigurations
  Entities <- MCEntities
  Codenames = {0, 1, 2}
  EmptyCodename = 0
  EmptyId = 0
  EmptyHashKey = 0
  Callers = {c1}
INVARIANTS
  AnswerOfOneButForKey
  ListedAnswerIsAtomic
