SPECIFICATION ListSpec
CONSTANTS
  Names <- FourNames
  SizeOf <- TwoSizes
  Rank <- ByBytes
  Dir <- OneDir
  Keywords <- FourKeywords
  FormSizes <- OneOrTwo
  MaxPageSize = 3
  MaxKeyword = 3
  Urls <- ThreeUrls
  MaxTime = 1
INVARIANTS
  WalkMissesNothing
  QueryKept
  LinksLeadBack
