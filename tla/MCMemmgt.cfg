CONSTANTS
  pages_nb = 10
  pagesz = 4
  Lengths <- MCLengths
  pool_pages = 3
  Images <- MCImages
  stack_size = 4
  NONE = NONE
SPECIFICATION LoadSpec
INVARIANTS
  LoadTypeOK
  Tiled
  Disjoint
  InUse
  Scrubbed
  ModulesApart
