\* Two names, five record ids and four names in rname: enough to reuse ids.
SPECIFICATION TreeSpec
CONSTANTS
  MaxRec = 5
  MaxRName = 4
  Names <- MCNames
  Attrs <- MCAttrs
INVARIANTS
  TypeOK
  DiskTrailsMemory
  RegistryWellFormed
  NamesNotShared
  VerifyEnds
PROPERTIES
  ImplementsTree
