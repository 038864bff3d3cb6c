SPECIFICATION Spec
CONSTANTS
  Files <- Paths
  BaseOf <- Components
  Texts <- Contents
  Compilers <- Tools
  Commands <- Lines
  MaxRuns = 3
INVARIANTS
  TypeOK
  BuiltFromOwnSource
  LinkSeesEveryFile
  DumpsCleanedUp
  OldCompilerRefused
  DoneOrComplained
PROPERTIES
  RunEnds
