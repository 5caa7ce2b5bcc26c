SPECIFICATION Spec
CONSTANTS
  Tests <- MCTests
  Modules <- MCModules
  Inits = {"i"}
  Conftests = {"c"}
  Setups = {"s"}
  Configs = {"k"}
  Docs = {"x"}
  PackageOf <- MCPackageOf
  NamedAfter <- MCNamedAfter
  LikePackage = {"p"}
  PatternOf <- MCPatternOf
  DirOf <- MCDirOf
  SearchLimit = 2
  StemMatchLimit = 2
  MaxInputs = 2
  SetupRefLimit = 1
  MaxWorkers = 2
  Cores = 4
  CriteriaBudget = 2
  Ladder <- MCLadder
  Cases <- MCCases
INVARIANTS
  VerdictIsRight
  SlotCoversRuns
  ConfigPinned
PROPERTIES
  NoFailureForgotten
CHECK_DEADLOCK FALSE
