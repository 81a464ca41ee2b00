\* Debug build: sequence checkers and DCHECKs are compiled in.
CONSTANTS
  s1 = s1
  s2 = s2
  p1 = p1
  p2 = p2
  t1 = t1
  t2 = t2
  FooImpl = FooImpl
  NoTooling = NoTooling
  NoPipeline = NoPipeline
  Detached = Detached
  NoClass = NoClass
  NoInterface = NoInterface
  NoInt = NoInt
  NotCached = NotCached
  Sequences <- MCSequences
  Pipelines <- MCPipelines
  Toolings <- MCToolings
  Classes <- MCClasses
  Keys <- MCKeys
  DefsOf <- MCDefsOf
  Methods <- MCMethods
  Annotations <- MCAnnotations
  IntOf <- MCIntOf
  SizeModulus = 32
  DcheckOn = TRUE
  MaxUnits = 2
  MaxEdits = 2
SPECIFICATION Spec
\* The process may abort, crash or end with the plugin destroyed.
CHECK_DEADLOCK FALSE
INVARIANTS
  TypeOK
  WrappersAgreeAcrossRegistrations
PROPERTIES
  OnlyOwnToolingEdits
  ImplementsLifecycle
  ImplementsToolings
