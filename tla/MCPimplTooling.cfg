\* Debug build: every DCHECK is compiled in.
CONSTANTS
  FooImpl = FooImpl
  BarImpl = BarImpl
  LocalImpl = LocalImpl
  NoClass = NoClass
  NoInterface = NoInterface
  NoInt = NoInt
  NotCached = NotCached
  Classes <- MCClasses
  Keys <- MCKeys
  DefsOf <- MCDefsOf
  Methods <- MCMethods
  Annotations <- MCAnnotations
  IntOf <- MCIntOf
  SizeModulus = 64
  DcheckOn = TRUE
  MaxUnits = 2
  MaxEdits = 4
SPECIFICATION Spec
\* The process may abort or finish.
CHECK_DEADLOCK FALSE
INVARIANTS
  TypeOK
  ReflectedOnceBeforeUse
  WrappersMirrorReflection
  DeclarationsMatchDefinitions
  StorageHoldsImpl
  CodeIsOfOneDefinition
  CacheExplainsLog
PROPERTIES
  CacheIsFrozen
  ImplementsContract
