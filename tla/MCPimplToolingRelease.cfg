\* Release build: DCHECKs are compiled out.
CONSTANTS
  FooImpl = FooImpl
  BarImpl = BarImpl
  LocalImpl = LocalImpl
  NoClass = NoClass
  NoInterface = NoInterface
  NoInt = NoInt
  NotCached = NotCached
  Classes <- MCClasses
  Keys <- MCKeys
  DefsOf <- MCDefsOf
  Methods <- MCMethods
  Annotations <- ReleaseAnnotations
  IntOf <- MCIntOf
  SizeModulus = 64
  DcheckOn = FALSE
  MaxUnits = 2
  MaxEdits = 4
SPECIFICATION Spec
\* The process may abort or finish.
CHECK_DEADLOCK FALSE
PROPERTIES
  StorageShortfall
