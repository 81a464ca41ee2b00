\* A method annotated twice.
CONSTANTS
  FooImpl = FooImpl
  BarImpl = BarImpl
  LocalImpl = LocalImpl
  NoClass = NoClass
  NoInterface = NoInterface
  NoInt = NoInt
  NotCached = NotCached
  Classes <- MCClasses
  Keys <- MCKeys
  DefsOf <- TwiceAnnotatedDefsOf
  Methods <- MCMethods
  Annotations <- Proper
  IntOf <- MCIntOf
  SizeModulus = 64
  DcheckOn = TRUE
  MaxUnits = 2
  MaxEdits = 4
SPECIFICATION Spec
\* The process may abort or finish.
CHECK_DEADLOCK FALSE
INVARIANTS
  SkippedStayHidden
