\* Four annotations of classes with one or two methods.
CONSTANTS
  Items <- MCItems
  NameOf <- MCNameOf
  MethodNames <- MCMethodNames
  Qualifiers <- MCQualifiers
  MethodLists <- MCMethodLists
  Interface = "Iface"
  Injections <- MCInjections
SPECIFICATION Spec
\* The handler stops when all texts are printed.
CHECK_DEADLOCK FALSE
INVARIANTS
  TypeOK
  TextReadsBack
  ListsAlternate
