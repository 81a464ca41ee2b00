\* A debug and a release build set up in one file system.
CONSTANTS
  debug = debug
  release = release
  exeDir = exeDir
  bare = bare
  denied = denied
  NoName = NoName
  Toolings <- MCToolings
  DebugBuilds <- MCDebugBuilds
  Names <- MCNames
  LocationOf <- MCLocationOf
  Creatable <- MCCreatable
  DefaultName = exeDir
  BareName = bare
SPECIFICATION FairSpec
INVARIANTS
  TypeOK
  RacesAreHarmless
  AbortsHaveACause
  FailedScriptMeansDefault
PROPERTIES
  SetupEnds
