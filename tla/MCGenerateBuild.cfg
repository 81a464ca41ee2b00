\* Edits and interruptions at any point of the generating build.
CONSTANTS
  Broken <- MCBroken
  MaxEdits = 3
  MaxInterrupts = 2
SPECIFICATION FairSpec
\* The build rests when nothing is left to do.
CHECK_DEADLOCK FALSE
INVARIANTS
  TypeOK
  OutputsFitTogether
  QuietMeansCurrent
PROPERTIES
  RunsDeliver
  BuildComesToRest
