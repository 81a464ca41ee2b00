\* Release build: no sequence checkers, no DCHECKs.
CONSTANTS
  s1 = s1
  s2 = s2
  p1 = p1
  p2 = p2
  t1 = t1
  t2 = t2
  NoTooling = NoTooling
  NoPipeline = NoPipeline
  Detached = Detached
  Sequences <- MCSequences
  Pipelines <- MCPipelines
  Toolings <- MCToolings
  DcheckOn = FALSE
SPECIFICATION Spec
\* The process may abort, crash or end with the plugin destroyed.
CHECK_DEADLOCK FALSE
INVARIANTS
  NoDanglingListener

  
