--------------------------- MODULE MCToolingSetup ---------------------------
(***************************************************************************)
(* A debug and a release build; the default directory, reached by its own  *)
(* name and by the bare one, and a directory of the settings that may not  *)
(* be created.                                                             *)
(***************************************************************************)
EXTENDS ToolingSetup

CONSTANTS debug, release, exeDir, bare, denied

MCToolings == {debug, release}
MCDebugBuilds == {debug}
MCNames == {exeDir, bare, denied}
MCLocationOf == [n \in MCNames |-> IF n = bare THEN exeDir ELSE n]
MCCreatable == {exeDir}

=============================================================================
