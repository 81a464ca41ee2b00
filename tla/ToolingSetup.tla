---------------------------- MODULE ToolingSetup ----------------------------
(***************************************************************************)
(* The constructor of pimplTooling (src/src/Tooling.cc): it loads the      *)
(* settings through Cling, chooses the output directory, tests for it,     *)
(* creates it and resolves it to an absolute path.                         *)
(*                                                                         *)
(* Several flextool processes may be at it at once (one per test suite of  *)
(* a parallel build), and other programs change the file system between    *)
(* the system calls, so each of these steps is an action.  The checks of   *)
(* the two arguments are part of PluginLifecycle.                          *)
(***************************************************************************)
CONSTANTS
  Toolings,     \* constructors running, each in a process of its own
  DebugBuilds,  \* those compiled with DCHECKs
  Names,        \* paths as settings and code spell them (base::FilePath)
  LocationOf,   \* name |-> the canonical name of what it reaches (realpath)
  Creatable,    \* locations the processes have the right to create
  DefaultName,  \* dir_exe_.Append("generated")
  BareName,     \* the same with an empty dir_exe_
  NoName        \* the empty path

Locations == {LocationOf[n] : n \in Names}

ASSUME SetupAssumption ==
  /\ DebugBuilds \subseteq Toolings
  /\ LocationOf \in [Names -> Names]
  /\ \A l \in Locations : LocationOf[l] = l
  /\ Creatable \subseteq Locations
  /\ {DefaultName, BareName} \subseteq Names
  /\ NoName \notin Names

VARIABLES
  pc,        \* tooling |-> the next step of its constructor
  loaded,    \* tooling |-> outcome of the Cling script
  settings,  \* tooling |-> settings_.outDir
  exeFound,  \* tooling |-> PathService::Get(DIR_EXE) succeeded
  outDir,    \* tooling |-> outDir_
  fs,        \* location |-> what is there
  disturbed  \* history: locations that other programs changed

vars == <<pc, loaded, settings, exeFound, outDir, fs, disturbed>>

Ended == {"done", "aborted"}

TypeOK ==
  /\ pc \in [Toolings ->
               {"load", "choose", "test", "create", "resolve"} \cup Ended]
  /\ loaded \in [Toolings -> {"pending", "ok", "failed", "misused"}]
  /\ settings \in [Toolings -> Names \cup {NoName}]
  /\ exeFound \in [Toolings -> BOOLEAN]
  /\ outDir \in [Toolings -> Names \cup {NoName}]
  /\ fs \in [Locations -> {"absent", "directory", "file"}]
  /\ disturbed \subseteq Locations
  /\ \A t \in Toolings :
       pc[t] \in {"test", "create", "resolve"} => outDir[t] # NoName

\* A file where a directory is wanted was put there by another program.
Init ==
  /\ pc = [t \in Toolings |-> "load"]
  /\ loaded = [t \in Toolings |-> "pending"]
  /\ settings = [t \in Toolings |-> NoName]
  /\ exeFound = [t \in Toolings |-> FALSE]
  /\ outDir = [t \in Toolings |-> NoName]
  /\ fs \in [Locations -> {"absent", "directory", "file"}]
  /\ disturbed = {l \in Locations : fs[l] = "file"}

-----------------------------------------------------------------------------
(* The steps of the constructor.                                           *)

Goto(t, step) == pc' = [pc EXCEPT ![t] = step]

\* Mutant of LoadSettings: DCHECK(settings_.outDir.empty()) is missing.
LoadSettingsUnchecked(t) ==
  /\ pc[t] = "load"
  /\ \E result \in {"ok", "failed", "misused"}, name \in Names \cup {NoName} :
       /\ loaded' = [loaded EXCEPT ![t] = result]
       /\ settings' = [settings EXCEPT ![t] = name]
       /\ Goto(t, IF t \in DebugBuilds /\ result = "misused"
                    THEN "aborted" ELSE "choose")
  /\ UNCHANGED <<exeFound, outDir, fs, disturbed>>

\* callFunctionByName("flex_pimpl_plugin::loadSettings"): the script may fail,
\* perhaps after it wrote outDir, or be one that does not return void.  A
\* failure is skipped; a debug build aborts where a DCHECK is violated.
LoadSettings(t) ==
  /\ pc[t] = "load"
  /\ \E result \in {"ok", "failed", "misused"}, name \in Names \cup {NoName} :
       LET unexpected == \/ result = "misused"
                         \/ result = "failed" /\ name # NoName
       IN /\ loaded' = [loaded EXCEPT ![t] = result]
          /\ settings' = [settings EXCEPT ![t] = name]
          /\ Goto(t, IF t \in DebugBuilds /\ unexpected
                       THEN "aborted" ELSE "choose")
  /\ UNCHANGED <<exeFound, outDir, fs, disturbed>>

\* The directory that settings and dir_exe_ ask for.
Wanted(name, found) ==
  IF name # NoName THEN name ELSE IF found THEN DefaultName ELSE BareName

\* Mutant of ChooseDir: settings that are empty override the default.
ChooseDirFromSettings(t) ==
  /\ pc[t] = "choose"
  /\ exeFound' = [exeFound EXCEPT ![t] = TRUE]
  /\ outDir' = [outDir EXCEPT ![t] = settings[t]]
  /\ Goto(t, "test")
  /\ UNCHANGED <<loaded, settings, fs, disturbed>>

\* Without PathService a debug build stops at NOTREACHED(); a release build
\* goes on with an empty dir_exe_.
ChooseDir(t) ==
  /\ pc[t] = "choose"
  /\ \E found \in BOOLEAN :
       /\ exeFound' = [exeFound EXCEPT ![t] = found]
       /\ \/ /\ t \in DebugBuilds /\ ~found
             /\ Goto(t, "aborted")
             /\ UNCHANGED outDir
          \/ /\ t \in DebugBuilds => found
             /\ outDir' = [outDir EXCEPT ![t] = Wanted(settings[t], found)]
             /\ Goto(t, "test")
  /\ UNCHANGED <<loaded, settings, fs, disturbed>>

\* base::PathExists, which is content with a file.
PathExists(name) == fs[LocationOf[name]] # "absent"

TestDir(t) ==
  /\ pc[t] = "test"
  /\ Goto(t, IF PathExists(outDir[t]) THEN "resolve" ELSE "create")
  /\ UNCHANGED <<loaded, settings, exeFound, outDir, fs, disturbed>>

\* base::CreateDirectoryAndGetError succeeds; that the directory is there
\* already is a success too.
DirCreated(l) == \/ fs[l] = "directory"
                 \/ fs[l] = "absent" /\ l \in Creatable

MakeDirectory(l) ==
  fs' = IF DirCreated(l) THEN [fs EXCEPT ![l] = "directory"] ELSE fs

\* Mutant of CreateDir: mkdir as is, a directory that is there is an error,
\* and the error is fatal.
CreateDirExclusive(t) ==
  LET l == LocationOf[outDir[t]]
      created == fs[l] = "absent" /\ DirCreated(l)
  IN /\ pc[t] = "create"
     /\ MakeDirectory(l)
     /\ Goto(t, IF created THEN "resolve" ELSE "aborted")
     /\ UNCHANGED <<loaded, settings, exeFound, outDir, disturbed>>

\* Mutant of CreateDir: a failure is retried.
CreateDirRetrying(t) ==
  LET l == LocationOf[outDir[t]]
  IN /\ pc[t] = "create"
     /\ MakeDirectory(l)
     /\ Goto(t, IF DirCreated(l) THEN "resolve" ELSE "test")
     /\ UNCHANGED <<loaded, settings, exeFound, outDir, disturbed>>

\* A failure is only logged.
CreateDir(t) ==
  /\ pc[t] = "create"
  /\ MakeDirectory(LocationOf[outDir[t]])
  /\ Goto(t, "resolve")
  /\ UNCHANGED <<loaded, settings, exeFound, outDir, disturbed>>

\* Mutant of Resolve: the path is tested and kept as it is spelled.
ResolveAsSpelled(t) ==
  /\ pc[t] = "resolve"
  /\ outDir' = [outDir EXCEPT ![t] = IF PathExists(@) THEN @ ELSE NoName]
  /\ Goto(t, IF t \in DebugBuilds /\ ~PathExists(outDir[t])
               THEN "aborted" ELSE "done")
  /\ UNCHANGED <<loaded, settings, exeFound, fs, disturbed>>

\* MakeAbsoluteFilePath returns the empty path for what does not exist.
Resolve(t) ==
  LET absolute ==
        IF PathExists(outDir[t]) THEN LocationOf[outDir[t]] ELSE NoName
  IN /\ pc[t] = "resolve"
     /\ outDir' = [outDir EXCEPT ![t] = absolute]
     /\ Goto(t, IF t \in DebugBuilds /\ absolute = NoName
                  THEN "aborted" ELSE "done")
     /\ UNCHANGED <<loaded, settings, exeFound, fs, disturbed>>

\* Another program removes what is at a location or puts something there.
Disturb(l) ==
  /\ \E kind \in {"absent", "directory", "file"} \ {fs[l]} :
       fs' = [fs EXCEPT ![l] = kind]
  /\ disturbed' = disturbed \cup {l}
  /\ UNCHANGED <<pc, loaded, settings, exeFound, outDir>>

Step(t) ==
  LoadSettings(t) \/ ChooseDir(t) \/ TestDir(t) \/ CreateDir(t) \/ Resolve(t)

Next ==
  \/ \E t \in Toolings : Step(t)
  \/ \E l \in Locations : Disturb(l)

Spec == Init /\ [][Next]_vars

\* The constructor is straight-line code: a process that runs gets on with it.
Fairness == \A t \in Toolings : WF_vars(Step(t))

FairSpec == Spec /\ Fairness

-----------------------------------------------------------------------------
(* Properties.                                                             *)

\* The location that tooling t is after, once it has chosen.
Target(t) == LocationOf[Wanted(settings[t], exeFound[t])]

\* No other program touched the target, and it could be created.
Undisturbed(t) == Target(t) \in Creatable \ disturbed

\* Processes that test for, create and resolve one directory at the same
\* time, under several names, do not harm each other: a constructor that
\* gets to its end has the absolute path of the directory it asked for, and
\* the directory is there (the three steps from PathExists on).
RacesAreHarmless ==
  \A t \in Toolings :
    pc[t] = "done" /\ Undisturbed(t) =>
      outDir[t] = Target(t) /\ fs[outDir[t]] = "directory"

\* A constructor ends the process only in a debug build, and only because of
\* the script, the lack of a directory of the executable, or somebody who
\* changed the output directory; not because of another constructor.
AbortsHaveACause ==
  \A t \in Toolings :
    pc[t] = "aborted" =>
      /\ t \in DebugBuilds
      /\ \/ loaded[t] = "misused"
         \/ loaded[t] = "failed" /\ settings[t] # NoName
         \/ ~exeFound[t]
         \/ ~Undisturbed(t)

\* "skip on fail of settings loading, fallback to defaults": the outcome of a
\* failed script in a debug build is the default directory or none, never one
\* that the script wrote before it failed (DCHECK(settings_.outDir.empty())).
FailedScriptMeansDefault ==
  \A t \in DebugBuilds :
    loaded[t] = "failed" /\ pc[t] = "done" =>
      outDir[t] = LocationOf[DefaultName]

\* Whatever other programs do to the file system, every constructor ends.
SetupEnds == \A t \in Toolings : <>(pc[t] \in Ended)

=============================================================================
