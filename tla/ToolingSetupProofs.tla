------------------------- MODULE ToolingSetupProofs -------------------------
(***************************************************************************)
(* Proofs about ToolingSetup, for any number of processes and directories. *)
(***************************************************************************)
EXTENDS ToolingSetup, Integers, TLAPS

Chosen == {"test", "create", "resolve", "done"}

\* While a constructor works on outDir_ the name is the one it asked for, and
\* afterwards it is the location of that name or empty.
OutDirIsTarget ==
  \A t \in Toolings :
    /\ pc[t] \in {"test", "create", "resolve"} =>
         outDir[t] = Wanted(settings[t], exeFound[t])
    /\ pc[t] = "done" /\ outDir[t] # Target(t) =>
         t \notin DebugBuilds /\ outDir[t] = NoName

\* A file never appears without a disturbance.
FilesAreForeign == \A l \in Locations : fs[l] = "file" => l \in disturbed

\* After the creation an undisturbed target is a directory.
TargetIsMade ==
  \A t \in Toolings :
    pc[t] = "resolve" /\ Undisturbed(t) => fs[Target(t)] = "directory"

\* A debug build gets past the DCHECKs of the script and of dir_exe_ only
\* when they hold.
DebugChecks ==
  \A t \in DebugBuilds :
    /\ pc[t] \in Chosen \cup {"choose"} =>
         loaded[t] # "misused" /\ (loaded[t] = "failed" => settings[t] = NoName)
    /\ pc[t] \in Chosen => exeFound[t]

IInv ==
  /\ TypeOK
  /\ OutDirIsTarget
  /\ FilesAreForeign
  /\ TargetIsMade
  /\ DebugChecks
  /\ RacesAreHarmless
  /\ AbortsHaveACause

-----------------------------------------------------------------------------
(* Preservation, one lemma per step of the constructor.                    *)

\* Every target is a location: the wanted name is a name in any case.
LEMMA TargetType ==
  ASSUME TypeOK, NEW t \in Toolings
  PROVE  /\ Wanted(settings[t], exeFound[t]) \in Names
         /\ Target(t) \in Locations
BY SetupAssumption DEF TypeOK, Wanted, Target, Locations

\* The script is run.
LEMMA LoadStep ==
  ASSUME IInv, NEW t \in Toolings, LoadSettings(t)
  PROVE  IInv'
<1> USE SetupAssumption DEF LoadSettings, Goto
<1>1. TypeOK'
  BY TargetType DEF IInv, TypeOK, Ended
<1>2. OutDirIsTarget'
  BY TargetType DEF IInv, TypeOK, OutDirIsTarget, Target, Wanted
<1>3. FilesAreForeign'
  BY TargetType DEF IInv, TypeOK, FilesAreForeign
<1>4. TargetIsMade'
  BY TargetType
  DEF IInv, TypeOK, TargetIsMade, OutDirIsTarget, FilesAreForeign,
      Undisturbed, Target
<1>5. DebugChecks'
  BY TargetType DEF IInv, TypeOK, DebugChecks, Chosen
<1>6. RacesAreHarmless'
  BY TargetType
  DEF IInv, TypeOK, RacesAreHarmless, TargetIsMade, OutDirIsTarget,
      Undisturbed, Target
<1>7. AbortsHaveACause'
  BY TargetType
  DEF IInv, TypeOK, AbortsHaveACause, OutDirIsTarget, TargetIsMade,
      DebugChecks, Chosen, Undisturbed, Target
<1> QED
  BY <1>1, <1>2, <1>3, <1>4, <1>5, <1>6, <1>7 DEF IInv

\* The directory is chosen.
LEMMA ChooseStep ==
  ASSUME IInv, NEW t \in Toolings, ChooseDir(t)
  PROVE  IInv'
<1> USE SetupAssumption DEF ChooseDir, Goto
<1>1. TypeOK'
  BY TargetType DEF IInv, TypeOK, Ended, Wanted
<1>2. OutDirIsTarget'
  BY TargetType DEF IInv, TypeOK, OutDirIsTarget, Target, Wanted
<1>3. FilesAreForeign'
  BY TargetType DEF IInv, TypeOK, FilesAreForeign
<1>4. TargetIsMade'
  BY TargetType
  DEF IInv, TypeOK, TargetIsMade, OutDirIsTarget, FilesAreForeign,
      Undisturbed, Target
<1>5. DebugChecks'
  BY TargetType DEF IInv, TypeOK, DebugChecks, Chosen
<1>6. RacesAreHarmless'
  BY TargetType
  DEF IInv, TypeOK, RacesAreHarmless, TargetIsMade, OutDirIsTarget,
      Undisturbed, Target
<1>7. AbortsHaveACause'
  BY TargetType
  DEF IInv, TypeOK, AbortsHaveACause, OutDirIsTarget, TargetIsMade,
      DebugChecks, Chosen, Undisturbed, Target
<1> QED
  BY <1>1, <1>2, <1>3, <1>4, <1>5, <1>6, <1>7 DEF IInv

\* The directory is tested for.
LEMMA TestStep ==
  ASSUME IInv, NEW t \in Toolings, TestDir(t)
  PROVE  IInv'
<1> USE SetupAssumption DEF TestDir, PathExists, Goto
<1>1. TypeOK'
  BY TargetType DEF IInv, TypeOK, Ended
<1>2. OutDirIsTarget'
  BY TargetType DEF IInv, TypeOK, OutDirIsTarget, Target, Wanted
<1>3. FilesAreForeign'
  BY TargetType DEF IInv, TypeOK, FilesAreForeign
<1>4. TargetIsMade'
  BY TargetType
  DEF IInv, TypeOK, TargetIsMade, OutDirIsTarget, FilesAreForeign,
      Undisturbed, Target
<1>5. DebugChecks'
  BY TargetType DEF IInv, TypeOK, DebugChecks, Chosen
<1>6. RacesAreHarmless'
  BY TargetType
  DEF IInv, TypeOK, RacesAreHarmless, TargetIsMade, OutDirIsTarget,
      Undisturbed, Target
<1>7. AbortsHaveACause'
  BY TargetType
  DEF IInv, TypeOK, AbortsHaveACause, OutDirIsTarget, TargetIsMade,
      DebugChecks, Chosen, Undisturbed, Target
<1> QED
  BY <1>1, <1>2, <1>3, <1>4, <1>5, <1>6, <1>7 DEF IInv

\* The directory is created.
LEMMA CreateStep ==
  ASSUME IInv, NEW t \in Toolings, CreateDir(t)
  PROVE  IInv'
<1> USE SetupAssumption DEF CreateDir, MakeDirectory, DirCreated, Goto
<1>1. TypeOK'
  BY TargetType DEF IInv, TypeOK, Ended
<1>2. OutDirIsTarget'
  BY TargetType DEF IInv, TypeOK, OutDirIsTarget, Target, Wanted
<1>3. FilesAreForeign'
  BY TargetType DEF IInv, TypeOK, FilesAreForeign
<1>4. TargetIsMade'
  BY TargetType
  DEF IInv, TypeOK, TargetIsMade, OutDirIsTarget, FilesAreForeign,
      Undisturbed, Target
<1>5. DebugChecks'
  BY TargetType DEF IInv, TypeOK, DebugChecks, Chosen
<1>6. RacesAreHarmless'
  BY TargetType
  DEF IInv, TypeOK, RacesAreHarmless, TargetIsMade, OutDirIsTarget,
      Undisturbed, Target
<1>7. AbortsHaveACause'
  BY TargetType
  DEF IInv, TypeOK, AbortsHaveACause, OutDirIsTarget, TargetIsMade,
      DebugChecks, Chosen, Undisturbed, Target
<1> QED
  BY <1>1, <1>2, <1>3, <1>4, <1>5, <1>6, <1>7 DEF IInv

\* The directory is resolved.
LEMMA ResolveStep ==
  ASSUME IInv, NEW t \in Toolings, Resolve(t)
  PROVE  IInv'
<1> USE SetupAssumption DEF Resolve, PathExists, Goto
<1>1. TypeOK'
  BY TargetType DEF IInv, TypeOK, Ended, Locations
<1>2. OutDirIsTarget'
  BY TargetType DEF IInv, TypeOK, OutDirIsTarget, Target, Wanted
<1>3. FilesAreForeign'
  BY TargetType DEF IInv, TypeOK, FilesAreForeign
<1>4. TargetIsMade'
  BY TargetType
  DEF IInv, TypeOK, TargetIsMade, OutDirIsTarget, FilesAreForeign,
      Undisturbed, Target
<1>5. DebugChecks'
  BY TargetType DEF IInv, TypeOK, DebugChecks, Chosen
<1>6. RacesAreHarmless'
  BY TargetType
  DEF IInv, TypeOK, RacesAreHarmless, TargetIsMade, OutDirIsTarget,
      Undisturbed, Target
<1>7. AbortsHaveACause'
  BY TargetType
  DEF IInv, TypeOK, AbortsHaveACause, OutDirIsTarget, TargetIsMade,
      DebugChecks, Chosen, Undisturbed, Target
<1> QED
  BY <1>1, <1>2, <1>3, <1>4, <1>5, <1>6, <1>7 DEF IInv

\* Another program changes a location.
LEMMA DisturbStep ==
  ASSUME IInv, NEW l \in Locations, Disturb(l)
  PROVE  IInv'
<1> USE SetupAssumption DEF Disturb
<1>1. TypeOK'
  BY DEF IInv, TypeOK
<1>2. OutDirIsTarget' /\ DebugChecks'
  BY DEF IInv, OutDirIsTarget, DebugChecks, Target, Wanted
<1>3. FilesAreForeign'
  BY DEF IInv, TypeOK, FilesAreForeign
<1>4. TargetIsMade'
  BY DEF IInv, TypeOK, TargetIsMade, Undisturbed, Target, Wanted
<1>5. RacesAreHarmless'
  BY DEF IInv, TypeOK, RacesAreHarmless, Undisturbed, Target, Wanted
<1>6. AbortsHaveACause'
  BY DEF IInv, AbortsHaveACause, Undisturbed, Target, Wanted
<1> QED
  BY <1>1, <1>2, <1>3, <1>4, <1>5, <1>6 DEF IInv

-----------------------------------------------------------------------------
(* Theorems.                                                               *)

\* The invariant of the constructors is inductive.
THEOREM Invariance == Spec => []IInv
<1>1. Init => IInv
  BY SetupAssumption
  DEF Init, IInv, TypeOK, OutDirIsTarget, FilesAreForeign, TargetIsMade,
      DebugChecks, RacesAreHarmless, AbortsHaveACause, Chosen, Ended
<1>2. IInv /\ [Next]_vars => IInv'
  <2> SUFFICES ASSUME IInv, [Next]_vars PROVE IInv'
    OBVIOUS
  <2>1. CASE \E t \in Toolings : Step(t)
    BY <2>1, LoadStep, ChooseStep, TestStep, CreateStep, ResolveStep DEF Step
  <2>2. CASE \E l \in Locations : Disturb(l)
    BY <2>2, DisturbStep
  <2>3. CASE UNCHANGED vars
    BY <2>3
    DEF vars, IInv, TypeOK, OutDirIsTarget, FilesAreForeign, TargetIsMade,
        DebugChecks, RacesAreHarmless, AbortsHaveACause, Target, Undisturbed,
        Wanted
  <2> QED
    BY <2>1, <2>2, <2>3 DEF Next
<1> QED
  BY <1>1, <1>2, PTL DEF Spec

\* Every reachable state of the constructors and the file system is well
\* typed, and outDir_ is never empty while it is worked on.
THEOREM TypeCorrect == Spec => []TypeOK
<1>1. IInv => TypeOK
  BY DEF IInv
<1> QED
  BY <1>1, Invariance, PTL

\* Any number of constructors may race for any directories: each that ends
\* undisturbed has the directory it asked for.
THEOREM SetupIsRaceFree == Spec => []RacesAreHarmless
<1>1. IInv => RacesAreHarmless
  BY DEF IInv
<1> QED
  BY <1>1, Invariance, PTL

\* Every abort of a constructor has one of the causes listed.
THEOREM AbortsAreExplained == Spec => []AbortsHaveACause
<1>1. IInv => AbortsHaveACause
  BY DEF IInv
<1> QED
  BY <1>1, Invariance, PTL

\* In a debug build a failed script leaves the default directory.
THEOREM FailedScriptFallsBack == Spec => []FailedScriptMeansDefault
<1>1. IInv => FailedScriptMeansDefault
  BY SetupAssumption
  DEF IInv, OutDirIsTarget, DebugChecks, FailedScriptMeansDefault, Chosen,
      Target, Wanted
<1> QED
  BY <1>1, Invariance, PTL

-----------------------------------------------------------------------------
(* The part of SetupEnds that needs no fairness.                           *)

Rank(step) ==
  CASE step = "load" -> 1 [] step = "choose" -> 2 [] step = "test" -> 3
    [] step = "create" -> 4 [] step = "resolve" -> 5 [] OTHER -> 6

\* A step of a constructor brings it, and no other, further.
LEMMA StepAdvances ==
  ASSUME TypeOK, NEW t \in Toolings, Step(t)
  PROVE  Rank(pc'[t]) > Rank(pc[t]) /\ \A u \in Toolings \ {t} : pc'[u] = pc[u]
<1> USE DEF TypeOK, Goto, Rank
<1>1. CASE LoadSettings(t)
  BY <1>1 DEF LoadSettings
<1>2. CASE ChooseDir(t)
  BY <1>2 DEF ChooseDir
<1>3. CASE TestDir(t)
  BY <1>3 DEF TestDir
<1>4. CASE CreateDir(t)
  BY <1>4 DEF CreateDir
<1>5. CASE Resolve(t)
  BY <1>5 DEF Resolve
<1> QED
  BY <1>1, <1>2, <1>3, <1>4, <1>5 DEF Step

\* No constructor ever goes back, whatever the others and other programs do to
\* the directory it tests for: it ends after at most five steps of its own.
THEOREM ConstructorsMoveOn ==
  Spec => [][ \A t \in Toolings :
                pc'[t] # pc[t] => Rank(pc'[t]) > Rank(pc[t]) ]_vars
<1>1. TypeOK /\ [Next]_vars
      => [ \A t \in Toolings :
             pc'[t] # pc[t] => Rank(pc'[t]) > Rank(pc[t]) ]_vars
  BY StepAdvances DEF Next, Disturb
<1> QED
  BY <1>1, TypeCorrect, PTL DEF Spec

=============================================================================
