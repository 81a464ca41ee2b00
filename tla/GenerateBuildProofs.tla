------------------------- MODULE GenerateBuildProofs -------------------------
(***************************************************************************)
(* Proofs about GenerateBuild, for any versions that flextool refuses and  *)
(* any number of edits and interruptions.                                  *)
(***************************************************************************)
EXTENDS GenerateBuild, TLAPS

Known == Inputs \cup {"plugin"}

\* The turn of input f.
Turn(f) == IF f = "FooImpl.hpp" THEN 1 ELSE IF f = "Foo.hpp" THEN 2 ELSE 3

\* The outputs are removed and made in turn.
Progress ==
  \A f \in Inputs :
    /\ pc = "remove" /\ Turn(f) < unit => ~Present(f)
    /\ pc = "load" => unit = 1 /\ ~Present(f)
    /\ pc \in {"parse", "write"} => (Present(f) <=> Turn(f) < unit)
    /\ pc \in {"remove", "load"} => used[f] = 0
    /\ pc = "parse" /\ unit <= Turn(f) => used[f] = 0
    /\ pc = "write" /\ unit < Turn(f) => used[f] = 0

\* The outputs of the process at work were made from what it has read.
MadeFromUsed ==
  /\ pc \in {"parse", "write"} =>
       \A f \in Inputs : \A s \in Known :
         Present(f) => gen[f].from[s] \in {0, used[s]}
  /\ pc = "write" => headers = [g \in Includes(file) |-> gen[g].from]

\* What the process at work has read is current, or an edit was noticed.
ReadIsCurrent ==
  pc \in {"parse", "write"} =>
    \A s \in Known :
      \/ used[s] \in {0, source[s]}
      \/ s \in raced
      \/ \E f \in Inputs : Present(f) /\ outdated[f]

IInv ==
  /\ TypeOK
  /\ Progress
  /\ MadeFromUsed
  /\ ReadIsCurrent
  /\ OutputsFitTogether
  /\ QuietMeansCurrent
  /\ \A s \in Sources : source[s] <= edits + 1

-----------------------------------------------------------------------------
(* The order of the files.                                                 *)

\* There are three turns.
LEMMA Positions ==
  DOMAIN flextool_input_files = 1 .. 3 /\ Len(flextool_input_files) = 3
BY DEF flextool_input_files

\* Every turn is that of one input.
LEMMA Files ==
  ASSUME unit \in DOMAIN flextool_input_files
  PROVE  /\ unit \in 1 .. 3
         /\ file \in Inputs
         /\ Turn(file) = unit
         /\ isLast <=> unit = 3
         /\ \A f \in Inputs : Turn(f) \in 1 .. 3 /\ (Turn(f) = unit => f = file)
<1>1. DOMAIN flextool_input_files = 1 .. 3 /\ Len(flextool_input_files) = 3
  BY Positions
<1>2. /\ flextool_input_files[1] = "FooImpl.hpp"
      /\ flextool_input_files[2] = "Foo.hpp"
      /\ flextool_input_files[3] = "Foo.cc"
  BY DEF flextool_input_files
<1>3. unit = 1 \/ unit = 2 \/ unit = 3
  BY <1>1
<1>4. file = IF unit = 1 THEN "FooImpl.hpp" ELSE
             IF unit = 2 THEN "Foo.hpp" ELSE "Foo.cc"
  BY <1>2, <1>3 DEF file
<1> QED
  BY <1>1, <1>3, <1>4 DEF isLast, Turn, Inputs

\* An output is not the absent one.
LEMMA OutputsArePresent ==
  ASSUME NEW from \in Snapshot, NEW h
  PROVE  [from |-> from, headers |-> h] # Absent
<1>1. "headers" \in DOMAIN [from |-> from, headers |-> h]
  OBVIOUS
<1>2. "headers" \notin DOMAIN Absent
  BY DEF Absent
<1> QED
  BY <1>1, <1>2

-----------------------------------------------------------------------------
(* Preservation, one lemma per action.                                     *)

\* The command is started.
LEMMA StartStep ==
  ASSUME IInv, StartBuild
  PROVE  IInv'
<1> USE DEF StartBuild
<1>1. TypeOK'
  BY Positions, BuildAssumption DEF IInv, TypeOK, Unread, Snapshot
<1>2. Progress'
  BY Files DEF IInv, Progress, Unread, Turn, Inputs, Sources
<1>3. MadeFromUsed' /\ ReadIsCurrent'
  BY DEF MadeFromUsed, ReadIsCurrent
<1>4. OutputsFitTogether'
  BY DEF IInv, OutputsFitTogether, Present
<1>5. QuietMeansCurrent'
  BY DEF QuietMeansCurrent, Outdated, Present
<1> QED
  BY <1>1, <1>2, <1>3, <1>4, <1>5 DEF IInv

\* An output is removed.
LEMMA RemoveStep ==
  ASSUME IInv, RemoveOutput
  PROVE  IInv'
<1> USE DEF RemoveOutput
<1>1. TypeOK /\ unit \in 1 .. 3 /\ file \in Inputs
  BY Files DEF IInv, TypeOK
<1>2. /\ gen'[file] = Absent
      /\ \A f \in Inputs : f # file => gen'[f] = gen[f]
      /\ \A f \in Inputs : Present(f)' => Present(f) /\ gen'[f] = gen[f]
  BY <1>1 DEF TypeOK, Present
<1>3. TypeOK'
  BY <1>1, Files, Positions DEF TypeOK
<1>4. Progress'
  <2>1. ASSUME NEW f \in Inputs, Turn(f) <= unit PROVE ~Present(f)'
    BY <1>1, <1>2, <2>1, Files DEF IInv, TypeOK, Progress, Present
  <2>2. \A f \in Inputs : used'[f] = 0
    BY DEF IInv, Progress
  <2> QED
    BY <1>1, <2>1, <2>2, Files DEF IInv, TypeOK, Progress
<1>5. MadeFromUsed' /\ ReadIsCurrent'
  BY DEF MadeFromUsed, ReadIsCurrent
<1>6. OutputsFitTogether'
  BY <1>2 DEF IInv, OutputsFitTogether
<1>7. QuietMeansCurrent'
  BY <1>1, <1>2 DEF QuietMeansCurrent, Outdated, Present
<1> QED
  BY <1>3, <1>4, <1>5, <1>6, <1>7 DEF IInv

\* flextool loads the plugin.
LEMMA LoadStep ==
  ASSUME IInv, LoadPlugin
  PROVE  IInv'
<1> USE DEF LoadPlugin
<1>1. TypeOK'
  BY DEF IInv, TypeOK, Snapshot, Version, Sources, Inputs
<1>2. Progress'
  BY Files DEF IInv, TypeOK, Progress, Present, Snapshot, Sources, Inputs
<1>3. MadeFromUsed' /\ ReadIsCurrent'
  BY DEF IInv, TypeOK, Progress, MadeFromUsed, ReadIsCurrent, Present, Known,
         Snapshot, Sources
<1>4. OutputsFitTogether' /\ QuietMeansCurrent'
  BY DEF IInv, OutputsFitTogether, QuietMeansCurrent, Outdated, Present
<1> QED
  BY <1>1, <1>2, <1>3, <1>4 DEF IInv

\* flextool reads an input, or dies of it.
LEMMA ParseStep ==
  ASSUME IInv, Parse
  PROVE  IInv'
<1> USE DEF Parse
<1>1. TypeOK /\ unit \in 1 .. 3 /\ file \in Inputs
  BY Files DEF IInv, TypeOK
<1>2. CASE Fails(file)
  <2>1. TypeOK' /\ Progress' /\ MadeFromUsed' /\ ReadIsCurrent'
    BY <1>2 DEF IInv, TypeOK, Progress, MadeFromUsed, ReadIsCurrent
  <2>2. OutputsFitTogether' /\ QuietMeansCurrent'
    BY <1>2
    DEF IInv, OutputsFitTogether, QuietMeansCurrent, Outdated, Present
  <2> QED
    BY <1>2, <2>1, <2>2 DEF IInv
<1>3. CASE ~Fails(file)
  <2>1. /\ used' = [s \in Sources |->
                      IF s \in Reads(file) THEN source[s] ELSE used[s]]
        /\ headers' = [g \in Includes(file) |-> gen[g].from]
        /\ pc' = "write"
    BY <1>3
  <2>2. \A s \in Known : s # file => used'[s] = used[s]
    BY <2>1 DEF Known, Reads, Sources, Inputs
  <2>3. used'[file] = source[file] /\ used[file] = 0
    <3>1. file \in Sources /\ file \in Reads(file)
      BY <1>1 DEF Sources, Reads
    <3>2. used[file] = 0
      BY <1>1, Files DEF IInv, TypeOK, Progress
    <3> QED
      BY <2>1, <3>1, <3>2
  <2>4. \A g \in Includes(file) : Present(g)
    BY <1>3 DEF Fails
  <2>5. headers' \in Headers
    <3>1. \A g \in Includes(file) : gen[g].from \in Snapshot
      BY <1>1, <2>4 DEF TypeOK, Output, Present, Includes, Inputs
    <3>2. Includes(file) = {} \/ Includes(file) = {"FooImpl.hpp", "Foo.hpp"}
      BY DEF Includes
    <3> QED
      BY <2>1, <3>1, <3>2 DEF Headers
  <2>6. used' \in Snapshot
    BY <1>1, <2>1 DEF TypeOK, Snapshot, Version
  <2>7. TypeOK'
    BY <1>1, <2>1, <2>5, <2>6 DEF TypeOK
  <2>8. Progress'
    BY <1>1, <2>1, <2>2, Files
    DEF IInv, TypeOK, Progress, Present, Known
  <2>9. MadeFromUsed'
    <3>1. \A f \in Inputs : \A s \in Known :
            Present(f)' => gen'[f].from[s] \in {0, used'[s]}
      BY <2>2, <2>3 DEF IInv, MadeFromUsed, Present
    <3>2. headers' = [g \in Includes(file) |-> gen[g].from]'
      BY <2>1 DEF file
    <3> QED
      BY <3>1, <3>2 DEF MadeFromUsed
  <2>10. ReadIsCurrent'
    BY <2>2, <2>3 DEF IInv, ReadIsCurrent, Present
  <2>11. OutputsFitTogether' /\ QuietMeansCurrent'
    BY DEF IInv, OutputsFitTogether, QuietMeansCurrent, Outdated, Present
  <2> QED
    BY <2>7, <2>8, <2>9, <2>10, <2>11 DEF IInv
<1> QED
  BY <1>2, <1>3

\* flextool writes an output.
LEMMA WriteStep ==
  ASSUME IInv, Write
  PROVE  IInv'
<1> USE DEF Write
<1>1. TypeOK /\ unit \in 1 .. 3 /\ file \in Inputs /\ Turn(file) = unit
  BY Files DEF IInv, TypeOK
<1>2. PICK new : new = [from |-> used, headers |-> headers]
  OBVIOUS
<1>3. new \in Output /\ new # Absent /\ new.from = used /\ new.headers = headers
  BY <1>1, <1>2, OutputsArePresent DEF TypeOK, Output
<1>4. /\ gen'[file] = new
      /\ \A f \in Inputs : f # file => gen'[f] = gen[f]
      /\ outdated'[file] = FALSE
      /\ \A f \in Inputs : f # file => outdated'[f] = outdated[f]
  BY <1>1, <1>2 DEF TypeOK
<1>5. ~Present(file) /\ \A f \in Inputs : Present(f) <=> Turn(f) < unit
  BY <1>1 DEF IInv, Progress
<1>6. \A f \in Inputs : gen'[f] # Absent <=> Present(f) \/ f = file
  BY <1>3, <1>4 DEF Present
<1>7. \A f \in Inputs : \A s \in Known :
        gen'[f] # Absent => gen'[f].from[s] \in {0, used[s]}
  BY <1>3, <1>4, <1>6 DEF IInv, MadeFromUsed
<1>8. TypeOK'
  <2>1. gen' \in [Inputs -> Output \cup {Absent}]
    BY <1>1, <1>2, <1>3 DEF TypeOK
  <2>2. outdated' \in [Inputs -> BOOLEAN]
    BY <1>1 DEF TypeOK
  <2>3. unit' \in DOMAIN flextool_input_files
    BY <1>1, Files, Positions DEF TypeOK
  <2> QED
    BY <1>1, <2>1, <2>2, <2>3 DEF TypeOK
<1>9. Progress'
  <2>1. CASE isLast
    BY <2>1 DEF Progress
  <2>2. CASE ~isLast
    <3>1. \A f \in Inputs : Turn(f) \in 1 .. 3 /\ (Turn(f) = unit <=> f = file)
      BY <1>1, Files DEF TypeOK
    <3>2. \A f \in Inputs : gen'[f] # Absent <=> Turn(f) < unit + 1
      BY <1>1, <1>5, <1>6, <3>1
    <3>3. \A f \in Inputs : unit + 1 <= Turn(f) => used[f] = 0
      BY <1>1, <3>1 DEF IInv, Progress
    <3> QED
      BY <2>2, <3>2, <3>3 DEF Progress, Present
  <2> QED
    BY <2>1, <2>2
<1>10. MadeFromUsed'
  BY <1>7 DEF MadeFromUsed, Present
<1>11. ReadIsCurrent'
  <2>1. \A f \in Inputs : Present(f) => gen'[f] # Absent /\ outdated'[f] = outdated[f]
    BY <1>4, <1>5, <1>6
  <2> QED
    BY <2>1 DEF IInv, ReadIsCurrent, Present
<1>12. OutputsFitTogether'
  <2> SUFFICES ASSUME NEW f \in Inputs, NEW g \in Inputs,
                      gen'[f] # Absent, gen'[g] # Absent
               PROVE  /\ \A s \in Inputs \cup {"plugin"} :
                           gen'[f].from[s] # 0 /\ gen'[g].from[s] # 0 =>
                             gen'[f].from[s] = gen'[g].from[s]
                      /\ g \in Includes(f) => gen'[f].headers[g] = gen'[g].from
    BY DEF OutputsFitTogether, Present
  <2>1. \A s \in Inputs \cup {"plugin"} :
          gen'[f].from[s] # 0 /\ gen'[g].from[s] # 0 =>
            gen'[f].from[s] = gen'[g].from[s]
    BY <1>7 DEF Known
  <2>2. ASSUME g \in Includes(f) PROVE gen'[f].headers[g] = gen'[g].from
    <3>1. f = "Foo.cc" /\ g # "Foo.cc"
      BY <2>2 DEF Includes
    <3>2. ~Present(f)
      BY <1>1, <1>5, <3>1 DEF Turn
    <3>3. f = file /\ g # file
      BY <1>6, <3>1, <3>2
    <3>4. headers[g] = gen[g].from
      BY <2>2, <3>3 DEF IInv, MadeFromUsed
    <3> QED
      BY <1>3, <1>4, <3>3, <3>4
  <2> QED
    BY <2>1, <2>2
<1>13. QuietMeansCurrent'
  <2> SUFFICES ASSUME \A f \in Inputs : gen'[f] # Absent /\ ~outdated'[f],
                      NEW f \in Inputs, NEW s \in Known \ raced
               PROVE  gen'[f].from[s] \in {0, source[s]}
    BY DEF QuietMeansCurrent, Outdated, Present, Known
  <2>1. \A h \in Inputs : Present(h) => ~outdated[h]
    BY <1>4, <1>5
  <2>2. used[s] \in {0, source[s]}
    BY <2>1 DEF IInv, ReadIsCurrent
  <2> QED
    BY <1>7, <2>2
<1> QED
  BY <1>8, <1>9, <1>10, <1>11, <1>12, <1>13 DEF IInv

\* Somebody edits a source while a command may run.
LEMMA EditStep ==
  ASSUME IInv, NEW s \in Sources, Edit(s)
  PROVE  IInv'
<1> USE DEF Edit
<1>1. /\ TypeOK
      /\ \A q \in Sources : q # s => source'[q] = source[q]
      /\ \A f \in Inputs : gen'[f] = gen[f]
      /\ \A f \in Inputs : outdated[f] => outdated'[f]
  BY DEF IInv, TypeOK
<1>2. s \in Known => s \in DEPENDS
  BY DEF Known, DEPENDS
<1>3. TypeOK' /\ \A q \in Sources : source'[q] <= edits' + 1
  <2>1. source' \in [Sources -> Version]
        /\ \A q \in Sources : source'[q] <= edits' + 1
    BY <1>1, BuildAssumption DEF IInv, TypeOK, Version
  <2>2. outdated' \in [Inputs -> BOOLEAN]
    BY <1>1 DEF TypeOK
  <2>3. edits' \in 0 .. MaxEdits
    BY <1>1, BuildAssumption DEF TypeOK
  <2> QED
    BY <1>1, <2>1, <2>2, <2>3 DEF TypeOK
<1>4. Progress' /\ MadeFromUsed' /\ OutputsFitTogether'
  BY DEF IInv, Progress, MadeFromUsed, OutputsFitTogether, Present, file
<1>5. ReadIsCurrent'
  <2> SUFFICES ASSUME pc \in {"parse", "write"}, NEW q \in Known
               PROVE  \/ used[q] \in {0, source'[q]}
                      \/ q \in raced'
                      \/ \E f \in Inputs : Present(f) /\ outdated'[f]
    BY DEF ReadIsCurrent, Present
  <2>1. q \in Sources /\ raced \subseteq raced'
    BY DEF Known, Sources
  <2>2. CASE q = s /\ used[s] # 0
    <3>1. CASE \A f \in Inputs : ~Present(f)
      BY <2>2, <3>1
    <3>2. CASE \E f \in Inputs : Present(f)
      BY <1>2, <2>2, <3>2
    <3> QED
      BY <3>1, <3>2
  <2>3. CASE q # s \/ used[s] = 0
    BY <1>1, <2>1, <2>3 DEF IInv, ReadIsCurrent
  <2> QED
    BY <2>2, <2>3
<1>6. QuietMeansCurrent'
  <2> SUFFICES ASSUME \A f \in Inputs : Present(f) /\ ~outdated'[f],
                      NEW f \in Inputs, NEW q \in Known \ raced'
               PROVE  gen[f].from[q] \in {0, source'[q]}
    BY DEF QuietMeansCurrent, Outdated, Present, Known
  <2>1. ~Outdated /\ q \in Sources /\ raced \subseteq raced'
    BY <1>1 DEF Outdated, Known, Sources
  <2>2. s \notin DEPENDS
    <3>1. outdated'["Foo.cc"] = FALSE /\ Present("Foo.cc")
      BY <1>1 DEF Inputs, TypeOK
    <3> QED
      BY <3>1 DEF Inputs
  <2>3. q # s
    BY <1>2, <2>2
  <2> QED
    BY <1>1, <2>1, <2>3 DEF IInv, QuietMeansCurrent, Known
<1> QED
  BY <1>3, <1>4, <1>5, <1>6 DEF IInv

\* A run is interrupted.
LEMMA InterruptStep ==
  ASSUME IInv, Interrupt
  PROVE  IInv'
<1> USE DEF Interrupt
<1>1. TypeOK'
  BY BuildAssumption DEF IInv, TypeOK
<1>2. Progress' /\ MadeFromUsed' /\ ReadIsCurrent'
  BY DEF Progress, MadeFromUsed, ReadIsCurrent
<1>3. OutputsFitTogether' /\ QuietMeansCurrent'
  BY DEF IInv, OutputsFitTogether, QuietMeansCurrent, Outdated, Present
<1> QED
  BY <1>1, <1>2, <1>3 DEF IInv

-----------------------------------------------------------------------------
(* Theorems.                                                               *)

\* The invariant of the build is inductive.
THEOREM Invariance == Spec => []IInv
<1>1. Init => IInv
  <2> SUFFICES ASSUME Init PROVE IInv
    OBVIOUS
  <2>1. TypeOK /\ \A s \in Sources : source[s] <= edits + 1
    BY Positions, BuildAssumption
    DEF Init, TypeOK, Version, Snapshot, Unread, Headers
  <2>2. Progress /\ MadeFromUsed /\ ReadIsCurrent
    BY DEF Init, Progress, MadeFromUsed, ReadIsCurrent
  <2>3. OutputsFitTogether /\ QuietMeansCurrent
    BY DEF Init, OutputsFitTogether, QuietMeansCurrent, Outdated, Present, Inputs
  <2> QED
    BY <2>1, <2>2, <2>3 DEF IInv
<1>2. IInv /\ [Next]_vars => IInv'
  <2> SUFFICES ASSUME IInv, [Next]_vars PROVE IInv'
    OBVIOUS
  <2>1. CASE UNCHANGED vars
    BY <2>1
    DEF vars, IInv, TypeOK, Progress, MadeFromUsed, ReadIsCurrent,
        OutputsFitTogether, QuietMeansCurrent, Outdated, Present, file
  <2>2. CASE Command
    BY <2>2, StartStep, RemoveStep, LoadStep, ParseStep, WriteStep DEF Command
  <2> QED
    BY <2>1, <2>2, EditStep, InterruptStep DEF Next
<1> QED
  BY <1>1, <1>2, PTL DEF Spec

\* Every reachable state of the build is well typed.
THEOREM TypeCorrect == Spec => []TypeOK
<1>1. IInv => TypeOK
  BY DEF IInv
<1> QED
  BY <1>1, Invariance, PTL

\* After any number of edits, aborts and interruptions the outputs that are
\* there were made from one version of every file of DEPENDS.
THEOREM OutputsAreOfOnePiece == Spec => []OutputsFitTogether
<1>1. IInv => OutputsFitTogether
  BY DEF IInv
<1> QED
  BY <1>1, Invariance, PTL

\* A build that the build tool leaves alone is current, but for edits made
\* between the reading of a file and the first output.
THEOREM QuietBuildsAreCurrent == Spec => []QuietMeansCurrent
<1>1. IInv => QuietMeansCurrent
  BY DEF IInv
<1> QED
  BY <1>1, Invariance, PTL

-----------------------------------------------------------------------------
(* Runs of the command.                                                    *)

\* The process at work has read the files whose turn is over.
ReadInTurn ==
  /\ pc \in {"parse", "write"} =>
       \A f \in Inputs : Turn(f) < unit => used[f] # 0
  /\ pc = "write" => used[file] # 0

\* No step lets the process at work go on without having read a file.
LEMMA ReadInTurnStep ==
  ASSUME IInv, ReadInTurn, [Next]_vars
  PROVE  ReadInTurn'
<1>1. TypeOK /\ unit \in 1 .. 3 /\ file \in Inputs /\ Turn(file) = unit
  BY Files DEF IInv, TypeOK
<1>2. \A s \in Sources : source[s] # 0
  BY <1>1 DEF TypeOK, Version
<1>3. CASE StartBuild \/ RemoveOutput \/ Interrupt
  BY <1>3 DEF StartBuild, RemoveOutput, Interrupt, ReadInTurn
<1>4. CASE LoadPlugin
  <2>1. unit = 1
    BY <1>1, <1>4 DEF LoadPlugin, IInv, Progress
  <2> QED
    BY <1>4, <2>1, Files, <1>1 DEF LoadPlugin, ReadInTurn, TypeOK
<1>5. CASE Parse
  <2>1. CASE Fails(file)
    BY <1>5, <2>1 DEF Parse, ReadInTurn
  <2>2. CASE ~Fails(file)
    <3>1. \A s \in Sources : used'[s] = IF s \in Reads(file) THEN source[s] ELSE used[s]
      BY <1>5, <2>2 DEF Parse
    <3>2. unit' = unit /\ file' = file /\ file \in Reads(file)
      BY <1>5 DEF Parse, file, Reads
    <3>3. Inputs \subseteq Sources
      BY DEF Sources
    <3> QED
      BY <1>1, <1>2, <1>5, <3>1, <3>2, <3>3 DEF Parse, ReadInTurn
  <2> QED
    BY <2>1, <2>2
<1>6. CASE Write
  <2>1. CASE isLast
    BY <1>6, <2>1 DEF Write, ReadInTurn
  <2>2. CASE ~isLast
    <3>1. \A f \in Inputs : Turn(f) < unit + 1 => Turn(f) < unit \/ f = file
      BY <1>1, Files DEF TypeOK
    <3> QED
      BY <1>6, <2>2, <3>1 DEF Write, ReadInTurn
  <2> QED
    BY <2>1, <2>2
<1>7. ASSUME NEW s \in Sources, Edit(s) PROVE ReadInTurn'
  BY <1>7 DEF Edit, ReadInTurn, file
<1>8. CASE UNCHANGED vars
  BY <1>8 DEF vars, ReadInTurn, file
<1> QED
  BY <1>3, <1>4, <1>5, <1>6, <1>7, <1>8 DEF Next, Command

\* When its turn comes, everything a file needs and includes is there.
LEMMA NothingIsMissing ==
  ASSUME IInv, ReadInTurn, pc = "parse", Acceptable
  PROVE  ~Fails(file)
<1>1. unit \in 1 .. 3 /\ file \in Inputs /\ Turn(file) = unit
  BY Files DEF IInv, TypeOK
<1>2. \A g \in Needs(file) : used[g] # 0
  BY <1>1 DEF Needs, Turn, Inputs, ReadInTurn
<1>3. \A g \in Includes(file) : Present(g)
  BY <1>1 DEF Includes, Turn, Inputs, IInv, Progress
<1>4. Reads(file) \cup {"plugin"} \subseteq Sources
  BY <1>1 DEF Reads, Sources
<1> QED
  BY <1>2, <1>3, <1>4 DEF Fails, Acceptable

\* A step that ends a run has written the last output, found a source that
\* flextool refuses, or is an interruption.
LEMMA EndOfRun ==
  ASSUME IInv, ReadInTurn, [Next]_vars, pc # "idle", pc' = "idle",
         interrupts' = interrupts, Acceptable
  PROVE  \A f \in Inputs : Present(f)'
<1>1. TypeOK /\ unit \in 1 .. 3 /\ file \in Inputs
      /\ \A f \in Inputs : Turn(f) \in 1 .. 3 /\ (Turn(f) = unit => f = file)
  BY Files DEF IInv, TypeOK
<1>2. ~StartBuild /\ ~RemoveOutput /\ ~LoadPlugin /\ ~UNCHANGED vars
  BY DEF StartBuild, RemoveOutput, LoadPlugin, vars
<1>3. ~Interrupt /\ \A s \in Sources : ~Edit(s)
  BY <1>1 DEF TypeOK, Interrupt, Edit
<1>4. ~Parse
  BY NothingIsMissing DEF Parse
<1>5. Write /\ isLast
  BY <1>2, <1>3, <1>4 DEF Next, Command, Write
<1>6. unit = 3
  BY <1>5, Files DEF IInv, TypeOK
<1>7. ASSUME NEW f \in Inputs, f # file PROVE gen'[f] # Absent
  BY <1>1, <1>5, <1>6, <1>7 DEF Write, IInv, Progress, Present, TypeOK
<1>8. gen'[file] # Absent
  <2>1. gen'[file] = [from |-> used, headers |-> headers]
    BY <1>1, <1>5 DEF Write, TypeOK
  <2> QED
    BY <1>1, <2>1, OutputsArePresent DEF TypeOK
<1> QED
  BY <1>7, <1>8 DEF Present

\* With sources that flextool accepts, only an interruption keeps a run from
\* making all outputs.
THEOREM RunsMakeAllOutputs == Spec => RunsDeliver
<1>1. Init => ReadInTurn
  BY DEF Init, ReadInTurn
<1>2. IInv /\ ReadInTurn /\ [Next]_vars
      => [pc # "idle" /\ pc' = "idle" /\ interrupts' = interrupts /\ Acceptable =>
            \A f \in Inputs : Present(f)']_vars
  BY EndOfRun
<1> QED
  BY <1>1, <1>2, ReadInTurnStep, Invariance, PTL DEF Spec, RunsDeliver

-----------------------------------------------------------------------------
(* The part of BuildComesToRest that needs no fairness.                    *)

\* How far the run is: three removals, the start, three units in two steps.
Rank ==
  CASE pc = "remove" -> unit
    [] pc = "load" -> 4
    [] pc = "parse" -> 3 + 2 * unit
    [] pc = "write" -> 4 + 2 * unit
    [] OTHER -> 0

\* A step of the command ends the run or brings it one step further.
LEMMA CommandAdvances ==
  ASSUME IInv, Command
  PROVE  pc' = "idle" \/ (Rank' = Rank + 1 /\ Rank' <= 10)
<1>1. TypeOK /\ unit \in 1 .. 3 /\ (isLast <=> unit = 3)
  BY Files DEF IInv, TypeOK
<1>2. pc = "load" => unit = 1
  BY DEF IInv, Progress, Inputs
<1>3. CASE StartBuild
  BY <1>3 DEF StartBuild, Rank
<1>4. CASE RemoveOutput
  BY <1>1, <1>4 DEF RemoveOutput, Rank
<1>5. CASE LoadPlugin
  BY <1>1, <1>2, <1>5 DEF LoadPlugin, Rank
<1>6. CASE Parse
  BY <1>1, <1>6 DEF Parse, Rank
<1>7. CASE Write
  BY <1>1, <1>7 DEF Write, Rank
<1> QED
  BY <1>3, <1>4, <1>5, <1>6, <1>7 DEF Command

\* A run of the command ends after ten steps of its own, whoever edits the
\* sources meanwhile: an edit never sends it back.
THEOREM RunsAreShort ==
  Spec => [][ \/ pc' = "idle"
              \/ Rank' = Rank + 1 /\ Rank' <= 10
              \/ Rank' = Rank /\ source' # source ]_vars
<1>1. ASSUME IInv, NEW s \in Sources, Edit(s)
      PROVE  Rank' = Rank /\ source' # source
  <2>1. source[s] \in Nat /\ source'[s] = source[s] + 1
    BY <1>1 DEF IInv, TypeOK, Version, Edit
  <2> QED
    BY <1>1, <2>1 DEF Edit, Rank
<1>2. IInv /\ [Next]_vars
      => [ \/ pc' = "idle"
           \/ Rank' = Rank + 1 /\ Rank' <= 10
           \/ Rank' = Rank /\ source' # source ]_vars
  BY <1>1, CommandAdvances DEF Next, Interrupt
<1> QED
  BY <1>2, Invariance, PTL DEF Spec

=============================================================================
