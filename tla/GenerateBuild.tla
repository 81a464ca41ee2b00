---------------------------- MODULE GenerateBuild ----------------------------
(***************************************************************************)
(* The custom command that generates code for the tests                    *)
(* (src/tests/CMakeLists.txt): it removes its three outputs, then flextool *)
(* parses the three input files in the order of the command line and       *)
(* writes one output for each.  The build tool runs it whenever an output  *)
(* is missing or older than a file of DEPENDS.                             *)
(*                                                                         *)
(* What reflectForPimpl learns of FooImpl.hpp lives in the memory of one   *)
(* flextool process, and Foo.cc includes the two headers that the same     *)
(* process has just generated, so the three outputs depend on each other.  *)
(* Meanwhile the sources are edited and the build may be interrupted.      *)
(***************************************************************************)
EXTENDS Integers, Sequences

CONSTANTS
  Broken,         \* <<source, version>> that flextool does not accept
  MaxEdits,       \* bound: edits of sources
  MaxInterrupts   \* bound: interrupted builds

\* Mutant of flextool_input_files: the files in alphabetical order.
flextool_input_filesSorted == <<"Foo.cc", "Foo.hpp", "FooImpl.hpp">>

\* The generated_files are listed in the same order.
flextool_input_files == <<"FooImpl.hpp", "Foo.hpp", "Foo.cc">>

Inputs == {"FooImpl.hpp", "Foo.hpp", "Foo.cc"}

\* The plugin is a file of the build too; the header is included by the inputs.
Sources == Inputs \cup {"plugin", "pimpl_annotations.hpp"}

\* Mutant of DEPENDS: the plugin is not listed.
DEPENDSInputsOnly == Inputs

DEPENDS == Inputs \cup {"plugin"}

\* The source files that clang reads for an input.
Reads(f) == {f, "pimpl_annotations.hpp"}

\* The inputs whose generated output an input includes.
Includes(f) == IF f = "Foo.cc" THEN {"FooImpl.hpp", "Foo.hpp"} ELSE {}

\* The inputs that hold the reflection that the annotations of f use.
Needs(f) == IF f = "FooImpl.hpp" THEN {} ELSE {"FooImpl.hpp"}

ASSUME BuildAssumption ==
  /\ Broken \subseteq Sources \X (1 .. MaxEdits + 1)
  /\ MaxEdits \in Nat
  /\ MaxInterrupts \in Nat

VARIABLES
  source,     \* source |-> its version
  gen,        \* input |-> its generated output, or Absent
  outdated,   \* input |-> a file of DEPENDS is newer than its output
  pc,         \* step of the custom command; "idle": not running
  unit,       \* position of the file at work
  used,       \* source |-> version this flextool process has read, or 0
  headers,    \* generated headers the unit at work was parsed against
  raced,      \* history: read by this process, edited before its first output
  edits,      \* number of edits
  interrupts  \* number of interrupted builds

vars == <<source, gen, outdated, pc, unit, used, headers, raced, edits,
          interrupts>>

Version == 1 .. MaxEdits + 1
Snapshot == [Sources -> 0 .. MaxEdits + 1]

\* An output: the versions it was made from and, for every header it includes,
\* those that the header was made from.
Headers == [{} -> Snapshot] \cup [{"FooImpl.hpp", "Foo.hpp"} -> Snapshot]
Output == [from : Snapshot, headers : Headers]
Absent == [from |-> <<>>]

TypeOK ==
  /\ source \in [Sources -> Version]
  /\ gen \in [Inputs -> Output \cup {Absent}]
  /\ outdated \in [Inputs -> BOOLEAN]
  /\ pc \in {"idle", "remove", "load", "parse", "write"}
  /\ unit \in DOMAIN flextool_input_files
  /\ used \in Snapshot
  /\ headers \in Headers
  /\ raced \subseteq Sources
  /\ edits \in 0 .. MaxEdits
  /\ interrupts \in 0 .. MaxInterrupts

Unread == [s \in Sources |-> 0]

Init ==
  /\ source = [s \in Sources |-> 1]
  /\ gen = [f \in Inputs |-> Absent]
  /\ outdated = [f \in Inputs |-> FALSE]
  /\ pc = "idle"
  /\ unit = 1
  /\ used = Unread
  /\ headers = <<>>
  /\ raced = {}
  /\ edits = 0
  /\ interrupts = 0

-----------------------------------------------------------------------------
(* The build tool and the commands.                                        *)

Present(f) == gen[f] # Absent

\* The build tool sees a reason to run the command.
Outdated == \E f \in Inputs : ~Present(f) \/ outdated[f]

\* Mutant of StartBuild: the outputs are left to be overwritten.
StartBuildInPlace ==
  /\ pc = "idle" /\ Outdated
  /\ pc' = "load" /\ unit' = 1
  /\ used' = Unread
  /\ raced' = {}
  /\ UNCHANGED <<source, gen, outdated, headers, edits, interrupts>>

StartBuild ==
  /\ pc = "idle" /\ Outdated
  /\ pc' = "remove" /\ unit' = 1
  /\ used' = Unread
  /\ raced' = {}
  /\ UNCHANGED <<source, gen, outdated, headers, edits, interrupts>>

file == flextool_input_files[unit]
isLast == unit = Len(flextool_input_files)

\* cmake -E remove, one file after the other.
RemoveOutput ==
  /\ pc = "remove"
  /\ gen' = [gen EXCEPT ![file] = Absent]
  /\ IF isLast THEN pc' = "load" /\ unit' = 1
               ELSE unit' = unit + 1 /\ UNCHANGED pc
  /\ UNCHANGED <<source, outdated, used, headers, raced, edits, interrupts>>

\* flextool starts and loads the plugin.
LoadPlugin ==
  /\ pc = "load"
  /\ used' = [used EXCEPT !["plugin"] = source["plugin"]]
  /\ pc' = "parse"
  /\ UNCHANGED <<source, gen, outdated, unit, headers, raced, edits, interrupts>>

\* A CHECK fails (no reflection, an unacceptable class) or a header is missing.
Fails(f) ==
  \/ \E s \in Reads(f) \cup {"plugin"} : <<s, source[s]>> \in Broken
  \/ \E g \in Needs(f) : used[g] = 0
  \/ \E g \in Includes(f) : ~Present(g)

\* flextool parses a unit and runs the rules on it, or dies of it.
Parse ==
  /\ pc = "parse"
  /\ IF Fails(file)
       THEN pc' = "idle" /\ UNCHANGED <<used, headers>>
       ELSE /\ used' = [s \in Sources |->
                          IF s \in Reads(file) THEN source[s] ELSE used[s]]
            /\ headers' = [g \in Includes(file) |-> gen[g].from]
            /\ pc' = "write"
  /\ UNCHANGED <<source, gen, outdated, unit, raced, edits, interrupts>>

\* Mutant of Write: the loop runs one unit too far.
WriteOnePast ==
  /\ pc = "write"
  /\ gen' = [gen EXCEPT ![file] = [from |-> used, headers |-> headers]]
  /\ outdated' = [outdated EXCEPT ![file] = FALSE]
  /\ pc' = "parse" /\ unit' = unit + 1
  /\ UNCHANGED <<source, used, headers, raced, edits, interrupts>>

\* The output of the unit is written; after the last one flextool ends.
Write ==
  /\ pc = "write"
  /\ gen' = [gen EXCEPT ![file] = [from |-> used, headers |-> headers]]
  /\ outdated' = [outdated EXCEPT ![file] = FALSE]
  /\ IF isLast THEN pc' = "idle" /\ UNCHANGED unit
               ELSE pc' = "parse" /\ unit' = unit + 1
  /\ UNCHANGED <<source, used, headers, raced, edits, interrupts>>

\* Somebody edits a source, or rebuilds the plugin: every output there is
\* becomes older than it.
Edit(s) ==
  /\ edits < MaxEdits
  /\ edits' = edits + 1
  /\ source' = [source EXCEPT ![s] = @ + 1]
  /\ outdated' = [f \in Inputs |-> outdated[f] \/ (Present(f) /\ s \in DEPENDS)]
  /\ raced' = IF used[s] # 0 /\ \A f \in Inputs : ~Present(f)
                THEN raced \cup {s} ELSE raced
  /\ UNCHANGED <<gen, pc, unit, used, headers, interrupts>>

\* The build is interrupted or flextool crashes: the files stay as they are.
Interrupt ==
  /\ pc # "idle"
  /\ interrupts < MaxInterrupts
  /\ interrupts' = interrupts + 1
  /\ pc' = "idle"
  /\ UNCHANGED <<source, gen, outdated, unit, used, headers, raced, edits>>

Command == StartBuild \/ RemoveOutput \/ LoadPlugin \/ Parse \/ Write

Next == Command \/ Interrupt \/ \E s \in Sources : Edit(s)

Spec == Init /\ [][Next]_vars

\* A command that was started goes on, and the build is started again as long
\* as the build tool sees a reason to.
FairSpec == Spec /\ WF_vars(Command)

-----------------------------------------------------------------------------
(* Properties.                                                             *)

\* Whatever was edited or interrupted, the outputs that lie in the directory
\* fit together: they were made from the same version of every file of
\* DEPENDS, so header and source list the methods of one reflection, and
\* Foo.cc was parsed against the generated headers that are there ("Removing
\* ${generated_files}" before the command runs).
OutputsFitTogether ==
  \A f, g \in Inputs :
    Present(f) /\ Present(g) =>
      /\ \A s \in Inputs \cup {"plugin"} :
           gen[f].from[s] # 0 /\ gen[g].from[s] # 0 =>
             gen[f].from[s] = gen[g].from[s]
      /\ g \in Includes(f) => gen[f].headers[g] = gen[g].from

\* "code generator COMMAND will only be launched if some of DEPENDS files
\* were changed": when the build tool sees no reason to run it, no file of
\* DEPENDS has another version than the one the outputs were made from.  The
\* one exception is an edit between the reading of a file and the first
\* output of that run, which leaves an output that is newer than the edit.
QuietMeansCurrent ==
  ~Outdated =>
    \A f \in Inputs : \A s \in (Inputs \cup {"plugin"}) \ raced :
      gen[f].from[s] \in {0, source[s]}

Acceptable == \A s \in Sources : <<s, source[s]>> \notin Broken

\* A run of the command that nobody interrupts and whose sources flextool
\* accepts makes all outputs, whatever an earlier run left behind: what a file
\* needs or includes comes before it (the order of flextool_input_files).
RunsDeliver ==
  [][pc # "idle" /\ pc' = "idle" /\ interrupts' = interrupts /\ Acceptable =>
       \A f \in Inputs : Present(f)']_vars

\* Once edits and interruptions are over and flextool accepts the sources,
\* the build comes to rest with all its outputs, even if an abort left none
\* or some of them (remove, then generate, in this order of the inputs).
BuildComesToRest == <>[]Acceptable => <>[](pc = "idle" /\ ~Outdated)

=============================================================================
