--------------------------- MODULE PluginLifecycle ---------------------------
(***************************************************************************)
(* The plugin object, its event handler and the pimplTooling it owns       *)
(* (src/src/plugin_main.cc, src/src/EventHandler.cc), driven by a host     *)
(* that loads the plugin, connects it to an event dispatcher, delivers     *)
(* events and runs the source transform rules that the handler registers.  *)
(*                                                                         *)
(* The rules and the listeners hold raw pointers (base::Unretained,        *)
(* &eventHandler_), and every object carries a sequence checker: it binds  *)
(* itself to the first sequence that uses the object and, in a debug       *)
(* build, aborts the process when another sequence does.                   *)
(*                                                                         *)
(* A registration is not atomic: it frees the old tooling before it binds  *)
(* the rules to the new one, one after the other, and other sequences may  *)
(* act in between.                                                         *)
(*                                                                         *)
(* The host is not part of the repository.  Of it this module takes only   *)
(* that it disconnects the plugin before it destroys it, calls no method   *)
(* of a destroyed plugin and runs the pipeline it registered last.         *)
(***************************************************************************)
EXTENDS Naturals, Sequences

CONSTANTS
  Sequences,    \* base::SequencedTaskRunner sequences (threads)
  Pipelines,    \* clang_utils::SourceTransformPipeline objects
  Toolings,     \* bound: the pimplTooling objects one run can create
  NoTooling,    \* tooling_ is null, or a rule is not registered
  NoPipeline,   \* no pipeline, a null sourceTransformPipeline
  Detached,     \* no sequence: a checker that is not bound, nobody at work
  DcheckOn      \* TRUE in a debug build

ASSUME LifecycleAssumption ==
  /\ NoTooling \notin Toolings
  /\ NoPipeline \notin Pipelines
  /\ Detached \notin Sequences
  /\ DcheckOn \in BOOLEAN
  /\ Toolings \cap {"plugin", "handler"} = {}

EventTypes ==
  { "Init", "StringCommand", "RegisterAnnotationMethods",
    "RegisterClingInterpreter" }

\* The rules in the order in which a registration binds them.
RuleOrder ==
  <<"inject_pimpl_storage", "inject_pimpl_method_calls", "reflect_for_pimpl">>

Rules ==
  {"inject_pimpl_storage", "inject_pimpl_method_calls", "reflect_for_pimpl"}

\* The objects that have a sequence checker.
Objects == {"plugin", "handler"} \cup Toolings

VARIABLES
  status,            \* of the process
  plugin,            \* the Flexpimpl object with its eventHandler_
  attached,          \* the host connected the plugin and did not disconnect it
  connected,         \* event types with a listener bound to &eventHandler_
  clingInterpreter,  \* eventHandler_.clingInterpreter_
  tooling,           \* eventHandler_.tooling_
  created,           \* toolings constructed so far
  registration,      \* the registration at work: sequence, pipeline, rules bound
  pipeline,          \* the pipeline registered last
  rules,             \* pipeline |-> rule |-> the tooling it is bound to
  boundTo,           \* object |-> sequence its checker is bound to
  callers            \* history: object |-> sequences that used it

vars == <<status, plugin, attached, connected, clingInterpreter, tooling,
          created, registration, pipeline, rules, boundTo, callers>>

\* No RegisterAnnotationMethods is at work.
Idle == [on |-> Detached, pipeline |-> NoPipeline, bound |-> 0]

TypeOK ==
  /\ status \in {"running", "aborted", "crashed", "rejected", "undefined"}
  /\ plugin \in {"alive", "destroyed"}
  /\ attached \in BOOLEAN
  /\ connected \subseteq EventTypes
  /\ clingInterpreter \in {"unset", "null", "valid"}
  /\ tooling \in created \cup {NoTooling}
  /\ created \subseteq Toolings
  /\ registration \in [ on : Sequences, pipeline : Pipelines,
                        bound : 0..(Len(RuleOrder) - 1) ] \cup {Idle}
  /\ pipeline \in Pipelines \cup {NoPipeline}
  /\ rules \in [Pipelines -> [Rules -> created \cup {NoTooling}]]
  /\ boundTo \in [Objects -> Sequences \cup {Detached}]
  /\ callers \in [Objects -> SUBSET Sequences]

\* The manager constructed the plugin.  The constructor of the handler does
\* not initialise clingInterpreter_.
Init ==
  /\ status = "running"
  /\ plugin = "alive"
  /\ attached = FALSE
  /\ connected = {}
  /\ clingInterpreter = "unset"
  /\ tooling = NoTooling
  /\ created = {}
  /\ registration = Idle
  /\ pipeline = NoPipeline
  /\ rules = [p \in Pipelines |-> [r \in Rules |-> NoTooling]]
  /\ boundTo = [o \in Objects |-> Detached]
  /\ callers = [o \in Objects |-> {}]

-----------------------------------------------------------------------------
(* DCHECK_CALLED_ON_VALID_SEQUENCE.                                        *)

Passes(objects, s) ==
  DcheckOn => \A o \in objects : boundTo[o] \in {Detached, s}

Uses(objects, s) ==
  /\ boundTo' =
       [o \in Objects |-> IF DcheckOn /\ o \in objects THEN s ELSE boundTo[o]]
  /\ callers' =
       [o \in Objects |-> IF o \in objects THEN callers[o] \cup {s} ELSE callers[o]]

\* The process ends; what it leaves in memory no longer matters.
Stops(how) ==
  /\ status' = how
  /\ UNCHANGED <<plugin, attached, connected, clingInterpreter, tooling,
                 created, registration, pipeline, rules, boundTo, callers>>

\* Sequence s can call something: the process runs with its plugin, and s is
\* not inside a registration.
Calls(s) ==
  /\ status = "running"
  /\ plugin = "alive"
  /\ registration.on # s

\* The tooling that the handler owns, as a set.
OwnTooling == {tooling} \ {NoTooling}

-----------------------------------------------------------------------------
(* The plugin object.                                                      *)

\* title, author, description, load, unload: they only check the sequence.
CallPlugin(s) ==
  /\ Calls(s)
  /\ \/ /\ Passes({"plugin"}, s)
        /\ Uses({"plugin"}, s)
        /\ UNCHANGED <<status, plugin, attached, connected, clingInterpreter,
                       tooling, created, registration, pipeline, rules>>
     \/ ~Passes({"plugin"}, s) /\ Stops("aborted")

ConnectToDispatcher(s) ==
  /\ Calls(s)
  /\ \/ /\ Passes({"plugin"}, s)
        /\ Uses({"plugin"}, s)
        /\ attached' = TRUE
        /\ connected' = connected \cup EventTypes
        /\ UNCHANGED <<status, plugin, clingInterpreter, tooling, created,
                       registration, pipeline, rules>>
     \/ ~Passes({"plugin"}, s) /\ Stops("aborted")

\* Mutant of DisconnectDispatcher: one of the four listeners is forgotten.
DisconnectDispatcherPartly(s) ==
  /\ Calls(s)
  /\ \/ /\ Passes({"plugin"}, s)
        /\ Uses({"plugin"}, s)
        /\ attached' = FALSE
        /\ connected' = connected \ (EventTypes \ {"RegisterClingInterpreter"})
        /\ UNCHANGED <<status, plugin, clingInterpreter, tooling, created,
                       registration, pipeline, rules>>
     \/ ~Passes({"plugin"}, s) /\ Stops("aborted")

DisconnectDispatcher(s) ==
  /\ Calls(s)
  /\ \/ /\ Passes({"plugin"}, s)
        /\ Uses({"plugin"}, s)
        /\ attached' = FALSE
        /\ connected' = connected \ EventTypes
        /\ UNCHANGED <<status, plugin, clingInterpreter, tooling, created,
                       registration, pipeline, rules>>
     \/ ~Passes({"plugin"}, s) /\ Stops("aborted")

\* Mutant of Destroy: ~pimplTooling does not check its sequence.
DestroyToolingUnchecked(s) ==
  /\ Calls(s)
  /\ ~attached
  /\ Passes({"handler"}, s)
  /\ Uses({"handler"} \cup OwnTooling, s)
  /\ plugin' = "destroyed"
  /\ tooling' = NoTooling
  /\ UNCHANGED <<status, attached, connected, clingInterpreter, created,
                 registration, pipeline, rules>>

\* The implicit destructor: ~FlexpimplEventHandler, then ~pimplTooling.  It
\* neither disconnects the plugin nor takes its rules out of a pipeline.
\* During a registration on another sequence it races with it for tooling_.
Destroy(s) ==
  LET accepted == Passes({"handler"} \cup OwnTooling, s)
  IN /\ Calls(s)
     /\ ~attached
     /\ \/ /\ accepted
           /\ registration = Idle
           /\ Uses({"handler"} \cup OwnTooling, s)
           /\ plugin' = "destroyed"
           /\ tooling' = NoTooling
           /\ UNCHANGED <<status, attached, connected, clingInterpreter,
                          created, registration, pipeline, rules>>
        \/ ~accepted /\ Stops("aborted")
        \/ accepted /\ registration # Idle /\ Stops("undefined")

-----------------------------------------------------------------------------
(* The event handler.  The dispatcher reaches it through connected.        *)

Delivers(s, event) ==
  /\ Calls(s)
  /\ event \in connected

\* Mutant of HandleQuietEvent: the check of the sequence is missing.
HandleQuietEventUnchecked(s) ==
  /\ Delivers(s, "Init") \/ Delivers(s, "StringCommand")
  /\ callers' = [callers EXCEPT !["handler"] = @ \cup {s}]
  /\ UNCHANGED <<status, plugin, attached, connected, clingInterpreter,
                 tooling, created, registration, pipeline, rules, boundTo>>

\* Init and StringCommand log and change nothing.
HandleQuietEvent(s) ==
  /\ Delivers(s, "Init") \/ Delivers(s, "StringCommand")
  /\ \/ /\ Passes({"handler"}, s)
        /\ Uses({"handler"}, s)
        /\ UNCHANGED <<status, plugin, attached, connected, clingInterpreter,
                       tooling, created, registration, pipeline, rules>>
     \/ ~Passes({"handler"}, s) /\ Stops("aborted")

\* Mutant of RegisterClingInterpreter: a null pointer is not checked.
RegisterAnyInterpreter(s, interpreter) ==
  /\ Delivers(s, "RegisterClingInterpreter")
  /\ Passes({"handler"}, s)
  /\ Uses({"handler"}, s)
  /\ clingInterpreter' = interpreter
  /\ UNCHANGED <<status, plugin, attached, connected, tooling, created,
                 registration, pipeline, rules>>

RegisterClingInterpreter(s, interpreter) ==
  LET accepted == /\ Passes({"handler"}, s)
                  /\ DcheckOn => interpreter # "null"
  IN /\ Delivers(s, "RegisterClingInterpreter")
     /\ \/ /\ accepted
           /\ Uses({"handler"}, s)
           /\ clingInterpreter' = interpreter
           /\ UNCHANGED <<status, plugin, attached, connected, tooling,
                          created, registration, pipeline, rules>>
        \/ ~accepted /\ Stops("aborted")

\* What reading clingInterpreter_ yields: an uninitialised pointer is any bit
\* pattern, null or not.
InterpreterRead ==
  IF clingInterpreter = "unset" THEN {"null", "garbage"} ELSE {clingInterpreter}

\* A new tooling is constructed, replaces and thereby destroys the old one.
\* The rules of the event's pipeline p are still what they were.
Register(s, p) ==
  /\ \E t \in Toolings \ created :
       /\ tooling' = t
       /\ created' = created \cup {t}
  /\ Uses({"handler"} \cup OwnTooling, s)
  /\ registration' = [on |-> s, pipeline |-> p, bound |-> 0]
  /\ UNCHANGED <<status, plugin, attached, connected, clingInterpreter,
                 pipeline, rules>>

\* The checks in the order of the code: the sequence of the handler and
\* DCHECK(clingInterpreter_); the call of loadSettings through the pointer;
\* DCHECK(event.sourceTransformPipeline); DCHECK(!outDir_.empty()), which the
\* file system decides; the destructor of the old tooling.  Two registrations
\* at a time race for tooling_.
RegisterAnnotationMethods(s, p) ==
  /\ Delivers(s, "RegisterAnnotationMethods")
  /\ created # Toolings
  /\ \E interpreter \in InterpreterRead :
       LET entered == /\ Passes({"handler"}, s)
                      /\ DcheckOn => interpreter # "null"
           called == entered /\ interpreter = "valid"
           replaced == called /\ p # NoPipeline /\ Passes(OwnTooling, s)
       IN \/ ~entered /\ Stops("aborted")
          \/ entered /\ ~called /\ Stops("crashed")
          \/ /\ called /\ p = NoPipeline
             /\ Stops(IF DcheckOn THEN "aborted" ELSE "crashed")
          \/ called /\ p # NoPipeline /\ DcheckOn /\ Stops("aborted")
          \/ called /\ p # NoPipeline /\ ~replaced /\ Stops("aborted")
          \/ replaced /\ registration = Idle /\ Register(s, p)
          \/ replaced /\ registration # Idle /\ Stops("undefined")

\* Mutant of Bind: a rule that is already in the map is left as it is.
BindInserted(p, r) ==
  IF rules[p][r] = NoTooling THEN [rules EXCEPT ![p][r] = tooling] ELSE rules

\* Mutant of Bind: the map is replaced by one that has the new rule only.
BindAlone(p, r) == [rules EXCEPT ![p] = [q \in {r} |-> tooling]]

\* sourceTransformRules[r] = BindRepeating(..., Unretained(tooling_.get()))
Bind(p, r) == [rules EXCEPT ![p][r] = tooling]

\* The registration at work on s binds its next rule, the third is its last.
BindRule(s) ==
  /\ status = "running"
  /\ registration.on = s
  /\ LET p == registration.pipeline
         n == registration.bound + 1
     IN /\ rules' = Bind(p, RuleOrder[n])
        /\ IF n = Len(RuleOrder)
             THEN registration' = Idle /\ pipeline' = p
             ELSE registration' = [registration EXCEPT !.bound = n]
                  /\ UNCHANGED pipeline
  /\ UNCHANGED <<status, plugin, attached, connected, clingInterpreter,
                 tooling, created, boundTo, callers>>

\* A rule bound to tooling t meets a tooling that is freed, or the map of the
\* pipeline while a registration on another sequence may be writing it.
Overlaps(t) == t # tooling \/ registration.pipeline = pipeline

\* flextool meets an annotation and runs the rule of the pipeline it was
\* given last; every rule first checks the sequence of the tooling.  The
\* handler may reject the annotation, which ends the process.  In an overlap
\* anything may happen, also that the freed tooling works as it did before.
InvokeRule(s, r) ==
  /\ Calls(s)
  /\ pipeline # NoPipeline
  /\ rules[pipeline][r] # NoTooling
  /\ LET t == rules[pipeline][r]
     IN \/ /\ Passes({t}, s)
           /\ Uses({t}, s)
           /\ UNCHANGED <<status, plugin, attached, connected, clingInterpreter,
                          tooling, created, registration, pipeline, rules>>
        \/ Passes({t}, s) /\ Stops("rejected")
        \/ ~Passes({t}, s) /\ Stops("aborted")
        \/ Overlaps(t) /\ Stops("undefined")

Next ==
  \E s \in Sequences :
    \/ CallPlugin(s)
    \/ ConnectToDispatcher(s)
    \/ DisconnectDispatcher(s)
    \/ Destroy(s)
    \/ HandleQuietEvent(s)
    \/ \E interpreter \in {"null", "valid"} :
         RegisterClingInterpreter(s, interpreter)
    \/ \E p \in Pipelines \cup {NoPipeline} : RegisterAnnotationMethods(s, p)
    \/ BindRule(s)
    \/ \E r \in Rules : InvokeRule(s, r)

Spec == Init /\ [][Next]_vars

-----------------------------------------------------------------------------
(* Properties.                                                             *)

\* Once the plugin is destroyed no listener of the dispatcher points into it:
\* disconnect_dispatcher takes back all that connect_to_dispatcher gave, even
\* after several connects (the plugin's destructor disconnects nothing).
NoDanglingListener == plugin = "destroyed" => connected = {}

\* While the plugin lives and no registration is at work, the three rules of
\* the pipeline registered last are bound to the tooling it owns, so none
\* points to a freed tooling and all share one reflection cache, also after a
\* second registration (RegisterAnnotationMethods frees the old tooling first
\* and binds the rules one by one).
LatestRulesAreLive ==
  plugin = "alive" /\ pipeline # NoPipeline /\ registration = Idle =>
    /\ tooling # NoTooling
    /\ \A r \in Rules : rules[pipeline][r] = tooling

\* No checkers, and any sequence may call anything at any time: still a freed
\* tooling is entered, or tooling_ or the map of rules raced for, only while
\* RegisterAnnotationMethods is between the line that frees the old tooling
\* and the one that binds the last rule.  A host that runs no rule, second
\* registration or destructor in that window is safe.
OnlyOverlapsAreUndefined ==
  [][status # "undefined" /\ status' = "undefined" => registration # Idle]_vars

\* In a debug build no two sequences ever get through to one object, whatever
\* mixture of plugin calls, events, rules and destructors they issue.
ObjectsStayOnOneSequence ==
  DcheckOn => \A o \in Objects : \A s, q \in callers[o] : s = q

\* In a debug build a tooling dies on the sequence that used it, the sequence
\* of the handler (~pimplTooling inside RegisterAnnotationMethods or inside
\* the destructor of the plugin).
ToolingDiesWhereItWasUsed ==
  DcheckOn =>
    \A t \in created \ {tooling} : callers[t] = callers["handler"]

\* In a debug build a tooling exists only while the handler holds a valid
\* interpreter (DCHECK(event.clingInterpreter), DCHECK(clingInterpreter_)).
ToolingHasInterpreter ==
  DcheckOn /\ tooling # NoTooling => clingInterpreter = "valid"

\* DCHECK(clingInterpreter_) keeps a debug build from using an interpreter
\* that was never registered.
InterpreterIsChecked == DcheckOn => status # "crashed"

=============================================================================
