----------------------------- MODULE PimplSystem -----------------------------
(***************************************************************************)
(* The plugin in its host: PluginLifecycle (which tooling exists, on which *)
(* sequence, bound to which rules) composed with one PimplTooling per      *)
(* object that a registration constructs (src/src/EventHandler.cc).        *)
(*                                                                         *)
(* A rule that flextool runs goes to the tooling the pipeline is bound to; *)
(* that tooling's handler accepts the annotation and edits the source, or  *)
(* rejects it and ends the process.  A registration between two            *)
(* annotations replaces the tooling, and with it the reflection cache.     *)
(* The translation units are flextool's, so all toolings see the same one. *)
(***************************************************************************)
EXTENDS Naturals

CONSTANTS
  Sequences, Pipelines, Toolings, NoTooling, NoPipeline, Detached,
  Classes, Keys, DefsOf, Methods, Annotations, IntOf, SizeModulus,
  NoClass, NoInterface, NoInt, NotCached,
  DcheckOn,
  MaxUnits,     \* bound: translation units of one run of the tool
  MaxEdits      \* bound: source transformations of one tooling

ASSUME SystemAssumption ==
  /\ NoTooling \notin Toolings
  /\ NoPipeline \notin Pipelines
  /\ Detached \notin Sequences
  /\ DcheckOn \in BOOLEAN
  /\ Toolings \cap {"plugin", "handler"} = {}

VARIABLES
  status, plugin, attached, connected, clingInterpreter, tooling, created,
  registration, pipeline, rules, boundTo, callers,
  unit, visible,  \* of flextool: the translation unit it is in
  caches,         \* tooling |-> its reflectionCache_
  logs,           \* history: tooling |-> the transformations it did
  handled         \* tooling |-> "running", or how its handler ended the process

lifecycle == <<status, plugin, attached, connected, clingInterpreter, tooling,
               created, registration, pipeline, rules, boundTo, callers>>
source == <<unit, visible>>
handlers == <<caches, logs, handled>>
vars == <<lifecycle, source, handlers>>

L == INSTANCE PluginLifecycle

T(t) == INSTANCE PimplTooling WITH
  status <- handled[t], reflectionCache <- caches[t], log <- logs[t]

\* The classes and annotations are the same for all toolings, and for none.
ASSUME ToolingAssumption ==
  /\ T(NoTooling)!SentinelsDiffer
  /\ T(NoTooling)!BoundsHold
  /\ T(NoTooling)!DataTyped
  /\ T(NoTooling)!WidthsHold
  /\ T(NoTooling)!ParamNamesDiffer
  /\ T(NoTooling)!MissIsNoInfo

\* What a translation unit can show of the classes.
View == {f \in [Classes -> UNION {DefsOf[c] : c \in Classes}] :
            \A c \in Classes : f[c] \in DefsOf[c]}

TypeOK ==
  /\ L!TypeOK
  /\ DOMAIN caches = Toolings /\ DOMAIN logs = Toolings /\ DOMAIN handled = Toolings
  /\ \A t \in Toolings : T(t)!TypeOK
  /\ status = "rejected" <=> \E t \in Toolings : handled[t] # "running"

Init ==
  /\ L!Init
  /\ unit = 1
  /\ visible \in View
  /\ caches = [t \in Toolings |-> [k \in Keys |-> NotCached]]
  /\ logs = [t \in Toolings |-> <<>>]
  /\ handled = [t \in Toolings |-> "running"]

-----------------------------------------------------------------------------
(* A rule, run by the tooling that the pipeline is bound to.               *)

Accepts(t, a) ==
  CASE a.rule = "reflect_for_pimpl" -> T(t)!CanReflect(a)
    [] a.rule = "inject_pimpl_storage" -> T(t)!CanInjectStorage(a)
    [] a.rule = "inject_pimpl_method_calls" -> T(t)!CanInjectMethodCalls(a)

Generated(t, a) ==
  LET info == caches[t][T(t)!ImplOf(a).key]
  IN CASE a.rule = "reflect_for_pimpl" -> T(t)!Nothing
       [] a.rule = "inject_pimpl_storage" -> T(t)!Storage(info, a)
       [] a.rule = "inject_pimpl_method_calls" -> T(t)!MethodCalls(info, a)

\* Mutant of CachesAfter: the cache is one for all toolings, a static member.
CachesShared(t, a) ==
  IF a.rule = "reflect_for_pimpl"
    THEN [u \in Toolings |-> T(t)!CacheWith(a)]
    ELSE caches

\* reflectionCache_ is a member: a new tooling starts with an empty one.
CachesAfter(t, a) ==
  IF a.rule = "reflect_for_pimpl"
    THEN [caches EXCEPT ![t] = T(t)!CacheWith(a)]
    ELSE caches

\* The handler replaces the annotation.
Accept(t, a) ==
  /\ Accepts(t, a)
  /\ caches' = CachesAfter(t, a)
  /\ logs' = [logs EXCEPT ![t] = T(t)!Replaced(a, Generated(t, a))]
  /\ UNCHANGED <<status, handled>>

\* A CHECK fails, or the null implArgQualType is dereferenced.
Reject(t, a) ==
  /\ ~Accepts(t, a)
  /\ L!Stops("rejected")
  /\ handled' = [handled EXCEPT ![t] = T(t)!Death(a)]
  /\ UNCHANGED <<caches, logs>>

OtherLifecycle == <<plugin, attached, connected, clingInterpreter, tooling,
                    created, registration, pipeline, rules>>

\* Mutant of RunRule: the handlers do not check their sequence.
RunRuleUnchecked(s, a) ==
  /\ L!Calls(s)
  /\ pipeline # NoPipeline
  /\ rules[pipeline][a.rule] # NoTooling
  /\ LET t == rules[pipeline][a.rule]
     IN /\ T(t)!Handles(a.rule, a)
        /\ \/ Accept(t, a) /\ L!Uses({t}, s) /\ UNCHANGED OtherLifecycle
           \/ Reject(t, a)
  /\ UNCHANGED source

\* flextool runs the rule of annotation a.  The rule is bound to a tooling,
\* which first checks the sequence and then handles the annotation; in an
\* overlap with a registration the outcome is undefined.
RunRule(s, a) ==
  /\ L!Calls(s)
  /\ pipeline # NoPipeline
  /\ rules[pipeline][a.rule] # NoTooling
  /\ LET t == rules[pipeline][a.rule]
     IN \/ /\ L!Passes({t}, s)
           /\ T(t)!Handles(a.rule, a)
           /\ \/ Accept(t, a) /\ L!Uses({t}, s) /\ UNCHANGED OtherLifecycle
              \/ Reject(t, a)
        \/ ~L!Passes({t}, s) /\ L!Stops("aborted") /\ UNCHANGED handlers
        \/ L!Overlaps(t) /\ L!Stops("undefined") /\ UNCHANGED handlers
  /\ UNCHANGED source

-----------------------------------------------------------------------------

\* Whatever happens to the plugin apart from its rules.
HostStep(s) ==
  /\ \/ L!CallPlugin(s)
     \/ L!ConnectToDispatcher(s)
     \/ L!DisconnectDispatcher(s)
     \/ L!Destroy(s)
     \/ L!HandleQuietEvent(s)
     \/ \E interpreter \in {"null", "valid"} :
          L!RegisterClingInterpreter(s, interpreter)
     \/ \E p \in Pipelines \cup {NoPipeline} : L!RegisterAnnotationMethods(s, p)
     \/ L!BindRule(s)
  /\ UNCHANGED <<source, handlers>>

\* flextool goes on to the next file, whoever the tooling is by then.
NextUnit ==
  /\ status = "running"
  /\ unit < MaxUnits
  /\ unit' = unit + 1
  /\ visible' \in View
  /\ UNCHANGED <<lifecycle, handlers>>

Next ==
  \/ \E s \in Sequences :
       \/ HostStep(s)
       \/ \E a \in Annotations : RunRule(s, a)
  \/ NextUnit

Spec == Init /\ [][Next]_vars

-----------------------------------------------------------------------------
(* Properties.                                                             *)

\* Seen from the host the system is a PluginLifecycle: whatever the handlers
\* do with an annotation, the plugin, the listeners, the rules and the
\* sequence checkers behave as that module says.
ImplementsLifecycle == L!Spec

\* Every tooling, from its construction through its replacement to the end of
\* the process, is a PimplTooling of its own, whichever rules the others run
\* and however often the plugin is registered (reflectionCache_ is a member).
ImplementsToolings ==
  /\ \A t \in Toolings : T(t)!Init
  /\ [][\A t \in Toolings : [T(t)!Next]_(T(t)!vars)]_vars

\* No tooling but the one the handler owns edits the source: a rule left over
\* from an earlier registration, whose tooling is freed, does not get to run
\* (base::Unretained in RegisterAnnotationMethods).  A debug build holds that
\* even between the line that frees the old tooling and the one that binds the
\* last rule, because the checkers of both are on the sequence of the handler.
OnlyOwnToolingEdits ==
  [][DcheckOn \/ registration = L!Idle =>
       \A t \in Toolings :
         logs'[t] # logs[t] => t = tooling /\ tooling' = tooling]_vars

Reflects(e) == e.rule = "reflect_for_pimpl"
Forwards(e) == e.rule = "inject_pimpl_method_calls"

Edits == UNION {{logs[t][i] : i \in DOMAIN logs[t]} : t \in Toolings}

\* Declarations and definitions of one class list the same methods even when
\* a registration in between has replaced the tooling and emptied the cache,
\* provided the reflections of the class all saw the same definition.
WrappersAgreeAcrossRegistrations ==
  \A e, f \in Edits :
    /\ Forwards(e) /\ Forwards(f) /\ e.key = f.key
    /\ \A g, h \in Edits :
         Reflects(g) /\ Reflects(h) /\ g.key = e.key /\ h.key = e.key =>
           g.seen = h.seen
    => e.output.methods = f.output.methods

=============================================================================
