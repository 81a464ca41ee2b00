--------------------------- MODULE PimplSystemProofs ---------------------------
(***************************************************************************)
(* Proofs about PimplSystem: for any number of sequences, pipelines and    *)
(* registrations, and whatever the annotations and classes are, the system *)
(* is a PluginLifecycle and each of its toolings a PimplTooling.           *)
(***************************************************************************)
EXTENDS PimplSystem, Integers, Sequences, TLAPS

\* The proofs about the lifecycle, whose invariant the system inherits.
LP == INSTANCE PluginLifecycleProofs

\* The proofs about the handlers, for what they say of the data: no state of a
\* tooling matters there.
D == INSTANCE PimplToolingProofs WITH
  status <- handled, reflectionCache <- caches, log <- logs

-----------------------------------------------------------------------------
(* The handlers are the same code in every tooling.                        *)

\* What PimplTooling says of classes, annotations and outputs does not depend
\* on the tooling.
LEMMA SameData ==
  ASSUME NEW t
  PROVE  /\ T(t)!ClassInfo = D!ClassInfo
         /\ T(t)!Output = D!Output
         /\ T(t)!Edit = D!Edit
         /\ T(t)!View = D!View
         /\ T(t)!Nothing = D!Nothing
         /\ \A a : T(t)!ImplOf(a) = D!ImplOf(a)
         /\ \A a : T(t)!NamesClass(a) <=> D!NamesClass(a)
         /\ \A a : T(t)!PaddingParses(a) <=> D!PaddingParses(a)
         /\ \A c, d : T(t)!Reflected(c, d) = D!Reflected(c, d)
         /\ \A info : T(t)!Wrapped(info) = D!Wrapped(info)
         /\ \A info, a : T(t)!Storage(info, a) = D!Storage(info, a)
         /\ \A info, a : T(t)!MethodCalls(info, a) = D!MethodCalls(info, a)
<1>1. ASSUME NEW c, NEW d PROVE T(t)!Reflected(c, d) = D!Reflected(c, d)
  BY DEF T!Reflected, D!Reflected, T!IsSkipped, D!IsSkipped
<1>2. T(t)!ClassInfo = D!ClassInfo
  BY DEF T!ClassInfo, D!ClassInfo, T!Reflected, D!Reflected,
         T!IsSkipped, D!IsSkipped
<1>3. T(t)!Output = D!Output /\ T(t)!Nothing = D!Nothing
  BY DEF T!Output, D!Output, T!Nothing, D!Nothing
<1>4. T(t)!Edit = D!Edit /\ T(t)!View = D!View
  BY <1>3 DEF T!Edit, D!Edit, T!Rules, D!Rules, T!View, D!View
<1>5. ASSUME NEW a PROVE T(t)!ImplOf(a) = D!ImplOf(a)
  BY DEF T!ImplOf, D!ImplOf
<1>6. ASSUME NEW a PROVE T(t)!NamesClass(a) <=> D!NamesClass(a)
  BY <1>5
     DEF T!NamesClass, D!NamesClass, T!ParsesSettings, D!ParsesSettings,
         T!NamesImpl, D!NamesImpl
<1>7. ASSUME NEW a PROVE T(t)!PaddingParses(a) <=> D!PaddingParses(a)
  BY DEF T!PaddingParses, D!PaddingParses, T!Given, D!Given, T!ValueAt, D!ValueAt
<1>8. ASSUME NEW info, NEW a PROVE T(t)!Storage(info, a) = D!Storage(info, a)
  BY DEF T!Storage, D!Storage, T!TypeSize, D!TypeSize,
         T!ExtraSizeBytes, D!ExtraSizeBytes, T!Given, D!Given, T!ValueAt, D!ValueAt,
         T!Max, D!Max
<1>9. ASSUME NEW info PROVE T(t)!Wrapped(info) = D!Wrapped(info)
  BY DEF T!Wrapped, D!Wrapped, T!IsPimplMethod, D!IsPimplMethod
<1>10. ASSUME NEW info, NEW a
       PROVE  T(t)!MethodCalls(info, a) = D!MethodCalls(info, a)
  BY <1>9
     DEF T!MethodCalls, D!MethodCalls, T!InterfaceOf, D!InterfaceOf,
         T!WithoutMethodBody, D!WithoutMethodBody, T!Given, D!Given
<1> QED
  BY <1>1, <1>2, <1>3, <1>4, <1>5, <1>6, <1>7, <1>8, <1>9, <1>10

\* The assumptions under which the handlers were proved correct.
LEMMA DataHolds ==
  /\ D!SentinelsDiffer /\ D!BoundsHold /\ D!DataTyped /\ D!WidthsHold
  /\ D!ParamNamesDiffer /\ D!MissIsNoInfo
<1>1. D!SentinelsDiffer /\ D!BoundsHold
  BY ToolingAssumption
     DEF T!SentinelsDiffer, D!SentinelsDiffer, T!BoundsHold, D!BoundsHold
<1>2. D!DataTyped
  BY ToolingAssumption
     DEF T!DataTyped, D!DataTyped, T!MethodInfo, D!MethodInfo, T!Traits, D!Traits,
         T!Definition, D!Definition, T!Annotation, D!Annotation, T!Rules, D!Rules,
         T!Param, D!Param, T!Type, D!Type, T!Arg, D!Arg
<1>3. D!ParamNamesDiffer
  BY ToolingAssumption DEF T!ParamNamesDiffer, D!ParamNamesDiffer
<1>4. D!MissIsNoInfo
  BY ToolingAssumption, SameData DEF T!MissIsNoInfo, D!MissIsNoInfo
<1>5. D!WidthsHold
  BY ToolingAssumption DEF T!WidthsHold, D!WidthsHold
<1> QED
  BY <1>1, <1>2, <1>3, <1>4, <1>5

\* In D the names of those assumptions stand for them.
USE DEF D!SentinelAssumption, D!BoundAssumption, D!DataAssumption,
        D!WidthAssumption, D!ParamsAreDistinct, D!NotCachedAssumption

\* Facts about the data, from the proofs about the handlers.
LEMMA ImplIsNamed ==
  ASSUME NEW a \in Annotations, D!NamesClass(a)
  PROVE  D!ImplOf(a).cls \in Classes /\ D!ImplOf(a).key \in Keys
  BY DataHolds, D!ImplOfType

\* What is cached differs from a miss.
LEMMA InfoIsNoMiss ==
  ASSUME NEW c \in Classes, NEW d \in UNION {DefsOf[k] : k \in Classes}
  PROVE  D!Reflected(c, d) \in D!ClassInfo /\ D!Reflected(c, d) # NotCached
  BY DataHolds DEF D!MissIsNoInfo, D!ClassInfo

\* The storage printed is an output.
LEMMA StorageIsOutput ==
  ASSUME NEW a \in Annotations, D!PaddingParses(a), NEW info \in D!ClassInfo
  PROVE  D!Storage(info, a) \in D!Output
  BY DataHolds, D!StorageType

\* The wrappers printed are an output.
LEMMA MethodCallsAreOutput ==
  ASSUME NEW a \in Annotations, NEW info \in D!ClassInfo
  PROVE  D!MethodCalls(info, a) \in D!Output
  BY DataHolds, D!MethodCallsType

-----------------------------------------------------------------------------
(* The lifecycle.                                                          *)

\* Every annotation names one of the three rules.
LEMMA RulesAreNamed ==
  ASSUME NEW a \in Annotations
  PROVE  /\ a.rule \in {"reflect_for_pimpl", "inject_pimpl_storage",
                        "inject_pimpl_method_calls"}
         /\ a.rule \in L!Rules
  BY DataHolds DEF D!DataTyped, D!Annotation, D!Rules, L!Rules

\* A rule, accepted, rejected or run on a wrong sequence, is a step
\* InvokeRule of the lifecycle.
LEMMA RunRuleInvokes ==
  ASSUME NEW s \in Sequences, NEW a \in Annotations, RunRule(s, a)
  PROVE  L!InvokeRule(s, a.rule)
<1> DEFINE t == rules[pipeline][a.rule]
<1>1. L!Calls(s) /\ pipeline # NoPipeline /\ t # NoTooling
  BY DEF RunRule
<1>2. \/ L!Passes({t}, s) /\ Accept(t, a) /\ L!Uses({t}, s) /\ UNCHANGED OtherLifecycle
      \/ L!Passes({t}, s) /\ Reject(t, a)
      \/ ~L!Passes({t}, s) /\ L!Stops("aborted")
      \/ L!Overlaps(t) /\ L!Stops("undefined")
  BY DEF RunRule
<1>3. CASE L!Passes({t}, s) /\ Accept(t, a) /\ L!Uses({t}, s) /\ UNCHANGED OtherLifecycle
  BY <1>1, <1>3 DEF L!InvokeRule, Accept, OtherLifecycle
<1>4. CASE L!Passes({t}, s) /\ Reject(t, a)
  BY <1>1, <1>4 DEF L!InvokeRule, Reject
<1>5. CASE ~L!Passes({t}, s) /\ L!Stops("aborted")
  BY <1>1, <1>5 DEF L!InvokeRule
<1>6. CASE L!Overlaps(t) /\ L!Stops("undefined")
  BY <1>1, <1>6 DEF L!InvokeRule
<1> QED
  BY <1>2, <1>3, <1>4, <1>5, <1>6

\* Every step is a step of the life cycle or none.
LEMMA LifecycleStep == [Next]_vars => [L!Next]_(L!vars)
<1> SUFFICES ASSUME [Next]_vars PROVE [L!Next]_(L!vars)
  OBVIOUS
<1>1. CASE UNCHANGED vars
  BY <1>1 DEF vars, lifecycle, L!vars
<1>2. CASE NextUnit
  BY <1>2 DEF NextUnit, lifecycle, L!vars
<1>3. ASSUME NEW s \in Sequences, HostStep(s) PROVE L!Next
  BY <1>3 DEF HostStep, L!Next
<1>4. ASSUME NEW s \in Sequences, NEW a \in Annotations, RunRule(s, a)
      PROVE  L!Next
  BY <1>4, RunRuleInvokes, RulesAreNamed DEF L!Next
<1> QED
  BY <1>1, <1>2, <1>3, <1>4 DEF Next

\* The system implements PluginLifecycle: for the host, the handlers and their
\* caches are invisible.
THEOREM SystemIsLifecycle == Spec => ImplementsLifecycle
<1>1. Init => L!Init
  BY DEF Init
<1> QED
  BY <1>1, LifecycleStep, PTL DEF Spec, ImplementsLifecycle, L!Spec

-----------------------------------------------------------------------------
(* The invariant.                                                          *)

\* Every tooling has its own cache, log and status.
OnePerTooling ==
  /\ caches = [t \in Toolings |-> caches[t]]
  /\ logs = [t \in Toolings |-> logs[t]]
  /\ handled = [t \in Toolings |-> handled[t]]

\* A handler that ended has ended the process, and nothing else ends it so.
ProcessEndsWithHandler ==
  status = "rejected" <=> \E t \in Toolings : handled[t] # "running"

\* What the lifecycle knows of the rules: they are bound to toolings, and a
\* sequence that gets through to the one a rule of the latest pipeline is bound
\* to finds the one the handler owns, unless a release build is registering.
RulesAreBound ==
  /\ \A p \in Pipelines, r \in L!Rules :
       rules[p][r] \in Toolings \cup {NoTooling}
  /\ pipeline \in Pipelines \cup {NoPipeline}
  /\ \A s \in Sequences, r \in L!Rules :
       /\ L!Calls(s) /\ pipeline # NoPipeline
       /\ rules[pipeline][r] # NoTooling /\ L!Passes({rules[pipeline][r]}, s)
       /\ DcheckOn \/ registration = L!Idle
       => rules[pipeline][r] = tooling

IInv == OnePerTooling /\ ProcessEndsWithHandler

\* LP and L name the same actions.
LEMMA SameSteps == [L!Next]_(L!vars) => [LP!Next]_(LP!vars)
<1> USE DEF L!EventTypes, LP!EventTypes, L!Rules, LP!Rules, L!Objects, LP!Objects,
            L!Passes, LP!Passes, L!Uses, LP!Uses, L!Stops, LP!Stops,
            L!Calls, LP!Calls, L!Idle, LP!Idle,
            L!RuleOrder, LP!RuleOrder, L!OwnTooling, LP!OwnTooling,
            L!Delivers, LP!Delivers
<1>1. ASSUME NEW s \in Sequences, L!CallPlugin(s) PROVE LP!CallPlugin(s)
  BY <1>1 DEF L!CallPlugin, LP!CallPlugin
<1>2. ASSUME NEW s \in Sequences, L!ConnectToDispatcher(s)
      PROVE  LP!ConnectToDispatcher(s)
  BY <1>2 DEF L!ConnectToDispatcher, LP!ConnectToDispatcher
<1>3. ASSUME NEW s \in Sequences, L!DisconnectDispatcher(s)
      PROVE  LP!DisconnectDispatcher(s)
  BY <1>3 DEF L!DisconnectDispatcher, LP!DisconnectDispatcher
<1>4. ASSUME NEW s \in Sequences, L!Destroy(s) PROVE LP!Destroy(s)
  BY <1>4 DEF L!Destroy, LP!Destroy
<1>5. ASSUME NEW s \in Sequences, L!HandleQuietEvent(s)
      PROVE  LP!HandleQuietEvent(s)
  BY <1>5 DEF L!HandleQuietEvent, LP!HandleQuietEvent
<1>6. ASSUME NEW s \in Sequences, NEW interpreter \in {"null", "valid"},
             L!RegisterClingInterpreter(s, interpreter)
      PROVE  LP!RegisterClingInterpreter(s, interpreter)
  BY <1>6 DEF L!RegisterClingInterpreter, LP!RegisterClingInterpreter
<1>7. ASSUME NEW s \in Sequences, NEW p \in Pipelines \cup {NoPipeline},
             L!RegisterAnnotationMethods(s, p)
      PROVE  LP!RegisterAnnotationMethods(s, p)
  BY <1>7 DEF L!RegisterAnnotationMethods, LP!RegisterAnnotationMethods,
              L!InterpreterRead, LP!InterpreterRead, L!Register, LP!Register
<1>8. ASSUME NEW s \in Sequences, NEW r \in L!Rules, L!InvokeRule(s, r)
      PROVE  LP!InvokeRule(s, r)
  BY <1>8 DEF L!InvokeRule, LP!InvokeRule, L!Overlaps, LP!Overlaps
<1>9. CASE UNCHANGED L!vars
  BY <1>9 DEF L!vars, LP!vars
<1>10. ASSUME NEW s \in Sequences, L!BindRule(s) PROVE LP!BindRule(s)
  BY <1>10 DEF L!BindRule, LP!BindRule, L!Bind, LP!Bind
<1> USE DEF L!Next, LP!Next
<1> QED
  BY <1>1, <1>2, <1>3, <1>4, <1>5, <1>6, <1>7, <1>8, <1>9, <1>10

\* The system inherits the invariant of the life cycle.
LEMMA LifecycleInvariance == Spec => [](RulesAreBound /\ L!TypeOK)
<1>1. Init => LP!Init
  BY DEF Init, L!Init, LP!Init, L!Rules, LP!Rules, L!Objects, LP!Objects,
         L!Idle, LP!Idle
<1>2. [Next]_vars => [LP!Next]_(LP!vars)
  BY LifecycleStep, SameSteps
<1>3. LP!IInv => RulesAreBound /\ L!TypeOK
  <2> SUFFICES ASSUME LP!IInv PROVE RulesAreBound /\ L!TypeOK
    OBVIOUS
  <2>1. L!TypeOK
    BY DEF LP!IInv, LP!TypeOK, L!TypeOK, L!Rules, LP!Rules, L!Objects, LP!Objects,
           L!EventTypes, LP!EventTypes, L!Idle, LP!Idle,
           L!RuleOrder, LP!RuleOrder
  <2>2. ASSUME NEW s \in Sequences, NEW r \in L!Rules, L!Calls(s),
               pipeline # NoPipeline, rules[pipeline][r] # NoTooling,
               L!Passes({rules[pipeline][r]}, s),
               DcheckOn \/ registration = L!Idle
        PROVE  rules[pipeline][r] = tooling
    <3>1. CASE registration = L!Idle
      BY <2>2, <3>1 DEF LP!IInv, LP!LatestRulesAreLive, L!Rules, LP!Rules,
                        L!Idle, LP!Idle, L!Calls
    <3>2. CASE DcheckOn
      BY <2>2, <3>2, LP!RulesStayOut, SystemAssumption
         DEF L!Rules, LP!Rules, L!Calls, LP!Calls, L!Passes, LP!Passes,
             LP!LifecycleAssumption
    <3> QED
      BY <2>2, <3>1, <3>2
  <2> QED
    BY <2>1, <2>2 DEF L!TypeOK, RulesAreBound
<1>4. LP!Spec => []LP!IInv
  BY LP!Invariance, SystemAssumption DEF LP!LifecycleAssumption
<1> QED
  BY <1>1, <1>2, <1>3, <1>4, PTL DEF Spec, LP!Spec

-----------------------------------------------------------------------------
(* Steps of the handlers.                                                  *)

\* What a rule does to the toolings: nothing, or the one it is bound to
\* accepts or rejects the annotation.
Touches(t, a) ==
  /\ t \in Toolings
  /\ T(t)!Handles(a.rule, a)
  /\ UNCHANGED source
  /\ Accept(t, a) \/ Reject(t, a)

\* A rule ends the process or touches one tooling, which is the one that the
\* handler owns unless a release build is registering.
LEMMA RunRuleTouches ==
  ASSUME RulesAreBound, NEW s \in Sequences, NEW a \in Annotations,
         RunRule(s, a)
  PROVE  \/ UNCHANGED <<source, handlers>> /\ status' \in {"aborted", "undefined"}
         \/ \E t \in Toolings :
              /\ Touches(t, a) /\ UNCHANGED tooling
              /\ DcheckOn \/ registration = L!Idle => t = tooling
<1> DEFINE t == rules[pipeline][a.rule]
<1>1. t \in Toolings /\ L!Calls(s) /\ pipeline # NoPipeline /\ t # NoTooling
  BY RulesAreNamed DEF RunRule, RulesAreBound
<1>2. L!Passes({t}, s) /\ (DcheckOn \/ registration = L!Idle) => t = tooling
  BY <1>1, RulesAreNamed DEF RulesAreBound
<1>3. /\ UNCHANGED source
      /\ \/ L!Passes({t}, s) /\ T(t)!Handles(a.rule, a)
            /\ ((Accept(t, a) /\ UNCHANGED OtherLifecycle) \/ Reject(t, a))
         \/ L!Stops("aborted") /\ UNCHANGED handlers
         \/ L!Stops("undefined") /\ UNCHANGED handlers
  BY DEF RunRule
<1> HIDE DEF t
<1>4. CASE /\ L!Passes({t}, s) /\ T(t)!Handles(a.rule, a)
           /\ Accept(t, a) /\ UNCHANGED OtherLifecycle
  <2>1. Touches(t, a) /\ UNCHANGED tooling
    BY <1>1, <1>3, <1>4 DEF Touches, OtherLifecycle
  <2> QED
    BY <1>1, <1>2, <1>4, <2>1
<1>5. CASE L!Passes({t}, s) /\ T(t)!Handles(a.rule, a) /\ Reject(t, a)
  <2>1. Touches(t, a) /\ UNCHANGED tooling
    BY <1>1, <1>3, <1>5 DEF Touches, Reject, L!Stops
  <2> QED
    BY <1>1, <1>2, <1>5, <2>1
<1>6. CASE (L!Stops("aborted") \/ L!Stops("undefined")) /\ UNCHANGED handlers
  BY <1>3, <1>6 DEF L!Stops
<1> QED
  BY <1>3, <1>4, <1>5, <1>6

\* The steps, as far as the toolings go.
LEMMA StepShapes ==
  ASSUME RulesAreBound, [Next]_vars
  PROVE  \/ /\ UNCHANGED <<source, handlers>>
            /\ status' = "rejected" <=> status = "rejected"
         \/ NextUnit
         \/ \E t \in Toolings, a \in Annotations :
              /\ Touches(t, a) /\ UNCHANGED tooling
              /\ DcheckOn \/ registration = L!Idle => t = tooling
<1>1. CASE UNCHANGED vars
  BY <1>1 DEF vars, lifecycle
<1>2. ASSUME NEW s \in Sequences, HostStep(s)
      PROVE  /\ UNCHANGED <<source, handlers>>
             /\ status = "running" /\ status' # "rejected"
  BY <1>2 DEF HostStep, L!CallPlugin, L!ConnectToDispatcher,
              L!DisconnectDispatcher, L!Destroy, L!HandleQuietEvent,
              L!RegisterClingInterpreter, L!RegisterAnnotationMethods,
              L!Register, L!BindRule, L!Delivers, L!Calls, L!Stops
<1>3. ASSUME NEW s \in Sequences, NEW a \in Annotations, RunRule(s, a)
      PROVE  \/ /\ UNCHANGED <<source, handlers>>
                /\ status = "running" /\ status' # "rejected"
             \/ \E t \in Toolings :
                  /\ Touches(t, a) /\ UNCHANGED tooling
                  /\ DcheckOn \/ registration = L!Idle => t = tooling
  <2>1. status = "running"
    BY <1>3 DEF RunRule, L!Calls
  <2> QED
    BY <1>3, <2>1, RunRuleTouches
<1> QED
  BY <1>1, <1>2, <1>3 DEF Next

\* No step breaks the invariant.
LEMMA InvariantStep ==
  ASSUME IInv, RulesAreBound, [Next]_vars
  PROVE  IInv'
<1>1. CASE /\ UNCHANGED <<source, handlers>>
           /\ status' = "rejected" <=> status = "rejected"
  BY <1>1 DEF IInv, OnePerTooling, ProcessEndsWithHandler, handlers
<1>2. CASE NextUnit
  BY <1>2 DEF NextUnit, lifecycle, handlers, IInv, OnePerTooling,
              ProcessEndsWithHandler
<1>3. ASSUME NEW u \in Toolings, NEW a \in Annotations, Touches(u, a)
      PROVE  IInv'
  <2>1. CASE Accept(u, a)
    <3>1. caches' = [t \in Toolings |-> caches'[t]]
      BY <2>1 DEF Accept, CachesAfter, IInv, OnePerTooling
    <3>2. logs' = [t \in Toolings |-> logs'[t]]
      BY <2>1 DEF Accept, IInv, OnePerTooling
    <3> QED
      BY <2>1, <3>1, <3>2
         DEF Accept, IInv, OnePerTooling, ProcessEndsWithHandler
  <2>2. CASE Reject(u, a)
    <3>1. handled' = [t \in Toolings |-> handled'[t]]
      BY <2>2 DEF Reject, IInv, OnePerTooling
    <3>2. status' = "rejected" /\ handled'[u] # "running"
      BY <1>3, <2>2
         DEF Touches, Reject, L!Stops, IInv, OnePerTooling, T!Death
    <3>3. OnePerTooling'
      BY <2>2, <3>1 DEF Reject, IInv, OnePerTooling
    <3> QED
      BY <1>3, <3>2, <3>3 DEF Touches, IInv, ProcessEndsWithHandler
  <2> QED
    BY <1>3, <2>1, <2>2 DEF Touches
<1> QED
  BY <1>1, <1>2, <1>3, StepShapes

\* The invariant of the system is inductive.
LEMMA Invariance == Spec => [](IInv /\ RulesAreBound /\ L!TypeOK)
<1>1. Init => IInv
  BY DEF Init, L!Init, IInv, OnePerTooling, ProcessEndsWithHandler
<1> QED
  BY <1>1, InvariantStep, LifecycleInvariance, PTL DEF Spec

-----------------------------------------------------------------------------
(* The toolings.                                                           *)

\* A handler that accepts or rejects is a step of its own tooling.
LEMMA OwnStep ==
  ASSUME IInv, NEW t \in Toolings, NEW a \in Annotations, Touches(t, a)
  PROVE  T(t)!Next
<1>1. T(t)!Handles(a.rule, a) /\ UNCHANGED <<unit, visible>>
  BY DEF Touches, source
<1>2. CASE Accept(t, a)
  <2>1. /\ Accepts(t, a)
        /\ logs'[t] = T(t)!Replaced(a, Generated(t, a))
        /\ caches'[t] = CachesAfter(t, a)[t]
        /\ handled'[t] = handled[t]
    BY <1>2 DEF Accept, IInv, OnePerTooling
  <2>2. CASE a.rule = "reflect_for_pimpl"
    <3>1. T(t)!CanReflect(a) /\ Generated(t, a) = T(t)!Nothing
      BY <2>1, <2>2 DEF Accepts, Generated
    <3>2. CachesAfter(t, a)[t] = T(t)!CacheWith(a)
      BY <2>2 DEF CachesAfter, IInv, OnePerTooling
    <3>3. T(t)!ReflectForPimpl(a)
      BY <1>1, <2>1, <2>2, <3>1, <3>2 DEF T!ReflectForPimpl, T!ReplaceWith
    <3> QED
      BY <3>3 DEF T!Next
  <2>3. CASE a.rule = "inject_pimpl_storage"
    <3>1. /\ T(t)!CanInjectStorage(a)
          /\ Generated(t, a) = T(t)!Storage(caches[t][T(t)!ImplOf(a).key], a)
      BY <2>1, <2>3 DEF Accepts, Generated
    <3>2. caches'[t] = caches[t]
      BY <2>1, <2>3 DEF CachesAfter
    <3>3. T(t)!InjectPimplStorage(a)
      BY <1>1, <2>1, <2>3, <3>1, <3>2 DEF T!InjectPimplStorage, T!ReplaceWith
    <3> QED
      BY <3>3 DEF T!Next
  <2>4. CASE a.rule = "inject_pimpl_method_calls"
    <3>1. /\ T(t)!CanInjectMethodCalls(a)
          /\ Generated(t, a) = T(t)!MethodCalls(caches[t][T(t)!ImplOf(a).key], a)
      BY <2>1, <2>4 DEF Accepts, Generated
    <3>2. caches'[t] = caches[t]
      BY <2>1, <2>4 DEF CachesAfter
    <3>3. T(t)!InjectPimplMethodCalls(a)
      BY <1>1, <2>1, <2>4, <3>1, <3>2
         DEF T!InjectPimplMethodCalls, T!ReplaceWith
    <3> QED
      BY <3>3 DEF T!Next
  <2> QED
    BY <2>2, <2>3, <2>4, RulesAreNamed
<1>3. CASE Reject(t, a)
  <2>1. /\ ~Accepts(t, a)
        /\ handled'[t] = T(t)!Death(a)
        /\ logs'[t] = logs[t] /\ caches'[t] = caches[t]
    BY <1>3 DEF Reject, IInv, OnePerTooling
  <2>2. T(t)!Die(a)
    BY <1>1, <2>1 DEF T!Die
  <2>3. CASE a.rule = "reflect_for_pimpl"
    BY <1>1, <2>1, <2>2, <2>3 DEF Accepts, T!ReflectForPimpl, T!Next
  <2>4. CASE a.rule = "inject_pimpl_storage"
    BY <1>1, <2>1, <2>2, <2>4 DEF Accepts, T!InjectPimplStorage, T!Next
  <2>5. CASE a.rule = "inject_pimpl_method_calls"
    BY <1>1, <2>1, <2>2, <2>5 DEF Accepts, T!InjectPimplMethodCalls, T!Next
  <2> QED
    BY <2>3, <2>4, <2>5, RulesAreNamed
<1> QED
  BY <1>2, <1>3 DEF Touches

\* The other toolings do not notice.
LEMMA OthersStand ==
  ASSUME IInv, NEW t \in Toolings, NEW a \in Annotations, Touches(t, a),
         NEW u \in Toolings, u # t
  PROVE  UNCHANGED <<handled[u], unit, visible, caches[u], logs[u]>>
<1>1. UNCHANGED <<unit, visible>>
  BY DEF Touches, source
<1>2. CASE Accept(t, a)
  BY <1>1, <1>2 DEF Accept, CachesAfter, IInv, OnePerTooling
<1>3. CASE Reject(t, a)
  BY <1>1, <1>3 DEF Reject, IInv, OnePerTooling
<1> QED
  BY <1>2, <1>3 DEF Touches

\* Every step is, for each tooling, one of its own steps or none.
LEMMA ToolingStep ==
  ASSUME IInv, RulesAreBound, [Next]_vars, NEW t \in Toolings
  PROVE  [T(t)!Next]_(T(t)!vars)
<1>1. CASE UNCHANGED <<source, handlers>>
  BY <1>1 DEF source, handlers, T!vars
<1>2. CASE NextUnit
  <2>1. /\ handled[t] = "running" /\ UNCHANGED handlers
        /\ unit < MaxUnits /\ unit' = unit + 1 /\ visible' \in View
    BY <1>2 DEF NextUnit, IInv, ProcessEndsWithHandler
  <2>2. T(t)!NextUnit
    BY <2>1 DEF T!NextUnit, View, T!View, handlers
  <2> QED
    BY <2>2 DEF T!Next
<1>3. ASSUME NEW u \in Toolings, NEW a \in Annotations, Touches(u, a)
      PROVE  [T(t)!Next]_(T(t)!vars)
  <2>1. CASE t = u
    BY <1>3, <2>1, OwnStep
  <2>2. CASE t # u
    BY <1>3, <2>2, OthersStand DEF T!vars
  <2> QED
    BY <2>1, <2>2
<1> QED
  BY <1>1, <1>2, <1>3, StepShapes

\* Every tooling behaves as PimplTooling says, whatever the other toolings,
\* the registrations and the sequences do.
THEOREM SystemIsToolings == Spec => ImplementsToolings
<1>1. Init => \A t \in Toolings : T(t)!Init
  BY DEF Init, View, T!Init, T!View
<1>2. IInv /\ RulesAreBound /\ [Next]_vars
      => [\A t \in Toolings : [T(t)!Next]_(T(t)!vars)]_vars
  BY ToolingStep
<1> QED
  BY <1>1, <1>2, Invariance, PTL DEF Spec, ImplementsToolings

\* A tooling that was replaced or freed never edits the source again, but in a
\* release build while the registration that replaced it is at work.
THEOREM OnlyTheOwnedToolingEdits == Spec => OnlyOwnToolingEdits
<1>1. ASSUME IInv, RulesAreBound, [Next]_vars, DcheckOn \/ registration = L!Idle,
             NEW t \in Toolings, logs'[t] # logs[t]
      PROVE  t = tooling /\ tooling' = tooling
  <2>1. PICK a \in Annotations : Touches(tooling, a) /\ UNCHANGED tooling
    BY <1>1, StepShapes DEF NextUnit, handlers
  <2>2. CASE t # tooling
    <3>1. tooling \in Toolings
      BY <2>1 DEF Touches
    <3> QED
      BY <1>1, <2>1, <2>2, <3>1, OthersStand
  <2> QED
    BY <2>1, <2>2
<1>2. IInv /\ RulesAreBound /\ [Next]_vars
      => [DcheckOn \/ registration = L!Idle =>
            \A t \in Toolings : logs'[t] # logs[t] =>
                                  t = tooling /\ tooling' = tooling]_vars
  BY <1>1
<1> QED
  BY <1>2, Invariance, PTL DEF Spec, OnlyOwnToolingEdits

-----------------------------------------------------------------------------
(* Types.                                                                  *)

\* What the handlers of a well-typed tooling print is an output.
LEMMA GeneratedType ==
  ASSUME NEW t \in Toolings, NEW a \in Annotations, T(t)!TypeOK, Accepts(t, a)
  PROVE  D!NamesClass(a) /\ Generated(t, a) \in D!Output
<1> DEFINE info == caches[t][T(t)!ImplOf(a).key]
<1>1. D!NamesClass(a)
  <2>1. T(t)!NamesClass(a)
    BY RulesAreNamed
       DEF Accepts, T!CanReflect, T!CanInjectStorage, T!CanInjectMethodCalls
  <2> QED
    BY <2>1, SameData
<1>2. ASSUME T(t)!IsReflected(a) PROVE info \in D!ClassInfo
  <2>1. T(t)!ImplOf(a).key \in Keys
    BY <1>1, ImplIsNamed, SameData
  <2>2. caches[t] \in [Keys -> D!ClassInfo \cup {NotCached}]
    BY SameData DEF T!TypeOK
  <2>3. info # NotCached
    BY <1>2 DEF T!IsReflected
  <2> QED
    BY <2>1, <2>2, <2>3
<1>3. CASE a.rule = "reflect_for_pimpl"
  BY <1>1, <1>3, SameData DEF Generated, D!Output
<1>4. CASE a.rule = "inject_pimpl_storage"
  <2>1. T(t)!IsReflected(a) /\ T(t)!PaddingParses(a)
    BY <1>4 DEF Accepts, T!CanInjectStorage
  <2>2. Generated(t, a) = D!Storage(info, a)
    BY <1>4, SameData DEF Generated
  <2> QED
    BY <1>1, <1>2, <2>1, <2>2, StorageIsOutput, SameData
<1>5. CASE a.rule = "inject_pimpl_method_calls"
  <2>1. T(t)!IsReflected(a)
    BY <1>5 DEF Accepts, T!CanInjectMethodCalls
  <2>2. Generated(t, a) = D!MethodCalls(info, a)
    BY <1>5, SameData DEF Generated
  <2> QED
    BY <1>1, <1>2, <2>1, <2>2, MethodCallsAreOutput
<1> QED
  BY <1>1, <1>3, <1>4, <1>5, RulesAreNamed

\* The edit of an accepted annotation.
LEMMA AcceptedType ==
  ASSUME IInv, NEW t \in Toolings, NEW a \in Annotations, T(t)!TypeOK,
         Accept(t, a)
  PROVE  /\ logs'[t] \in Seq(D!Edit)
         /\ caches'[t] \in [Keys -> D!ClassInfo \cup {NotCached}]
<1> DEFINE impl == D!ImplOf(a)
           e == [ unit |-> unit, rule |-> a.rule, key |-> impl.key,
                  cls |-> impl.cls, seen |-> visible[impl.cls],
                  output |-> Generated(t, a) ]
<1>1. /\ unit \in 1 .. MaxUnits /\ visible \in D!View
      /\ caches[t] \in [Keys -> D!ClassInfo \cup {NotCached}]
      /\ logs[t] \in Seq(D!Edit)
  BY SameData DEF T!TypeOK
<1>2. D!NamesClass(a) /\ Generated(t, a) \in D!Output
  BY GeneratedType DEF Accept
<1>3. impl.cls \in Classes /\ impl.key \in Keys
  BY <1>2, ImplIsNamed
<1>4. /\ visible[impl.cls] \in UNION {DefsOf[c] : c \in Classes}
  BY <1>1, <1>3 DEF D!View
<1>5. logs'[t] \in Seq(D!Edit)
  <2>1. e \in D!Edit
    BY <1>1, <1>2, <1>3, <1>4, RulesAreNamed DEF D!Edit, D!Rules
  <2>2. logs'[t] = Append(logs[t], e)
    BY SameData DEF Accept, IInv, OnePerTooling, T!Replaced
  <2> HIDE DEF e
  <2> QED
    BY <1>1, <2>1, <2>2
<1>6. caches'[t] \in [Keys -> D!ClassInfo \cup {NotCached}]
  <2>1. caches'[t] = caches[t]
        \/ caches'[t] = [caches[t] EXCEPT ![impl.key] =
                           D!Reflected(impl.cls, visible[impl.cls])]
    <3>1. caches'[t] = caches[t] \/ caches'[t] = T(t)!CacheWith(a)
      BY DEF Accept, CachesAfter, IInv, OnePerTooling
    <3>2. T(t)!CacheWith(a) = [caches[t] EXCEPT ![impl.key] =
                                 D!Reflected(impl.cls, visible[impl.cls])]
      BY SameData DEF T!CacheWith
    <3> QED
      BY <3>1, <3>2
  <2>2. D!Reflected(impl.cls, visible[impl.cls]) \in D!ClassInfo
    BY <1>3, <1>4, InfoIsNoMiss
  <2> HIDE DEF impl
  <2> QED
    BY <1>1, <2>1, <2>2
<1> QED
  BY <1>5, <1>6

ToolingsTyped == \A t \in Toolings : T(t)!TypeOK

\* No step breaks the types of the toolings.
LEMMA TypeStep ==
  ASSUME IInv, RulesAreBound, ToolingsTyped, [Next]_vars
  PROVE  ToolingsTyped'
<1> SUFFICES ASSUME NEW t \in Toolings PROVE T(t)!TypeOK'
  BY DEF ToolingsTyped
<1>1. T(t)!TypeOK
  BY DEF ToolingsTyped
<1>2. CASE UNCHANGED <<source, handlers>>
  BY <1>1, <1>2 DEF source, handlers, T!TypeOK
<1>3. CASE NextUnit
  <2>1. unit' \in 1 .. MaxUnits
    BY <1>1, <1>3, DataHolds DEF NextUnit, T!TypeOK, D!BoundsHold
  <2> QED
    BY <1>1, <1>3, <2>1 DEF NextUnit, handlers, T!TypeOK, View, T!View
<1>4. ASSUME NEW u \in Toolings, NEW a \in Annotations, Touches(u, a)
      PROVE  T(t)!TypeOK'
  <2>1. UNCHANGED <<unit, visible>>
    BY <1>4 DEF Touches, source
  <2>2. CASE t # u
    BY <1>1, <1>4, <2>1, <2>2, OthersStand DEF T!TypeOK
  <2>3. CASE t = u /\ Accept(t, a)
    <3>1. /\ logs'[t] \in Seq(T(t)!Edit)
          /\ caches'[t] \in [Keys -> T(t)!ClassInfo \cup {NotCached}]
      BY <1>1, <2>3, AcceptedType, SameData
    <3> QED
      BY <1>1, <2>1, <2>3, <3>1 DEF Accept, T!TypeOK
  <2>4. CASE t = u /\ Reject(t, a)
    <3>1. handled'[t] \in {"aborted", "crashed"}
      BY <2>4 DEF Reject, IInv, OnePerTooling, T!Death
    <3> QED
      BY <1>1, <2>1, <2>4, <3>1 DEF Reject, T!TypeOK
  <2> QED
    BY <1>4, <2>2, <2>3, <2>4 DEF Touches
<1> QED
  BY <1>2, <1>3, <1>4, StepShapes

\* The toolings of every reachable state are well typed.
LEMMA ToolingTypes == Spec => []ToolingsTyped
<1>1. Init => ToolingsTyped
  <2> SUFFICES ASSUME Init, NEW t \in Toolings PROVE T(t)!TypeOK
    BY DEF ToolingsTyped
  <2>1. /\ handled[t] = "running" /\ unit = 1 /\ visible \in View
        /\ caches[t] = [k \in Keys |-> NotCached] /\ logs[t] = <<>>
    BY DEF Init
  <2>2. unit \in 1 .. MaxUnits
    BY <2>1, DataHolds DEF D!BoundsHold
  <2> QED
    BY <2>1, <2>2 DEF T!TypeOK, View, T!View
<1> QED
  BY <1>1, TypeStep, Invariance, PTL DEF Spec

\* Every tooling stays well typed, the ones that were replaced included, the
\* lifecycle does, and the host sees a rejection exactly when a handler ended.
THEOREM TypeCorrect == Spec => []TypeOK
<1>1. IInv /\ L!TypeOK /\ ToolingsTyped => TypeOK
  <2> SUFFICES ASSUME IInv, L!TypeOK, ToolingsTyped PROVE TypeOK
    OBVIOUS
  <2>1. /\ DOMAIN caches = Toolings /\ DOMAIN logs = Toolings
        /\ DOMAIN handled = Toolings
    BY DEF IInv, OnePerTooling
  <2> QED
    BY <2>1 DEF TypeOK, IInv, ProcessEndsWithHandler, ToolingsTyped
<1> QED
  BY <1>1, ToolingTypes, Invariance, PTL

-----------------------------------------------------------------------------
(* Agreement of the generated code across registrations.                   *)

IsSequence(s) == \E S : s \in Seq(S)

\* A log keeps its edits at their positions when one is appended.
LEMMA LogGrows ==
  ASSUME NEW s, IsSequence(s), NEW e
  PROVE  /\ IsSequence(Append(s, e))
         /\ DOMAIN Append(s, e) = DOMAIN s \cup {Len(s) + 1}
         /\ \A i \in DOMAIN s : Append(s, e)[i] = s[i]
         /\ Append(s, e)[Len(s) + 1] = e
<1>1. PICK S : s \in Seq(S)
  BY DEF IsSequence
<1> DEFINE R == S \cup {e}
<1>2. s \in Seq(R) /\ e \in R
  BY <1>1
<1> HIDE DEF R
<1>3. Append(s, e) \in Seq(R) /\ Len(Append(s, e)) = Len(s) + 1
  BY <1>2
<1>4. DOMAIN s = 1 .. Len(s) /\ Len(s) \in Nat
      /\ DOMAIN Append(s, e) = 1 .. Len(s) + 1
  BY <1>2, <1>3
<1> QED
  BY <1>2, <1>3, <1>4 DEF IsSequence

\* A tooling's cache accounts for its edit e: the same tie between log and
\* cache as in PimplToolingProofs.
Traced(cache, e) ==
  /\ e.key \in Keys
  /\ cache[e.key] # NotCached
  /\ Reflects(e) => cache[e.key] = D!Reflected(e.cls, e.seen)
  /\ Forwards(e) => e.output.methods = D!Wrapped(cache[e.key])

Evidence(cache, log) ==
  /\ IsSequence(log)
  /\ cache = [k \in Keys |-> cache[k]]
  /\ \A i \in DOMAIN log : Traced(cache, log[i])
  /\ \A k \in Keys :
       cache[k] # NotCached =>
         \E i \in DOMAIN log : Reflects(log[i]) /\ log[i].key = k

\* The strengthening of WrappersAgreeAcrossRegistrations: whatever a tooling
\* forwards comes from its cache, and whatever it caches it reflected itself.
CInv == visible \in View /\ \A t \in Toolings : Evidence(caches[t], logs[t])

\* A tooling has itself reflected every class it has cached.
LEMMA CachedIsReflected ==
  ASSUME CInv, NEW t \in Toolings, NEW k \in Keys, caches[t][k] # NotCached
  PROVE  \E i \in DOMAIN logs[t] : Reflects(logs[t][i]) /\ logs[t][i].key = k
<1>1. Evidence(caches[t], logs[t])
  BY DEF CInv
<1>2. \A l \in Keys :
        caches[t][l] # NotCached =>
          \E i \in DOMAIN logs[t] : Reflects(logs[t][i]) /\ logs[t][i].key = l
  BY ONLY <1>1 DEF Evidence
<1> QED
  BY <1>2

\* An annotation whose settings parse names a class by a key of the cache.
LEMMA KeyIsKey ==
  ASSUME NEW t, NEW a \in Annotations, T(t)!NamesClass(a)
  PROVE  T(t)!ImplOf(a).key \in Keys /\ T(t)!ImplOf(a).cls \in Classes
  BY SameData, ImplIsNamed

\* An accepted annotation leaves cache and log tied to each other.
LEMMA AcceptStep ==
  ASSUME IInv, CInv, NEW t \in Toolings, NEW a \in Annotations,
         Touches(t, a), Accept(t, a)
  PROVE  Evidence(caches'[t], logs'[t])
<1> DEFINE key == T(t)!ImplOf(a).key
           cls == T(t)!ImplOf(a).cls
           e == [ unit |-> unit, rule |-> a.rule, key |-> key, cls |-> cls,
                  seen |-> visible[cls], output |-> Generated(t, a) ]
<1>1. T(t)!NamesClass(a)
  BY RulesAreNamed
     DEF Accept, Accepts, T!CanReflect, T!CanInjectStorage,
         T!CanInjectMethodCalls
<1>2. key \in Keys /\ cls \in Classes /\ visible[cls] \in DefsOf[cls]
  BY <1>1, KeyIsKey DEF CInv, View
<1>3. logs'[t] = Append(logs[t], e) /\ caches'[t] = CachesAfter(t, a)[t]
  BY DEF Accept, IInv, OnePerTooling, T!Replaced
<1>4. e.rule = a.rule /\ e.key = key /\ e.cls = cls /\ e.seen = visible[cls]
      /\ e.output = Generated(t, a)
  OBVIOUS
<1> HIDE DEF e, key, cls
<1>5. /\ IsSequence(logs'[t])
      /\ DOMAIN logs'[t] = DOMAIN logs[t] \cup {Len(logs[t]) + 1}
      /\ \A i \in DOMAIN logs[t] : logs'[t][i] = logs[t][i]
      /\ logs'[t][Len(logs[t]) + 1] = e
  <2>1. IsSequence(logs[t])
    BY DEF CInv, Evidence
  <2>2. /\ IsSequence(Append(logs[t], e))
        /\ DOMAIN Append(logs[t], e) = DOMAIN logs[t] \cup {Len(logs[t]) + 1}
        /\ \A i \in DOMAIN logs[t] : Append(logs[t], e)[i] = logs[t][i]
        /\ Append(logs[t], e)[Len(logs[t]) + 1] = e
    BY <2>1, LogGrows
  <2> QED
    BY <2>2, <1>3
<1>6. CASE a.rule = "reflect_for_pimpl"
  <2>1. caches[t][key] = NotCached
    BY <1>6 DEF Accept, Accepts, T!CanReflect, key
  <2>2. caches'[t] =
          [caches[t] EXCEPT ![key] = T(t)!Reflected(cls, visible[cls])]
    BY <1>3, <1>6 DEF CachesAfter, T!CacheWith, IInv, OnePerTooling, key, cls
  <2>3. /\ caches'[t] = [k \in Keys |-> caches'[t][k]]
        /\ caches'[t][key] = T(t)!Reflected(cls, visible[cls])
        /\ \A k \in Keys \ {key} : caches'[t][k] = caches[t][k]
    BY <1>2, <2>2 DEF CInv, Evidence
  <2>4. /\ caches'[t][key] = D!Reflected(e.cls, e.seen)
        /\ caches'[t][key] # NotCached
    <3>1. caches'[t][key] = D!Reflected(cls, visible[cls])
      BY <2>3, SameData
    <3>2. D!Reflected(cls, visible[cls]) # NotCached
      BY <1>2, InfoIsNoMiss
    <3>3. T(t)!Reflected(cls, visible[cls]) = D!Reflected(cls, visible[cls])
      BY SameData
    <3> QED
      BY <1>4, <2>3, <3>1, <3>2, <3>3
  <2>5. ~Forwards(e) /\ Reflects(e) /\ e.key = key
    BY <1>4, <1>6 DEF Forwards, Reflects
  <2>6. Traced(caches'[t], e)
    BY <1>2, <2>4, <2>5 DEF Traced
  <2>7. ASSUME NEW i \in DOMAIN logs[t] PROVE Traced(caches'[t], logs[t][i])
    <3>1. Traced(caches[t], logs[t][i])
      BY DEF CInv, Evidence
    <3>2. caches'[t][logs[t][i].key] = caches[t][logs[t][i].key]
      BY <2>1, <2>3, <3>1 DEF Traced
    <3> QED
      BY <3>1, <3>2 DEF Traced
  <2>8. ASSUME NEW k \in Keys, caches'[t][k] # NotCached
        PROVE  \E i \in DOMAIN logs'[t] :
                 Reflects(logs'[t][i]) /\ logs'[t][i].key = k
    <3>1. CASE k = key
      BY <1>5, <2>5, <3>1
    <3>2. CASE k # key
      <4>1. PICK i \in DOMAIN logs[t] :
               Reflects(logs[t][i]) /\ logs[t][i].key = k
        BY <2>3, <2>8, <3>2, CachedIsReflected
      <4> QED
        BY <1>5, <4>1
    <3> QED
      BY <3>1, <3>2
  <2> QED
    BY <1>5, <2>3, <2>6, <2>7, <2>8 DEF Evidence
<1>7. CASE a.rule # "reflect_for_pimpl"
  <2>1. caches'[t] = caches[t]
    BY <1>3, <1>7 DEF CachesAfter
  <2>2. caches[t][key] # NotCached
    BY <1>7, RulesAreNamed
       DEF Accept, Accepts, T!CanInjectStorage, T!CanInjectMethodCalls,
           T!IsReflected, key
  <2>3. ASSUME Forwards(e) PROVE e.output.methods = D!Wrapped(caches[t][key])
    <3>1. a.rule = "inject_pimpl_method_calls"
      BY <1>4, <2>3 DEF Forwards
    <3>2. e.output = T(t)!MethodCalls(caches[t][key], a)
      BY <1>4, <3>1 DEF Generated, key
    <3> QED
      BY <3>2, SameData DEF T!MethodCalls
  <2>4. Traced(caches[t], e)
    BY <1>2, <1>4, <1>7, <2>2, <2>3 DEF Traced, Reflects
  <2>5. ASSUME NEW i \in DOMAIN logs'[t] PROVE Traced(caches[t], logs'[t][i])
    BY <1>5, <2>4 DEF CInv, Evidence
  <2>6. ASSUME NEW k \in Keys, caches[t][k] # NotCached
        PROVE  \E i \in DOMAIN logs'[t] :
                 Reflects(logs'[t][i]) /\ logs'[t][i].key = k
    <3>1. PICK i \in DOMAIN logs[t] :
            Reflects(logs[t][i]) /\ logs[t][i].key = k
      BY <2>6, CachedIsReflected
    <3> QED
      BY <1>5, <3>1
  <2>7. caches[t] = [k \in Keys |-> caches[t][k]]
    BY DEF CInv, Evidence
  <2> QED
    BY <1>5, <2>1, <2>5, <2>6, <2>7 DEF Evidence
<1> QED
  BY <1>6, <1>7

\* No step breaks the tie between logs and caches.
LEMMA TracedStep ==
  ASSUME IInv, RulesAreBound, CInv, [Next]_vars
  PROVE  CInv'
<1>1. CASE UNCHANGED <<source, handlers>>
  BY <1>1 DEF CInv, source, handlers, View
<1>2. CASE NextUnit
  BY <1>2 DEF CInv, NextUnit, handlers, View
<1>3. ASSUME NEW u \in Toolings, NEW a \in Annotations, Touches(u, a)
      PROVE  CInv'
  <2>1. (visible \in View)'
    BY <1>3 DEF Touches, source, CInv, View
  <2>2. ASSUME NEW t \in Toolings PROVE Evidence(caches'[t], logs'[t])
    <3>1. CASE t # u
      <4>1. caches'[t] = caches[t] /\ logs'[t] = logs[t]
        BY <1>3, <2>1, <3>1, OthersStand
      <4> QED
        BY <4>1 DEF CInv
    <3>2. CASE t = u /\ Accept(t, a)
      BY <1>3, <3>2, AcceptStep
    <3>3. CASE t = u /\ Reject(t, a)
      BY <3>3 DEF Reject, CInv
    <3> QED
      BY <1>3, <3>1, <3>2, <3>3 DEF Touches
  <2> QED
    BY <2>1, <2>2 DEF CInv
<1> QED
  BY <1>1, <1>2, <1>3, StepShapes

\* The tie between logs and caches holds in every reachable state.
LEMMA TracedInvariance == Spec => []CInv
<1>1. Init => CInv
  <2> SUFFICES ASSUME Init PROVE CInv
    OBVIOUS
  <2>1. ASSUME NEW t \in Toolings PROVE Evidence(caches[t], logs[t])
    <3>1. caches[t] = [k \in Keys |-> NotCached] /\ logs[t] = <<>>
      BY DEF Init
    <3>2. IsSequence(<<>>) /\ DOMAIN <<>> = {}
      BY <<>> \in Seq({}) DEF IsSequence
    <3> QED
      BY <3>1, <3>2 DEF Evidence
  <2> QED
    BY <2>1 DEF Init, CInv
<1> QED
  BY <1>1, TracedStep, Invariance, PTL DEF Spec

\* Wherever two edits forward to one class, the same tooling or not, the
\* lists agree as soon as the reflections saw the same definition.
LEMMA AgreementFromEvidence ==
  ASSUME CInv
  PROVE  WrappersAgreeAcrossRegistrations
<1> SUFFICES ASSUME NEW e \in Edits, NEW f \in Edits,
                    Forwards(e), Forwards(f), e.key = f.key,
                    \A g, h \in Edits :
                      Reflects(g) /\ Reflects(h) /\ g.key = e.key
                        /\ h.key = e.key => g.seen = h.seen
             PROVE  e.output.methods = f.output.methods
  BY DEF WrappersAgreeAcrossRegistrations
<1>1. ASSUME NEW d \in Edits, Forwards(d), d.key = e.key
      PROVE  \E g \in Edits :
               /\ Reflects(g) /\ g.key = e.key
               /\ d.output.methods = D!Wrapped(D!Reflected(g.cls, g.seen))
  <2>1. PICK t \in Toolings : \E i \in DOMAIN logs[t] : d = logs[t][i]
    BY DEF Edits
  <2>2. Traced(caches[t], d)
    BY <2>1 DEF CInv, Evidence
  <2>3. PICK j \in DOMAIN logs[t] :
          Reflects(logs[t][j]) /\ logs[t][j].key = e.key
    BY <1>1, <2>2, CachedIsReflected DEF Traced
  <2>4. Traced(caches[t], logs[t][j])
    BY DEF CInv, Evidence
  <2>5. logs[t][j] \in Edits
    BY DEF Edits
  <2> QED
    BY <1>1, <2>2, <2>3, <2>4, <2>5 DEF Traced
<1>2. PICK g \in Edits :
        /\ Reflects(g) /\ g.key = e.key
        /\ e.output.methods = D!Wrapped(D!Reflected(g.cls, g.seen))
  BY <1>1
<1>3. PICK h \in Edits :
        /\ Reflects(h) /\ h.key = e.key
        /\ f.output.methods = D!Wrapped(D!Reflected(h.cls, h.seen))
  BY <1>1
<1>4. g.seen = h.seen
  BY <1>2, <1>3
<1>5. D!Wrapped(D!Reflected(g.cls, g.seen)) =
        D!Wrapped(D!Reflected(h.cls, h.seen))
  BY <1>4 DEF D!Wrapped, D!Reflected
<1> QED
  BY <1>2, <1>3, <1>5

\* A registration between two annotations does not change what is generated
\* for a class that both toolings saw defined alike.
THEOREM WrappersAgree == Spec => []WrappersAgreeAcrossRegistrations
  BY TracedInvariance, AgreementFromEvidence, PTL

\* What ties the log of a tooling to its cache implies the properties of it.
LEMMA ToolingFacts ==
  ASSUME CInv, ToolingsTyped, NEW t \in Toolings
  PROVE  T(t)!WrappersMirrorReflection /\ T(t)!DeclarationsMatchDefinitions
<1>1. ASSUME NEW i \in DOMAIN logs[t] PROVE Traced(caches[t], logs[t][i])
  BY DEF CInv, Evidence
<1>2. ASSUME NEW i \in DOMAIN logs[t]
      PROVE  D!Wrapped(D!Reflected(logs[t][i].cls, logs[t][i].seen)) =
               T(t)!Callable(logs[t][i].seen)
  <2>1. logs[t][i] \in D!Edit
    <3>1. logs[t] \in Seq(D!Edit)
      BY SameData DEF ToolingsTyped, T!TypeOK
    <3> QED
      BY <3>1
  <2>2. logs[t][i].seen \in D!Definition
    BY <2>1, DataHolds DEF D!Edit, D!DataTyped
  <2>3. D!Wrapped(D!Reflected(logs[t][i].cls, logs[t][i].seen)) =
          D!Callable(logs[t][i].seen)
    BY <2>2, DataHolds, D!WrappedIsCallable
  <2> QED
    BY <2>3 DEF T!Callable, D!Callable
<1>3. T(t)!WrappersMirrorReflection
  <2> SUFFICES ASSUME NEW i \in DOMAIN logs[t], NEW j \in DOMAIN logs[t],
                      Reflects(logs[t][i]), Forwards(logs[t][j]),
                      logs[t][i].key = logs[t][j].key
               PROVE  logs[t][j].output.methods = T(t)!Callable(logs[t][i].seen)
    BY DEF T!WrappersMirrorReflection, T!Reflects, T!Forwards, Reflects, Forwards
  <2> QED
    BY <1>1, <1>2 DEF Traced
<1>4. T(t)!DeclarationsMatchDefinitions
  BY <1>1 DEF T!DeclarationsMatchDefinitions, T!Forwards, Forwards, Traced
<1> QED
  BY <1>3, <1>4

\* The correctness of the single tooling carries over, however registrations
\* replace toolings: the wrappers of each are those of the definition it
\* reflected, and its declarations match its definitions.
THEOREM EveryToolingMirrors ==
  Spec => [](\A t \in Toolings : /\ T(t)!WrappersMirrorReflection
                                 /\ T(t)!DeclarationsMatchDefinitions)
<1>1. CInv /\ ToolingsTyped
      => \A t \in Toolings : /\ T(t)!WrappersMirrorReflection
                             /\ T(t)!DeclarationsMatchDefinitions
  BY ToolingFacts
<1> QED
  BY <1>1, TracedInvariance, ToolingTypes, PTL

=============================================================================
