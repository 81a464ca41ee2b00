------------------------ MODULE PluginLifecycleProofs ------------------------
(***************************************************************************)
(* Proofs about PluginLifecycle, for any number of sequences, pipelines    *)
(* and toolings, in debug and in release builds.                           *)
(***************************************************************************)
EXTENDS PluginLifecycle, TLAPS

\* What the host has connected is what the dispatcher holds.
ListenersFollowHost ==
  /\ ~attached => connected = {}
  /\ plugin = "destroyed" => ~attached

\* A checker is bound to the only sequence that used its object.
CheckersRemember ==
  DcheckOn =>
    \A o \in Objects :
      callers[o] = IF boundTo[o] = Detached THEN {} ELSE {boundTo[o]}

\* A tooling that is gone was last used, by its destructor, on the sequence
\* that the handler is bound to.
DeadToolingsAgree ==
  DcheckOn =>
    \A t \in created \ {tooling} :
      boundTo[t] = boundTo["handler"] /\ boundTo["handler"] # Detached

\* What a registration at work has done so far: it owns the handler, and the
\* rules that it has bound are bound to the new tooling.
RegistrationHolds ==
  registration # Idle =>
    /\ plugin = "alive" /\ tooling # NoTooling
    /\ DcheckOn => boundTo["handler"] = registration.on
    /\ \A i \in 1..registration.bound :
         rules[registration.pipeline][RuleOrder[i]] = tooling

IInv ==
  /\ TypeOK
  /\ ListenersFollowHost
  /\ RegistrationHolds
  /\ LatestRulesAreLive
  /\ ToolingHasInterpreter
  /\ CheckersRemember
  /\ DeadToolingsAgree

-----------------------------------------------------------------------------
(* Sequence checkers.                                                      *)

\* Objects that pass their checks and are then used stay well typed, and
\* their checkers go on remembering.
LEMMA UsesStep ==
  ASSUME TypeOK, CheckersRemember,
         NEW objects \in SUBSET Objects, NEW s \in Sequences,
         Passes(objects, s), Uses(objects, s)
  PROVE  /\ boundTo' \in [Objects -> Sequences \cup {Detached}]
         /\ callers' \in [Objects -> SUBSET Sequences]
         /\ CheckersRemember'
         /\ \A o \in Objects \ objects : boundTo'[o] = boundTo[o]
         /\ DcheckOn => \A o \in objects : boundTo'[o] = s
         /\ DcheckOn => \A o \in objects : boundTo[o] \in {Detached, s}
<1>1. boundTo' \in [Objects -> Sequences \cup {Detached}]
  BY DEF Uses, TypeOK
<1>2. callers' \in [Objects -> SUBSET Sequences]
  BY DEF Uses, TypeOK
<1>3. \A o \in Objects \ objects : boundTo'[o] = boundTo[o]
  BY DEF Uses
<1>4. DcheckOn => \A o \in objects : boundTo'[o] = s
  BY DEF Uses
<1>5. DcheckOn => \A o \in objects : boundTo[o] \in {Detached, s}
  BY DEF Passes
<1>6. CheckersRemember'
  <2> SUFFICES ASSUME DcheckOn, NEW o \in Objects
               PROVE  callers'[o] =
                        IF boundTo'[o] = Detached THEN {} ELSE {boundTo'[o]}
    BY DEF CheckersRemember
  <2>1. callers[o] = IF boundTo[o] = Detached THEN {} ELSE {boundTo[o]}
    BY DEF CheckersRemember
  <2>2. CASE o \in objects
    <3>1. boundTo'[o] = s /\ boundTo[o] \in {Detached, s} /\ s # Detached
      BY <1>4, <1>5, <2>2, LifecycleAssumption
    <3>2. callers'[o] = callers[o] \cup {s}
      BY <2>2 DEF Uses
    <3> QED
      BY <2>1, <3>1, <3>2
  <2>3. CASE o \notin objects
    BY <2>1, <2>3 DEF Uses
  <2> QED
    BY <2>2, <2>3
<1> QED
  BY <1>1, <1>2, <1>3, <1>4, <1>5, <1>6

\* Using objects that include the handler and no dead tooling, on a sequence
\* that passes, leaves the dead toolings in agreement with the handler.
LEMMA DeadToolingsStay ==
  ASSUME TypeOK, CheckersRemember, DeadToolingsAgree, DcheckOn,
         NEW objects \in SUBSET Objects, NEW s \in Sequences,
         Passes(objects, s), Uses(objects, s),
         NEW t \in created \ {tooling}, t \notin objects
  PROVE  boundTo'[t] = boundTo'["handler"] /\ boundTo'["handler"] # Detached
<1>1. t \in Objects /\ "handler" \in Objects
  BY DEF TypeOK, Objects
<1>2. boundTo[t] = boundTo["handler"] /\ boundTo["handler"] # Detached
  BY DEF DeadToolingsAgree
<1>3. boundTo'["handler"] = boundTo["handler"]
  BY <1>1, <1>2, UsesStep
<1>4. boundTo'[t] = boundTo[t]
  BY <1>1, UsesStep
<1> QED
  BY <1>2, <1>3, <1>4

-----------------------------------------------------------------------------
(* Steps.                                                                  *)

\* The objects with a checker of their own.
LEMMA ObjectFacts ==
  ASSUME TypeOK
  PROVE  /\ "plugin" \in Objects /\ "handler" \in Objects
         /\ OwnTooling \subseteq Objects
         /\ {"handler"} \cup OwnTooling \in SUBSET Objects
         /\ created \subseteq Objects
         /\ "plugin" \notin created /\ "handler" \notin created
  BY LifecycleAssumption DEF TypeOK, Objects, OwnTooling

\* A step that only uses objects which are not dead toolings keeps the parts
\* of the invariant that speak of checkers.
LEMMA CheckersStep ==
  ASSUME IInv, NEW objects \in SUBSET Objects, NEW s \in Sequences,
         Passes(objects, s), Uses(objects, s),
         UNCHANGED <<tooling, created>>,
         DcheckOn => objects \cap (created \ {tooling}) = {}
  PROVE  CheckersRemember' /\ DeadToolingsAgree'
<1>1. CheckersRemember'
  BY UsesStep DEF IInv
<1>2. DeadToolingsAgree'
  BY DeadToolingsStay DEF IInv, DeadToolingsAgree
<1> QED
  BY <1>1, <1>2

\* The three rules in their order.
LEMMA RuleOrderFacts ==
  /\ Len(RuleOrder) = 3
  /\ \A i \in 1..3 : RuleOrder[i] \in Rules
  /\ \A r \in Rules : \E i \in 1..3 : RuleOrder[i] = r
  BY DEF RuleOrder, Rules

\* Nobody else's use of the handler passes its checker in a debug build while
\* a registration is at work.
LEMMA RegistrationStays ==
  ASSUME IInv, NEW objects \in SUBSET Objects, NEW s \in Sequences,
         Passes(objects, s), Uses(objects, s),
         UNCHANGED <<plugin, tooling, registration, rules>>
  PROVE  RegistrationHolds'
<1>1. "handler" \in Objects
  BY DEF Objects
<1>2. ASSUME DcheckOn, registration # Idle
      PROVE  boundTo'["handler"] = registration.on
  <2>1. boundTo["handler"] = registration.on /\ registration.on # Detached
    BY <1>2, LifecycleAssumption DEF IInv, RegistrationHolds, TypeOK
  <2>2. CASE "handler" \in objects
    <3>1. boundTo["handler"] = s
      BY <1>2, <2>1, <2>2 DEF Passes
    <3> QED
      BY <1>1, <1>2, <2>1, <2>2, <3>1 DEF Uses
  <2>3. CASE "handler" \notin objects
    BY <1>1, <2>1, <2>3 DEF Uses
  <2> QED
    BY <2>2, <2>3
<1> QED
  BY <1>2 DEF IInv, RegistrationHolds

\* A process that stops leaves everything else as it was.
LEMMA StopStep ==
  ASSUME IInv,
         NEW how \in {"aborted", "crashed", "rejected", "undefined"}, Stops(how)
  PROVE  IInv'
  BY DEF IInv, Stops, TypeOK, ListenersFollowHost, LatestRulesAreLive,
         RegistrationHolds, ToolingHasInterpreter, CheckersRemember,
         DeadToolingsAgree

\* The calls of the host preserve the invariant.
LEMMA PluginStep ==
  ASSUME IInv, NEW s \in Sequences,
         CallPlugin(s) \/ ConnectToDispatcher(s) \/ DisconnectDispatcher(s)
  PROVE  IInv'
<1>1. CASE Stops("aborted")
  BY <1>1, StopStep
<1>2. CASE ~Stops("aborted")
  <2>1. /\ Calls(s) /\ Passes({"plugin"}, s) /\ Uses({"plugin"}, s)
        /\ UNCHANGED <<status, plugin, clingInterpreter, tooling, created,
                       registration, pipeline, rules>>
        /\ \/ UNCHANGED <<attached, connected>>
           \/ attached' = TRUE /\ connected' = connected \cup EventTypes
           \/ attached' = FALSE /\ connected' = connected \ EventTypes
    BY <1>2 DEF CallPlugin, ConnectToDispatcher, DisconnectDispatcher
  <2>2. {"plugin"} \in SUBSET Objects /\ {"plugin"} \cap (created \ {tooling}) = {}
    BY ObjectFacts DEF IInv
  <2>3. CheckersRemember' /\ DeadToolingsAgree'
    BY <2>1, <2>2, CheckersStep
  <2>4. TypeOK'
    BY <2>1, <2>2, UsesStep DEF IInv, TypeOK
  <2>5. ListenersFollowHost'
    BY <2>1 DEF IInv, ListenersFollowHost, Calls, TypeOK
  <2>6. LatestRulesAreLive' /\ ToolingHasInterpreter'
    BY <2>1 DEF IInv, LatestRulesAreLive, ToolingHasInterpreter
  <2>7. RegistrationHolds'
    BY <2>1, <2>2, RegistrationStays
  <2> QED
    BY <2>3, <2>4, <2>5, <2>6, <2>7 DEF IInv
<1> QED
  BY <1>1, <1>2

\* Events that change no pointer but perhaps the interpreter, and rules.
LEMMA QuietStep ==
  ASSUME IInv, NEW s \in Sequences, NEW objects \in SUBSET Objects,
         DcheckOn => objects \cap (created \ {tooling}) = {},
         Passes(objects, s), Uses(objects, s),
         clingInterpreter' \in {"unset", "null", "valid"},
         DcheckOn => clingInterpreter' \in {clingInterpreter, "valid"},
         UNCHANGED <<status, plugin, attached, connected, tooling, created,
                     registration, pipeline, rules>>
  PROVE  IInv'
<1>1. CheckersRemember' /\ DeadToolingsAgree'
  BY CheckersStep
<1>2. TypeOK'
  BY UsesStep DEF IInv, TypeOK
<1>3. ListenersFollowHost' /\ LatestRulesAreLive'
  BY DEF IInv, ListenersFollowHost, LatestRulesAreLive
<1>4. ToolingHasInterpreter'
  BY DEF IInv, ToolingHasInterpreter
<1>5. RegistrationHolds'
  BY RegistrationStays
<1> QED
  BY <1>1, <1>2, <1>3, <1>4, <1>5 DEF IInv

\* The events without a registration preserve it.
LEMMA EventStep ==
  ASSUME IInv, NEW s \in Sequences,
         \/ HandleQuietEvent(s)
         \/ \E interpreter \in {"null", "valid"} :
              RegisterClingInterpreter(s, interpreter)
  PROVE  IInv'
<1>1. CASE Stops("aborted")
  BY <1>1, StopStep
<1>2. CASE ~Stops("aborted")
  <2>1. {"handler"} \in SUBSET Objects /\ {"handler"} \cap (created \ {tooling}) = {}
    BY ObjectFacts DEF IInv
  <2>2. CASE HandleQuietEvent(s)
    <3>1. clingInterpreter' = clingInterpreter
          /\ clingInterpreter \in {"unset", "null", "valid"}
      BY <1>2, <2>2 DEF HandleQuietEvent, IInv, TypeOK
    <3> QED
      BY <1>2, <2>1, <2>2, <3>1, QuietStep DEF HandleQuietEvent
  <2>3. CASE \E interpreter \in {"null", "valid"} :
               RegisterClingInterpreter(s, interpreter)
    BY <1>2, <2>1, <2>3, QuietStep DEF RegisterClingInterpreter
  <2> QED
    BY <2>2, <2>3
<1> QED
  BY <1>1, <1>2

\* A debug build lets no sequence into a freed tooling: outside a registration
\* no rule is bound to one, and inside it the checker of the freed tooling is
\* on the sequence of the handler, which is busy.
LEMMA RulesStayOut ==
  ASSUME IInv, DcheckOn, NEW s \in Sequences, Calls(s),
         pipeline # NoPipeline, NEW r \in Rules,
         rules[pipeline][r] # NoTooling, Passes({rules[pipeline][r]}, s)
  PROVE  rules[pipeline][r] = tooling
<1> DEFINE t == rules[pipeline][r]
<1>1. t \in created
  BY DEF IInv, TypeOK
<1>2. CASE registration = Idle
  BY <1>2 DEF IInv, LatestRulesAreLive, Calls
<1>3. CASE registration # Idle
  <2> SUFFICES ASSUME t # tooling PROVE FALSE
    OBVIOUS
  <2>1. boundTo[t] = boundTo["handler"] /\ boundTo["handler"] # Detached
    BY <1>1 DEF IInv, DeadToolingsAgree
  <2>2. boundTo["handler"] = registration.on
    BY <1>3 DEF IInv, RegistrationHolds
  <2> QED
    BY <2>1, <2>2 DEF Passes, Calls
<1> QED
  BY <1>2, <1>3

\* The rules preserve it, whatever comes of them.
LEMMA InvokeStep ==
  ASSUME IInv, NEW s \in Sequences, NEW r \in Rules, InvokeRule(s, r)
  PROVE  IInv'
<1> DEFINE t == rules[pipeline][r]
<1>1. CASE Stops("aborted") \/ Stops("rejected") \/ Stops("undefined")
  BY <1>1, StopStep
<1>2. CASE ~Stops("aborted") /\ ~Stops("rejected") /\ ~Stops("undefined")
  <2>1. /\ Calls(s) /\ pipeline # NoPipeline /\ t # NoTooling
        /\ Passes({t}, s) /\ Uses({t}, s)
        /\ UNCHANGED <<status, plugin, attached, connected, clingInterpreter,
                       tooling, created, registration, pipeline, rules>>
    BY <1>2 DEF InvokeRule
  <2>2. t \in created
    BY <2>1 DEF IInv, TypeOK
  <2>3. {t} \in SUBSET Objects
    BY <2>2, ObjectFacts DEF IInv
  <2>4. DcheckOn => {t} \cap (created \ {tooling}) = {}
    BY <2>1, RulesStayOut
  <2>5. clingInterpreter' \in {"unset", "null", "valid"}
    BY <2>1 DEF IInv, TypeOK
  <2> HIDE DEF t
  <2> QED
    BY <2>1, <2>3, <2>4, <2>5, QuietStep
<1> QED
  BY <1>1, <1>2

\* The destructor leaves no live tooling behind; the one it frees dies on the
\* sequence of the handler.
LEMMA DestroyStep ==
  ASSUME IInv, NEW s \in Sequences, Destroy(s)
  PROVE  IInv'
<1> DEFINE objects == {"handler"} \cup OwnTooling
<1>1. CASE Stops("aborted") \/ Stops("undefined")
  BY <1>1, StopStep
<1>2. CASE ~Stops("aborted") /\ ~Stops("undefined")
  <2>1. /\ ~attached /\ Passes(objects, s) /\ Uses(objects, s)
        /\ plugin' = "destroyed" /\ tooling' = NoTooling /\ registration = Idle
        /\ UNCHANGED <<status, attached, connected, clingInterpreter, created,
                       registration, pipeline, rules>>
    BY <1>2 DEF Destroy
  <2>2. objects \in SUBSET Objects /\ "handler" \in objects /\ "handler" \in Objects
    BY ObjectFacts DEF IInv
  <2> HIDE DEF objects
  <2>3. TypeOK' /\ CheckersRemember'
    BY <2>1, <2>2, UsesStep DEF IInv, TypeOK
  <2>4. /\ ListenersFollowHost' /\ LatestRulesAreLive' /\ RegistrationHolds'
        /\ ToolingHasInterpreter'
    BY <2>1 DEF IInv, ListenersFollowHost, LatestRulesAreLive,
                RegistrationHolds, ToolingHasInterpreter
  <2>5. DeadToolingsAgree'
    <3> SUFFICES ASSUME DcheckOn, NEW t \in created
                 PROVE  boundTo'[t] = boundTo'["handler"]
                        /\ boundTo'["handler"] # Detached
      BY <2>1 DEF DeadToolingsAgree
    <3>1. CASE t = tooling
      <4>1. t \in objects
        BY <3>1, LifecycleAssumption DEF objects, OwnTooling, IInv, TypeOK
      <4>2. boundTo'[t] = s /\ boundTo'["handler"] = s
        BY <2>1, <2>2, <4>1 DEF Uses
      <4> QED
        BY <4>2, LifecycleAssumption
    <3>2. CASE t # tooling
      <4>1. t \notin objects
        BY <3>2, ObjectFacts DEF objects, OwnTooling, IInv
      <4> QED
        BY <2>1, <2>2, <3>2, <4>1, DeadToolingsStay DEF IInv
    <3> QED
      BY <3>1, <3>2
  <2> QED
    BY <2>3, <2>4, <2>5 DEF IInv
<1> QED
  BY <1>1, <1>2

\* A registration that goes through frees the old tooling on the sequence of
\* the handler and has bound no rule to the new one yet.
LEMMA RegisterStep ==
  ASSUME IInv, NEW s \in Sequences, NEW p \in Pipelines,
         Passes({"handler"} \cup OwnTooling, s), Register(s, p),
         clingInterpreter = "valid", plugin = "alive"
  PROVE  IInv'
<1> DEFINE objects == {"handler"} \cup OwnTooling
<1>1. PICK t \in Toolings \ created : tooling' = t /\ created' = created \cup {t}
  BY DEF Register
<1>2. /\ Passes(objects, s) /\ Uses(objects, s)
      /\ registration' = [on |-> s, pipeline |-> p, bound |-> 0]
      /\ UNCHANGED <<status, plugin, attached, connected, clingInterpreter,
                     pipeline, rules>>
  BY DEF Register
<1>3. objects \in SUBSET Objects /\ "handler" \in objects /\ "handler" \in Objects
  BY ObjectFacts DEF IInv
<1>4. t # NoTooling
  BY LifecycleAssumption
<1>5. registration' # Idle
  BY <1>2, LifecycleAssumption DEF Idle
<1>9. registration' \in [ on : Sequences, pipeline : Pipelines,
                          bound : 0..(Len(RuleOrder) - 1) ]
  BY <1>2, RuleOrderFacts
<1> HIDE DEF objects
<1>6. TypeOK' /\ CheckersRemember'
  <2>1. rules' \in [Pipelines -> [Rules -> created' \cup {NoTooling}]]
    BY <1>1, <1>2 DEF IInv, TypeOK
  <2> QED
    BY <1>1, <1>2, <1>3, <1>9, <2>1, UsesStep DEF IInv, TypeOK
<1>7. /\ ListenersFollowHost' /\ LatestRulesAreLive' /\ RegistrationHolds'
      /\ ToolingHasInterpreter'
  <2>1. RegistrationHolds'
    BY <1>1, <1>2, <1>3, <1>4 DEF RegistrationHolds, Uses
  <2> QED
    BY <1>1, <1>2, <1>5, <2>1
       DEF IInv, ListenersFollowHost, LatestRulesAreLive, ToolingHasInterpreter
<1>8. DeadToolingsAgree'
  <2> SUFFICES ASSUME DcheckOn, NEW u \in created
               PROVE  boundTo'[u] = boundTo'["handler"]
                      /\ boundTo'["handler"] # Detached
    BY <1>1 DEF DeadToolingsAgree
  <2>1. CASE u = tooling
    <3>1. u \in objects
      BY <2>1, LifecycleAssumption DEF objects, OwnTooling, IInv, TypeOK
    <3>2. boundTo'[u] = s /\ boundTo'["handler"] = s
      BY <1>2, <1>3, <3>1 DEF Uses
    <3> QED
      BY <3>2, LifecycleAssumption
  <2>2. CASE u # tooling
    <3>1. u \notin objects
      BY <2>2, ObjectFacts DEF objects, OwnTooling, IInv
    <3> QED
      BY <1>2, <1>3, <2>2, <3>1, DeadToolingsStay DEF IInv
  <2> QED
    BY <2>1, <2>2
<1> QED
  BY <1>6, <1>7, <1>8 DEF IInv

\* The first half of a registration preserves it, done, aborted or racing.
LEMMA RegistrationStep ==
  ASSUME IInv, NEW s \in Sequences, NEW p \in Pipelines \cup {NoPipeline},
         RegisterAnnotationMethods(s, p)
  PROVE  IInv'
<1>1. CASE Stops("aborted") \/ Stops("crashed") \/ Stops("undefined")
  BY <1>1, StopStep
<1>2. CASE ~Stops("aborted") /\ ~Stops("crashed") /\ ~Stops("undefined")
  <2>1. /\ p # NoPipeline /\ Passes({"handler"}, s) /\ Passes(OwnTooling, s)
        /\ Register(s, p) /\ plugin = "alive"
        /\ "valid" \in InterpreterRead
    BY <1>2 DEF RegisterAnnotationMethods, Delivers, Calls
  <2>2. clingInterpreter = "valid"
    BY <2>1 DEF InterpreterRead
  <2>3. Passes({"handler"} \cup OwnTooling, s)
    BY <2>1 DEF Passes
  <2> QED
    BY <2>1, <2>2, <2>3, RegisterStep
<1> QED
  BY <1>1, <1>2

\* Binding a rule preserves it: the third completes what the new pipeline
\* needs.
LEMMA BindStep ==
  ASSUME IInv, NEW s \in Sequences, BindRule(s)
  PROVE  IInv'
<1> DEFINE p == registration.pipeline
           n == registration.bound + 1
<1>1. registration # Idle
  BY LifecycleAssumption DEF BindRule, Idle
<1>2. p \in Pipelines /\ n \in 1..3 /\ registration.bound = n - 1
  BY <1>1, RuleOrderFacts DEF IInv, TypeOK
<1>3. RuleOrder[n] \in Rules
  BY <1>2, RuleOrderFacts
<1>4. /\ rules' = [rules EXCEPT ![p][RuleOrder[n]] = tooling]
      /\ UNCHANGED <<status, plugin, attached, connected, clingInterpreter,
                     tooling, created, boundTo, callers>>
  BY DEF BindRule, Bind
<1>5. /\ n = 3 => registration' = Idle /\ pipeline' = p
      /\ n # 3 => registration' = [registration EXCEPT !.bound = n]
                  /\ pipeline' = pipeline
  BY RuleOrderFacts DEF BindRule
<1>6. rules' \in [Pipelines -> [Rules -> created \cup {NoTooling}]]
  BY <1>2, <1>3, <1>4 DEF IInv, TypeOK
<1>7. \A i \in 1..n : rules'[p][RuleOrder[i]] = tooling
  <2> SUFFICES ASSUME NEW i \in 1..n PROVE rules'[p][RuleOrder[i]] = tooling
    OBVIOUS
  <2>1. RuleOrder[i] \in Rules
    BY <1>2, RuleOrderFacts
  <2>2. rules[p] \in [Rules -> created \cup {NoTooling}]
        /\ rules \in [Pipelines -> [Rules -> created \cup {NoTooling}]]
    BY <1>2 DEF IInv, TypeOK
  <2>3. CASE i = n
    BY <1>2, <1>3, <1>4, <2>2, <2>3
  <2>4. CASE i # n
    <3>1. i \in 1..registration.bound
      BY <1>2, <2>4
    <3>2. rules[p][RuleOrder[i]] = tooling
      BY <1>1, <3>1 DEF IInv, RegistrationHolds
    <3> QED
      BY <1>2, <1>3, <1>4, <2>1, <2>2, <3>2
  <2> QED
    BY <2>3, <2>4
<1>8. /\ plugin = "alive" /\ tooling # NoTooling
      /\ DcheckOn => boundTo["handler"] = registration.on
      /\ registration \in [ on : Sequences, pipeline : Pipelines,
                            bound : 0..(Len(RuleOrder) - 1) ]
      /\ pipeline \in Pipelines \cup {NoPipeline}
  BY <1>1 DEF IInv, RegistrationHolds, TypeOK
<1> HIDE DEF p, n
<1>9. CASE n = 3
  <2>1. registration' = Idle /\ pipeline' = p
    BY <1>5, <1>9
  <2>2. TypeOK'
    BY <1>2, <1>4, <1>6, <2>1 DEF IInv, TypeOK
  <2>3. \A r \in Rules : rules'[p][r] = tooling
    BY <1>7, <1>9, RuleOrderFacts
  <2> QED
    BY <1>4, <1>8, <2>1, <2>2, <2>3
       DEF IInv, ListenersFollowHost, RegistrationHolds, LatestRulesAreLive,
           ToolingHasInterpreter, CheckersRemember, DeadToolingsAgree
<1>10. CASE n # 3
  <2>1. registration' = [registration EXCEPT !.bound = n] /\ pipeline' = pipeline
    BY <1>5, <1>10
  <2>2. /\ registration'.on = registration.on /\ registration'.bound = n
        /\ registration'.pipeline = p
        /\ registration' \in [ on : Sequences, pipeline : Pipelines,
                               bound : 0..(Len(RuleOrder) - 1) ]
        /\ registration' # Idle
    <3>1. n \in 0..2
      BY <1>2, <1>10
    <3>2. registration'.on \in Sequences
      BY <1>8, <2>1
    <3> QED
      BY <1>8, <2>1, <3>1, <3>2, RuleOrderFacts, LifecycleAssumption DEF Idle, p
  <2>3. TypeOK'
    BY <1>4, <1>6, <1>8, <2>1, <2>2 DEF IInv, TypeOK
  <2>4. RegistrationHolds'
    BY <1>4, <1>7, <1>8, <2>2 DEF RegistrationHolds
  <2>5. LatestRulesAreLive'
    BY <2>2 DEF LatestRulesAreLive
  <2> QED
    BY <1>4, <2>3, <2>4, <2>5
       DEF IInv, ListenersFollowHost, ToolingHasInterpreter, CheckersRemember,
           DeadToolingsAgree
<1> QED
  BY <1>9, <1>10

\* Every step preserves the invariant.
LEMMA InvariantStep == IInv /\ [Next]_vars => IInv'
<1> SUFFICES ASSUME IInv, [Next]_vars PROVE IInv'
  OBVIOUS
<1>1. CASE UNCHANGED vars
  BY <1>1 DEF vars, IInv, TypeOK, ListenersFollowHost, LatestRulesAreLive,
              RegistrationHolds, ToolingHasInterpreter, CheckersRemember,
              DeadToolingsAgree
<1>2. CASE Next
  BY <1>2, PluginStep, DestroyStep, EventStep, RegistrationStep, BindStep,
     InvokeStep
     DEF Next
<1> QED
  BY <1>1, <1>2

\* The invariant holds of every behaviour.
LEMMA Invariance == Spec => []IInv
<1>1. Init => IInv
  <2> SUFFICES ASSUME Init PROVE IInv
    OBVIOUS
  <2>1. TypeOK
    BY DEF Init, TypeOK
  <2>2. ListenersFollowHost /\ LatestRulesAreLive /\ ToolingHasInterpreter
    BY DEF Init, ListenersFollowHost, LatestRulesAreLive, ToolingHasInterpreter
  <2>5. RegistrationHolds
    BY DEF Init, RegistrationHolds
  <2>3. CheckersRemember
    BY DEF Init, CheckersRemember
  <2>4. DeadToolingsAgree
    BY DEF Init, DeadToolingsAgree
  <2> QED
    BY <2>1, <2>2, <2>3, <2>4, <2>5 DEF IInv
<1> QED
  BY <1>1, InvariantStep, PTL DEF Spec

-----------------------------------------------------------------------------
(* What follows.                                                           *)

\* The types of all variables; every rule is unbound or bound to a tooling
\* that was constructed.
THEOREM TypeCorrect == Spec => []TypeOK
<1>1. IInv => TypeOK
  BY DEF IInv
<1> QED
  BY <1>1, Invariance, PTL

\* A destroyed plugin has no listener left in the dispatcher.
THEOREM ListenersAreGone == Spec => []NoDanglingListener
<1>1. IInv => NoDanglingListener
  BY DEF IInv, ListenersFollowHost, NoDanglingListener
<1> QED
  BY <1>1, Invariance, PTL

\* The rules of the pipeline registered last point to the live tooling.
THEOREM RulesAreLive == Spec => []LatestRulesAreLive
<1>1. IInv => LatestRulesAreLive
  BY DEF IInv
<1> QED
  BY <1>1, Invariance, PTL

\* Freed toolings and races for tooling_ and the rules are met only while a
\* registration is at work, in every build and for any number of sequences.
THEOREM UndefinedOnlyInOverlaps == Spec => OnlyOverlapsAreUndefined
<1>1. IInv /\ [Next]_vars =>
        (status # "undefined" /\ status' = "undefined" => registration # Idle)
  <2> SUFFICES ASSUME IInv, Next, status # "undefined", status' = "undefined",
                      registration = Idle
               PROVE  FALSE
    BY DEF vars
  <2>1. PICK s \in Sequences, r \in Rules : InvokeRule(s, r)
    BY DEF Next, CallPlugin, ConnectToDispatcher, DisconnectDispatcher, Destroy,
           HandleQuietEvent, RegisterClingInterpreter, BindRule,
           RegisterAnnotationMethods, Register, Stops
  <2>2. /\ plugin = "alive" /\ pipeline # NoPipeline
        /\ \/ rules[pipeline][r] # tooling
           \/ registration.pipeline = pipeline
    BY <2>1 DEF InvokeRule, Calls, Stops, Overlaps
  <2>3. registration.pipeline = NoPipeline
    BY DEF Idle
  <2> QED
    BY <2>2, <2>3 DEF IInv, LatestRulesAreLive
<1> QED
  BY <1>1, Invariance, PTL DEF Spec, OnlyOverlapsAreUndefined

\* A debug build lets only one sequence use an object.
THEOREM OneSequencePerObject == Spec => []ObjectsStayOnOneSequence
<1>1. IInv => ObjectsStayOnOneSequence
  BY DEF IInv, CheckersRemember, ObjectsStayOnOneSequence
<1> QED
  BY <1>1, Invariance, PTL

\* A debug build frees a tooling on the sequence of the handler, the one that
\* used it.
THEOREM ToolingsDieAtHome == Spec => []ToolingDiesWhereItWasUsed
<1>1. IInv => ToolingDiesWhereItWasUsed
  <2> SUFFICES ASSUME IInv, DcheckOn, NEW t \in created \ {tooling}
               PROVE  callers[t] = callers["handler"]
    BY DEF ToolingDiesWhereItWasUsed
  <2>1. t \in Objects /\ "handler" \in Objects
    BY ObjectFacts DEF IInv
  <2> QED
    BY <2>1 DEF IInv, CheckersRemember, DeadToolingsAgree
<1> QED
  BY <1>1, Invariance, PTL

\* A debug build never has a tooling without a valid interpreter.
THEOREM InterpreterIsThere == Spec => []ToolingHasInterpreter
<1>1. IInv => ToolingHasInterpreter
  BY DEF IInv
<1> QED
  BY <1>1, Invariance, PTL

=============================================================================
