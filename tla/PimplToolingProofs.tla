------------------------- MODULE PimplToolingProofs -------------------------
(***************************************************************************)
(* Proofs about PimplTooling, for every value of its constants.            *)
(***************************************************************************)
EXTENDS PimplTooling, WellFoundedInduction, TLAPS

USE DEF SentinelsDiffer, BoundsHold, DataTyped, WidthsHold, ParamNamesDiffer,
        MissIsNoInfo

-----------------------------------------------------------------------------
(* Arguments.                                                              *)

\* A nonempty set of positions of a sequence has a greatest element, the one
\* that Max chooses (the last argument of an annotation).
LEMMA MaxOfPositions ==
  ASSUME NEW n \in Nat, NEW S \in SUBSET (1 .. n), S # {}
  PROVE  Max(S) \in S /\ \A j \in S : j <= Max(S)
<1> DEFINE Below == {p \in Nat \X Nat : p[1] < p[2]}
           Mirror == {n - i : i \in S}
<1>1. IsWellFoundedOn(Below, Nat)
  BY NatLessThanWellFounded DEF OpToRel
<1>2. Mirror \subseteq Nat /\ Mirror # {}
  <2>1. \A i \in S : i \in Nat /\ n - i \in Nat
    OBVIOUS
  <2>2. PICK i \in S : TRUE
    OBVIOUS
  <2>3. n - i \in Mirror
    BY <2>2
  <2> QED
    BY <2>1, <2>3
<1>3. PICK x \in Mirror : \A y \in Mirror : ~ (<<y, x>> \in Below)
  BY <1>1, <1>2, WFMin
<1>4. PICK i \in S : x = n - i
  BY <1>3
<1>5. \A j \in S : i >= j
  <2> SUFFICES ASSUME NEW j \in S PROVE i >= j
    OBVIOUS
  <2>1. n - j \in Mirror
    OBVIOUS
  <2>2. ~ (n - j < n - i)
    BY <1>2, <1>3, <1>4, <2>1
  <2> QED
    BY <2>2
<1> QED
  BY <1>4, <1>5 DEF Max

\* The padding of accepted arguments is an integer: none, or the value of the
\* last argument, which is that of a text.
LEMMA ExtraSizeBytesType ==
  ASSUME NEW a \in Annotations, PaddingParses(a)
  PROVE  /\ ExtraSizeBytes(a) \in Int
         /\ Given(a) = {} => ExtraSizeBytes(a) = 0
         /\ Given(a) # {} =>
              /\ \E i \in Given(a) : /\ \A j \in Given(a) : j <= i
                                     /\ ExtraSizeBytes(a) = ValueAt(a, i)
              /\ \A i \in Given(a) : (\A j \in Given(a) : j <= i) =>
                                       ExtraSizeBytes(a) = ValueAt(a, i)
              /\ \E text \in DOMAIN IntOf :
                   IntOf[text] # NoInt /\ ExtraSizeBytes(a) = IntOf[text]
<1>1. CASE Given(a) = {}
  BY <1>1 DEF ExtraSizeBytes
<1>2. CASE Given(a) # {}
  <2>1. a.args \in Seq(Arg)
    BY DataAssumption DEF Annotation
  <2>2. Given(a) \subseteq 1 .. Len(a.args) /\ Len(a.args) \in Nat
    <3>1. DOMAIN a.args = 1 .. Len(a.args) /\ Len(a.args) \in Nat
      BY <2>1
    <3> QED
      BY <3>1 DEF Given
  <2>3. Max(Given(a)) \in Given(a) /\ \A j \in Given(a) : j <= Max(Given(a))
    BY <1>2, <2>2, MaxOfPositions
  <2>4. a.args[Max(Given(a))] \in Arg
    BY <2>1, <2>2, <2>3
  <2>5. ValueAt(a, Max(Given(a))) \in Int \cup {NoInt}
    BY <2>4, DataAssumption DEF ValueAt, Arg
  <2>6. \A i \in Given(a) : (\A j \in Given(a) : j <= i) => i = Max(Given(a))
    <3> SUFFICES ASSUME NEW i \in Given(a), \A j \in Given(a) : j <= i
                 PROVE  i = Max(Given(a))
      OBVIOUS
    <3>1. i <= Max(Given(a)) /\ Max(Given(a)) <= i
      BY <2>3
    <3> QED
      BY <2>2, <2>3, <3>1
  <2>7. ValueAt(a, Max(Given(a))) # NoInt
    BY <2>3 DEF PaddingParses
  <2>8. a.args[Max(Given(a))].value \in DOMAIN IntOf
    BY <2>4 DEF Arg
  <2>9. ExtraSizeBytes(a) = ValueAt(a, Max(Given(a)))
    BY <1>2 DEF ExtraSizeBytes
  <2> QED
    BY <1>2, <2>3, <2>5, <2>6, <2>7, <2>8, <2>9 DEF ValueAt
<1> QED
  BY <1>1, <1>2

-----------------------------------------------------------------------------
(* Types.                                                                  *)

\* The implementation type of parsed settings is a class with a name.
LEMMA ImplOfType ==
  ASSUME NEW a \in Annotations, NamesClass(a)
  PROVE  ImplOf(a).cls \in Classes /\ ImplOf(a).key \in Keys
<1>1. PICK p \in a.params : p.name = "impl"
  BY DEF NamesClass, NamesImpl
<1>2. a.params \subseteq Param
  BY DataAssumption DEF Annotation
<1>3. \E q \in a.params : q.name = "impl" /\ ImplOf(a) = q.type
  BY <1>1 DEF ImplOf
<1> QED
  BY <1>2, <1>3 DEF NamesClass, Param, Type

\* The name of the interface class is a printed name or absent.
LEMMA InterfaceOfType ==
  ASSUME NEW a \in Annotations
  PROVE  InterfaceOf(a) \in Keys \cup {NoInterface}
<1>1. a.params \subseteq Param
  BY DataAssumption DEF Annotation
<1> QED
  BY <1>1 DEF InterfaceOf, Param, Type

\* What a visible definition and a cached reflection are made of.
LEMMA DefinitionType ==
  ASSUME TypeOK, NEW c \in Classes
  PROVE  /\ visible[c] \in DefsOf[c]
         /\ visible[c] \in UNION {DefsOf[k] : k \in Classes}
         /\ Reflected(c, visible[c]) \in ClassInfo
<1>1. visible[c] \in DefsOf[c]
  BY DEF TypeOK, View
<1>2. visible[c] \in UNION {DefsOf[k] : k \in Classes}
  BY <1>1
<1> QED
  BY <1>1, <1>2 DEF ClassInfo

\* What is reflected is a ClassInfo.
LEMMA ClassInfoType ==
  ASSUME NEW info \in ClassInfo
  PROVE  /\ info.methods \subseteq Methods
         /\ info.size \in 0 .. SizeModulus - 1
         /\ info.nonVirtualAlignment \in Nat
<1>1. PICK c \in Classes, d \in UNION {DefsOf[k] : k \in Classes} :
        info = Reflected(c, d)
  BY DEF ClassInfo
<1>2. d \in Definition
  BY <1>1, DataAssumption
<1> QED
  BY <1>1, <1>2 DEF Reflected, Definition

\* The storage printed is an output.
LEMMA StorageType ==
  ASSUME NEW a \in Annotations, PaddingParses(a), NEW info \in ClassInfo
  PROVE  Storage(info, a) \in Output
<1>1. info.size + ExtraSizeBytes(a) \in Int
  BY ExtraSizeBytesType, ClassInfoType
<1>2. TypeSize(info, a) \in 0 .. SizeModulus - 1
  BY <1>1, BoundAssumption DEF TypeSize
<1> QED
  BY <1>2, ClassInfoType DEF Storage, Output

\* The wrappers printed are an output.
LEMMA MethodCallsType ==
  ASSUME NEW a \in Annotations, NEW info \in ClassInfo
  PROVE  MethodCalls(info, a) \in Output
<1>1. Wrapped(info) \subseteq Methods
  BY ClassInfoType DEF Wrapped
<1>2. WithoutMethodBody(a) \in BOOLEAN
  BY DEF WithoutMethodBody
<1> QED
  BY <1>1, <1>2, InterfaceOfType DEF MethodCalls, Output

\* A handler that appends output for annotation a appends this edit.
LEMMA ReplaceWithEdit ==
  ASSUME TypeOK, NEW a \in Annotations, NamesClass(a),
         NEW output \in Output, ReplaceWith(a, output)
  PROVE  \E e \in Edit :
           /\ log' = Append(log, e)
           /\ e.rule = a.rule
           /\ e.key = ImplOf(a).key
           /\ e.cls = ImplOf(a).cls
           /\ e.seen = visible[ImplOf(a).cls]
           /\ e.output = output
<1> DEFINE new == [ unit |-> unit, rule |-> a.rule, key |-> ImplOf(a).key,
                    cls |-> ImplOf(a).cls, seen |-> visible[ImplOf(a).cls],
                    output |-> output ]
<1>1. a.rule \in Rules
  BY DataAssumption DEF Annotation
<1>2. new \in Edit
  BY <1>1, ImplOfType, DefinitionType DEF Edit, TypeOK
<1>3. log' = Append(log, new)
  BY DEF ReplaceWith, Replaced
<1>4. WITNESS new \in Edit
<1> QED
  BY <1>3

\* The log stays a sequence of edits when a handler extends it.
LEMMA ReplaceWithType ==
  ASSUME TypeOK, NEW a \in Annotations, NamesClass(a),
         NEW output \in Output, ReplaceWith(a, output)
  PROVE  log' \in Seq(Edit)
<1>1. PICK e \in Edit : log' = Append(log, e)
  BY ReplaceWithEdit
<1> QED
  BY <1>1 DEF TypeOK

\* Every step keeps the types.
LEMMA TypeStep == TypeOK /\ [Next]_vars => TypeOK'
<1> SUFFICES ASSUME TypeOK, [Next]_vars PROVE TypeOK'
  OBVIOUS
<1>1. ASSUME NEW a \in Annotations, Die(a) PROVE TypeOK'
  BY <1>1 DEF Die, Death, TypeOK
<1>2. ASSUME NEW a \in Annotations, ReflectForPimpl(a) PROVE TypeOK'
  <2>1. CASE ~CanReflect(a) /\ Die(a)
    BY <1>1, <2>1
  <2>2. CASE CanReflect(a)
    <3>1. NamesClass(a)
      BY <2>2 DEF CanReflect
    <3>2. log' \in Seq(Edit)
      BY <1>2, <2>2, <3>1, ReplaceWithType DEF ReflectForPimpl, Output
    <3>3. reflectionCache' \in [Keys -> ClassInfo \cup {NotCached}]
      BY <1>2, <2>2, <3>1, ImplOfType, DefinitionType
         DEF ReflectForPimpl, CacheWith, TypeOK
    <3> QED
      BY <1>2, <2>2, <3>2, <3>3 DEF ReflectForPimpl, CacheWith, TypeOK
  <2> QED
    BY <1>2, <2>1, <2>2 DEF ReflectForPimpl
<1>3. ASSUME NEW a \in Annotations, NamesClass(a), IsReflected(a)
      PROVE  reflectionCache[ImplOf(a).key] \in ClassInfo
  BY <1>3, ImplOfType DEF IsReflected, TypeOK
<1>4. ASSUME NEW a \in Annotations, InjectPimplStorage(a) PROVE TypeOK'
  <2>1. CASE ~CanInjectStorage(a) /\ Die(a)
    BY <1>1, <2>1
  <2>2. CASE CanInjectStorage(a)
    <3>1. Storage(reflectionCache[ImplOf(a).key], a) \in Output
      BY <1>3, <2>2, StorageType DEF CanInjectStorage
    <3>2. log' \in Seq(Edit)
      BY <1>4, <2>2, <3>1, ReplaceWithType
         DEF InjectPimplStorage, CanInjectStorage
    <3> QED
      BY <1>4, <2>2, <3>2 DEF InjectPimplStorage, TypeOK
  <2> QED
    BY <1>4, <2>1, <2>2 DEF InjectPimplStorage
<1>5. ASSUME NEW a \in Annotations, InjectPimplMethodCalls(a) PROVE TypeOK'
  <2>1. CASE ~CanInjectMethodCalls(a) /\ Die(a)
    BY <1>1, <2>1
  <2>2. CASE CanInjectMethodCalls(a)
    <3>1. MethodCalls(reflectionCache[ImplOf(a).key], a) \in Output
      BY <1>3, <2>2, MethodCallsType DEF CanInjectMethodCalls
    <3>2. log' \in Seq(Edit)
      BY <1>5, <2>2, <3>1, ReplaceWithType
         DEF InjectPimplMethodCalls, CanInjectMethodCalls
    <3> QED
      BY <1>5, <2>2, <3>2 DEF InjectPimplMethodCalls, TypeOK
  <2> QED
    BY <1>5, <2>1, <2>2 DEF InjectPimplMethodCalls
<1>6. CASE NextUnit
  BY <1>6, BoundAssumption DEF NextUnit, TypeOK
<1>7. CASE Finish
  BY <1>7 DEF Finish, TypeOK
<1>8. CASE UNCHANGED vars
  BY <1>8 DEF vars, TypeOK
<1> QED
  BY <1>2, <1>4, <1>5, <1>6, <1>7, <1>8 DEF Next

\* Whatever the annotations, classes and bounds, the state keeps its type;
\* in particular every cached entry is the reflection of some definition and
\* every printed size fits the width of a size.
THEOREM TypeCorrect == Spec => []TypeOK
<1>1. Init => TypeOK
  BY BoundAssumption DEF Init, TypeOK
<1> QED
  BY <1>1, TypeStep, PTL DEF Spec

-----------------------------------------------------------------------------
(* The inductive invariant.  ReflectedOnceBeforeUse alone is not inductive: *)
(* only the cache tells that a key was reflected, so the invariant ties     *)
(* every cached entry to an edit and every edit to the cached entry.        *)

IInv == TypeOK /\ CacheExplainsLog /\ ReflectedOnceBeforeUse

\* Appending leaves the older edits where they are.
LEMMA LogGrows ==
  ASSUME TypeOK, NEW e \in Edit, log' = Append(log, e)
  PROVE  /\ Len(log) \in Nat
         /\ DOMAIN log = 1 .. Len(log)
         /\ DOMAIN log' = 1 .. Len(log) + 1
         /\ \A i \in DOMAIN log : i \in DOMAIN log' /\ log'[i] = log[i]
         /\ log'[Len(log) + 1] = e
<1>1. log \in Seq(Edit)
  BY DEF TypeOK
<1> QED
  BY <1>1

\* The log holds edits.
LEMMA LogEntryType ==
  ASSUME TypeOK, NEW i \in DOMAIN log
  PROVE  log[i] \in Edit /\ log[i].key \in Keys /\ log[i].cls \in Classes
<1>1. log \in Seq(Edit)
  BY DEF TypeOK
<1>2. log[i] \in Edit
  BY <1>1
<1> QED
  BY <1>2 DEF Edit

\* An edit stays accounted for as long as the entry of its key stays.
LEMMA AccountedForStays ==
  ASSUME NEW e, NEW c, NEW d, AccountedFor(e, c), d[e.key] = c[e.key]
  PROVE  AccountedFor(e, d)
  BY DEF AccountedFor

\* A transformation keeps CacheExplainsLog when it touches no cached entry,
\* its own edit is accounted for, and it caches no key but its own and only
\* as a reflection.
LEMMA ExplanationStep ==
  ASSUME TypeOK, CacheExplainsLog,
         NEW e \in Edit, log' = Append(log, e),
         \A k \in Keys : reflectionCache[k] # NotCached =>
                           reflectionCache'[k] = reflectionCache[k],
         \A k \in Keys : reflectionCache'[k] # reflectionCache[k] =>
                           k = e.key /\ Reflects(e),
         AccountedFor(e, reflectionCache')
  PROVE  CacheExplainsLog'
<1>1. ASSUME NEW i \in DOMAIN log' PROVE AccountedFor(log'[i], reflectionCache')
  <2>1. CASE i \in DOMAIN log
    <3>1. log'[i] = log[i] /\ AccountedFor(log[i], reflectionCache)
      BY <2>1, LogGrows DEF CacheExplainsLog
    <3>2. log[i].key \in Keys
      BY <2>1, LogEntryType
    <3>3. reflectionCache'[log[i].key] = reflectionCache[log[i].key]
      BY <3>1, <3>2 DEF AccountedFor
    <3> QED
      BY <3>1, <3>3, AccountedForStays
  <2>2. CASE i = Len(log) + 1
    BY <2>2, LogGrows
  <2> QED
    BY <1>1, <2>1, <2>2, LogGrows
<1>2. ASSUME NEW k \in Keys, reflectionCache'[k] # NotCached
      PROVE  \E i \in DOMAIN log' : Reflects(log'[i]) /\ log'[i].key = k
  <2>1. CASE reflectionCache'[k] = reflectionCache[k]
    <3>1. PICK i \in DOMAIN log : Reflects(log[i]) /\ log[i].key = k
      BY <1>2, <2>1 DEF CacheExplainsLog
    <3> QED
      BY <3>1, LogGrows
  <2>2. CASE reflectionCache'[k] # reflectionCache[k]
    BY <2>2, LogGrows
  <2> QED
    BY <2>1, <2>2
<1> QED
  BY <1>1, <1>2 DEF CacheExplainsLog

\* A transformation keeps ReflectedOnceBeforeUse when a reflection finds no
\* entry for its key and an injection finds one.
LEMMA OrderStep ==
  ASSUME TypeOK, CacheExplainsLog, ReflectedOnceBeforeUse,
         NEW e \in Edit, log' = Append(log, e),
         Reflects(e) <=> reflectionCache[e.key] = NotCached
  PROVE  ReflectedOnceBeforeUse'
<1>1. \A i \in DOMAIN log : reflectionCache[log[i].key] # NotCached
  BY DEF CacheExplainsLog, AccountedFor
<1>2. ASSUME NEW i \in DOMAIN log', NEW j \in DOMAIN log',
             Reflects(log'[i]), Reflects(log'[j]), log'[i].key = log'[j].key
      PROVE  i = j
  <2>1. CASE i \in DOMAIN log /\ j \in DOMAIN log
    BY <1>2, <2>1, LogGrows DEF ReflectedOnceBeforeUse
  <2>2. CASE i \in DOMAIN log /\ j = Len(log) + 1
    BY <1>1, <1>2, <2>2, LogGrows
  <2>3. CASE i = Len(log) + 1 /\ j \in DOMAIN log
    BY <1>1, <1>2, <2>3, LogGrows
  <2> QED
    BY <2>1, <2>2, <2>3, LogGrows
<1>3. ASSUME NEW i \in DOMAIN log', ~Reflects(log'[i])
      PROVE  \E j \in 1 .. i - 1 : Reflects(log'[j]) /\ log'[j].key = log'[i].key
  <2>1. CASE i \in DOMAIN log
    <3>1. PICK j \in 1 .. i - 1 : Reflects(log[j]) /\ log[j].key = log[i].key
      BY <1>3, <2>1, LogGrows DEF ReflectedOnceBeforeUse
    <3>2. j \in DOMAIN log
      BY <2>1, LogGrows
    <3> QED
      BY <2>1, <3>1, <3>2, LogGrows
  <2>2. CASE i = Len(log) + 1
    <3>1. reflectionCache[e.key] # NotCached /\ e.key \in Keys
      BY <1>3, <2>2, LogGrows DEF Edit
    <3>2. PICK j \in DOMAIN log : Reflects(log[j]) /\ log[j].key = e.key
      BY <3>1 DEF CacheExplainsLog
    <3> QED
      BY <2>2, <3>2, LogGrows
  <2> QED
    BY <1>3, <2>1, <2>2, LogGrows
<1> QED
  BY <1>2, <1>3 DEF ReflectedOnceBeforeUse

\* A step that leaves cache and log alone keeps both.
LEMMA IdleStep ==
  ASSUME CacheExplainsLog, ReflectedOnceBeforeUse,
         UNCHANGED <<reflectionCache, log>>
  PROVE  CacheExplainsLog' /\ ReflectedOnceBeforeUse'
  BY DEF CacheExplainsLog, ReflectedOnceBeforeUse

\* The three handlers and the other steps keep the invariant.
LEMMA ReflectStep ==
  ASSUME IInv, NEW a \in Annotations, ReflectForPimpl(a), CanReflect(a)
  PROVE  CacheExplainsLog' /\ ReflectedOnceBeforeUse'
<1> USE DEF IInv
<1> DEFINE c == ImplOf(a).cls
           k == ImplOf(a).key
<1>1. NamesClass(a) /\ c \in Classes /\ k \in Keys
  BY ImplOfType DEF CanReflect
<1>2. Nothing \in Output
  BY DEF Output
<1>3. /\ reflectionCache' =
           [reflectionCache EXCEPT ![k] = Reflected(c, visible[c])]
      /\ ReplaceWith(a, Nothing)
      /\ reflectionCache[k] = NotCached
      /\ visible[c].methods # {}
      /\ a.rule = "reflect_for_pimpl"
  BY DEF ReflectForPimpl, CacheWith, CanReflect, Handles
<1>4. PICK e \in Edit :
        /\ log' = Append(log, e)
        /\ e.rule = a.rule /\ e.key = k /\ e.cls = c /\ e.seen = visible[c]
  BY <1>1, <1>2, <1>3, ReplaceWithEdit
<1>5. Reflects(e) /\ ~Stores(e) /\ ~Forwards(e)
  BY <1>3, <1>4 DEF Reflects, Stores, Forwards
<1>6. reflectionCache'[k] = Reflected(c, visible[c])
  BY <1>1, <1>3 DEF TypeOK
<1>7. Reflected(c, visible[c]) # NotCached /\ visible[c] \in DefsOf[c]
  BY <1>1, DefinitionType, NotCachedAssumption
<1>8. AccountedFor(e, reflectionCache')
  BY <1>1, <1>3, <1>4, <1>5, <1>6, <1>7 DEF AccountedFor
<1>9. \A l \in Keys : l # k => reflectionCache'[l] = reflectionCache[l]
  BY <1>3 DEF TypeOK
<1>10. CacheExplainsLog'
  BY <1>3, <1>4, <1>5, <1>8, <1>9, ExplanationStep
<1>11. ReflectedOnceBeforeUse'
  BY <1>3, <1>4, <1>5, OrderStep
<1> QED
  BY <1>10, <1>11

\* An injection, of either kind, preserves the invariant.
LEMMA InjectionStep ==
  ASSUME IInv, NEW a \in Annotations, NamesClass(a), IsReflected(a),
         NEW output \in Output, ReplaceWith(a, output),
         UNCHANGED reflectionCache,
         \/ /\ a.rule = "inject_pimpl_storage"
            /\ PaddingParses(a)
            /\ output = Storage(reflectionCache[ImplOf(a).key], a)
         \/ /\ a.rule = "inject_pimpl_method_calls"
            /\ output = MethodCalls(reflectionCache[ImplOf(a).key], a)
  PROVE  CacheExplainsLog' /\ ReflectedOnceBeforeUse'
<1> USE DEF IInv
<1>1. ImplOf(a).cls \in Classes /\ ImplOf(a).key \in Keys
  BY ImplOfType
<1>2. PICK e \in Edit :
        /\ log' = Append(log, e)
        /\ e.rule = a.rule /\ e.key = ImplOf(a).key /\ e.cls = ImplOf(a).cls
        /\ e.seen = visible[ImplOf(a).cls] /\ e.output = output
  BY ReplaceWithEdit
<1>3. ~Reflects(e) /\ reflectionCache[e.key] # NotCached
  BY <1>2 DEF Reflects, IsReflected
<1>4. e.seen \in DefsOf[e.cls]
  BY <1>1, <1>2, DefinitionType
<1>5. Stores(e) =>
        PaddingParses(a) /\ e.output = Storage(reflectionCache[e.key], a)
  BY <1>2 DEF Stores
<1>6. Forwards(e) => e.output.methods = Wrapped(reflectionCache[e.key])
  BY <1>2 DEF Forwards, MethodCalls
<1>7. AccountedFor(e, reflectionCache)
  BY <1>2, <1>3, <1>4, <1>5, <1>6 DEF AccountedFor
<1>8. CacheExplainsLog'
  BY <1>2, <1>7, ExplanationStep
<1>9. ReflectedOnceBeforeUse'
  BY <1>2, <1>3, OrderStep
<1> QED
  BY <1>8, <1>9

\* So does every step.
LEMMA InvariantStep == IInv /\ [Next]_vars => IInv'
<1> SUFFICES ASSUME IInv, [Next]_vars PROVE IInv'
  OBVIOUS
<1>1. TypeOK'
  BY TypeStep DEF IInv
<1>2. ASSUME UNCHANGED <<reflectionCache, log>> PROVE IInv'
  BY <1>1, <1>2, IdleStep DEF IInv
<1>3. ASSUME NEW a \in Annotations, Die(a) PROVE IInv'
  BY <1>2, <1>3 DEF Die
<1>4. ASSUME NEW a \in Annotations, NamesClass(a), IsReflected(a)
      PROVE  reflectionCache[ImplOf(a).key] \in ClassInfo
  BY <1>4, ImplOfType DEF IsReflected, IInv, TypeOK
<1>5. ASSUME NEW a \in Annotations, ReflectForPimpl(a) PROVE IInv'
  BY <1>1, <1>3, <1>5, ReflectStep DEF IInv, ReflectForPimpl
<1>6. ASSUME NEW a \in Annotations, InjectPimplStorage(a) PROVE IInv'
  <2>1. CASE CanInjectStorage(a)
    <3>1. NamesClass(a) /\ IsReflected(a) /\ PaddingParses(a)
      BY <2>1 DEF CanInjectStorage
    <3>2. Storage(reflectionCache[ImplOf(a).key], a) \in Output
      BY <1>4, <3>1, StorageType
    <3>3. /\ ReplaceWith(a, Storage(reflectionCache[ImplOf(a).key], a))
          /\ UNCHANGED reflectionCache
          /\ a.rule = "inject_pimpl_storage"
      BY <1>6, <2>1 DEF InjectPimplStorage, Handles
    <3> QED
      BY <1>1, <3>1, <3>2, <3>3, InjectionStep DEF IInv
  <2> QED
    BY <1>3, <1>6, <2>1 DEF InjectPimplStorage
<1>7. ASSUME NEW a \in Annotations, InjectPimplMethodCalls(a) PROVE IInv'
  <2>1. CASE CanInjectMethodCalls(a)
    <3>1. NamesClass(a) /\ IsReflected(a)
      BY <2>1 DEF CanInjectMethodCalls
    <3>2. MethodCalls(reflectionCache[ImplOf(a).key], a) \in Output
      BY <1>4, <3>1, MethodCallsType
    <3>3. /\ ReplaceWith(a, MethodCalls(reflectionCache[ImplOf(a).key], a))
          /\ UNCHANGED reflectionCache
          /\ a.rule = "inject_pimpl_method_calls"
      BY <1>7, <2>1 DEF InjectPimplMethodCalls, Handles
    <3> QED
      BY <1>1, <3>1, <3>2, <3>3, InjectionStep DEF IInv
  <2> QED
    BY <1>3, <1>7, <2>1 DEF InjectPimplMethodCalls
<1>8. CASE NextUnit \/ Finish \/ UNCHANGED vars
  BY <1>2, <1>8 DEF NextUnit, Finish, vars
<1> QED
  BY <1>5, <1>6, <1>7, <1>8 DEF Next

\* The invariant holds of every behaviour.
LEMMA Invariance == Spec => []IInv
<1>1. Init => IInv
  BY BoundAssumption
     DEF Init, IInv, TypeOK, CacheExplainsLog, ReflectedOnceBeforeUse
<1> QED
  BY <1>1, InvariantStep, PTL DEF Spec

-----------------------------------------------------------------------------
(* What follows from the invariant.                                        *)

\* Every injection comes after the one reflection of its key.
THEOREM ReflectionComesFirst == Spec => []ReflectedOnceBeforeUse
<1>1. IInv => ReflectedOnceBeforeUse
  BY DEF IInv
<1> QED
  BY <1>1, Invariance, PTL

\* Cache and generated code never drift apart.
THEOREM CacheExplains == Spec => []CacheExplainsLog
<1>1. IInv => CacheExplainsLog
  BY DEF IInv
<1> QED
  BY <1>1, Invariance, PTL

\* The two filters of the method list, one after the other, leave exactly
\* the methods that users of the interface may call.
LEMMA WrappedIsCallable ==
  ASSUME NEW c, NEW d \in Definition
  PROVE  Wrapped(Reflected(c, d)) = Callable(d)
<1>1. ASSUME NEW m \in d.methods
      PROVE  /\ IsPimplMethod(m) <=> m.traits \subseteq {"template"}
             /\ ~IsSkipped(m) <=>
                  (m.annotations # <<>> => Head(m.annotations) # "skip_pimpl")
  <2>1. m \in MethodInfo
    BY DataAssumption DEF Definition
  <2>2. m.traits \subseteq Traits /\ m.annotations \in Seq({"skip_pimpl", "other"})
    BY <2>1 DEF MethodInfo
  <2> QED
    BY <2>2 DEF Traits, IsPimplMethod, IsSkipped
<1> QED
  BY <1>1 DEF Wrapped, Reflected, Callable

\* An edit of the log, its reflection and its definition.
LEMMA EditFacts ==
  ASSUME IInv, NEW i \in DOMAIN log
  PROVE  /\ AccountedFor(log[i], reflectionCache)
         /\ log[i].seen \in DefsOf[log[i].cls]
         /\ log[i].seen \in Definition
         /\ log[i].key \in Keys
         /\ log[i].cls \in Classes
<1>1. log[i].key \in Keys /\ log[i].cls \in Classes
  BY LogEntryType DEF IInv
<1>2. AccountedFor(log[i], reflectionCache)
  BY DEF IInv, CacheExplainsLog
<1>3. log[i].seen \in DefsOf[log[i].cls]
  BY <1>2 DEF AccountedFor
<1>4. log[i].seen \in Definition
  BY <1>1, <1>3, DataAssumption
<1> QED
  BY <1>1, <1>2, <1>3, <1>4

\* The invariant implies that wrappers mirror the reflection.
LEMMA MirrorFacts == IInv => WrappersMirrorReflection
<1> SUFFICES ASSUME IInv, NEW i \in DOMAIN log, NEW j \in DOMAIN log,
                    Reflects(log[i]), Forwards(log[j]), log[i].key = log[j].key
             PROVE  log[j].output.methods = Callable(log[i].seen)
  BY DEF WrappersMirrorReflection
<1>1. reflectionCache[log[i].key] = Reflected(log[i].cls, log[i].seen)
  BY EditFacts DEF AccountedFor
<1>2. log[j].output.methods = Wrapped(reflectionCache[log[j].key])
  BY EditFacts DEF AccountedFor
<1> QED
  BY <1>1, <1>2, EditFacts, WrappedIsCallable

\* The wrappers are those of the reflected definition, all and only those.
THEOREM WrappersMirror == Spec => []WrappersMirrorReflection
BY Invariance, MirrorFacts, PTL

\* Declarations and definitions of one key list the same methods, whichever
\* units they are injected in and whatever those units show of the class.
THEOREM DeclarationsMatch == Spec => []DeclarationsMatchDefinitions
<1>1. IInv => DeclarationsMatchDefinitions
  BY EditFacts DEF DeclarationsMatchDefinitions, AccountedFor
<1> QED
  BY <1>1, Invariance, PTL

\* No step replaces or drops a cached reflection.
THEOREM CacheFrozen == Spec => CacheIsFrozen
<1>1. ASSUME TypeOK, [Next]_vars, NEW k \in Keys, reflectionCache[k] # NotCached
      PROVE  reflectionCache'[k] = reflectionCache[k]
  <2>1. ASSUME NEW a \in Annotations, ReflectForPimpl(a)
        PROVE  reflectionCache'[k] = reflectionCache[k]
    BY <1>1, <2>1 DEF ReflectForPimpl, CacheWith, CanReflect, Die, TypeOK
  <2>2. ASSUME NEW a \in Annotations, InjectPimplStorage(a)
        PROVE  reflectionCache'[k] = reflectionCache[k]
    BY <2>2 DEF InjectPimplStorage, Die
  <2>3. ASSUME NEW a \in Annotations, InjectPimplMethodCalls(a)
        PROVE  reflectionCache'[k] = reflectionCache[k]
    BY <2>3 DEF InjectPimplMethodCalls, Die
  <2>4. CASE NextUnit \/ Finish \/ UNCHANGED vars
    BY <2>4 DEF NextUnit, Finish, vars
  <2> QED
    BY <1>1, <2>1, <2>2, <2>3, <2>4 DEF Next
<1>2. TypeOK /\ [Next]_vars =>
        [\A k \in Keys :
           reflectionCache[k] # NotCached =>
             reflectionCache'[k] = reflectionCache[k]]_vars
  BY <1>1
<1> QED
  BY <1>2, TypeCorrect, PTL DEF Spec, CacheIsFrozen

\* An edit fits the definition that the entry of its key reflects.
LEMMA EntryFits ==
  ASSUME IInv, NEW i \in DOMAIN log, NEW r \in DOMAIN log,
         Reflects(log[r]), log[r].key = log[i].key
  PROVE  FitsDefinition(log[i], log[r].seen)
<1>1. reflectionCache[log[i].key] = Reflected(log[r].cls, log[r].seen)
  BY EditFacts DEF AccountedFor
<1>2. AccountedFor(log[i], reflectionCache) /\ log[r].seen \in Definition
  BY EditFacts
<1>3. Forwards(log[i]) => log[i].output.methods = Callable(log[r].seen)
  BY <1>1, <1>2, WrappedIsCallable DEF AccountedFor
<1>4. ASSUME NEW a
      PROVE  Storage(Reflected(log[r].cls, log[r].seen), a) = Storage(log[r].seen, a)
  BY DEF Storage, TypeSize, Reflected
<1>5. ASSUME Stores(log[i])
      PROVE  \E a \in Annotations :
               /\ Stores(a) /\ NamesClass(a) /\ ImplOf(a).key = log[i].key
               /\ PaddingParses(a)
               /\ log[i].output = Storage(log[r].seen, a)
  <2>1. PICK a \in Annotations :
          /\ a.rule = log[i].rule /\ NamesClass(a) /\ ImplOf(a).key = log[i].key
          /\ PaddingParses(a)
          /\ log[i].output = Storage(reflectionCache[log[i].key], a)
    BY <1>2, <1>5 DEF AccountedFor
  <2>2. log[i].output = Storage(log[r].seen, a) /\ Stores(a)
    BY <1>1, <1>4, <1>5, <2>1 DEF Stores
  <2> QED
    BY <2>1, <2>2
<1> QED
  BY <1>3, <1>5 DEF FitsDefinition

\* Storage and wrappers of a name are all of the one definition of the one
\* class that was reflected under it, whatever later units show and whichever
\* classes print alike.
THEOREM CodeHasOneSource == Spec => []CodeIsOfOneDefinition
<1>1. IInv => CodeIsOfOneDefinition
  <2> SUFFICES ASSUME IInv, NEW i \in DOMAIN log
               PROVE  \E r \in DOMAIN log :
                        /\ Reflects(log[r]) /\ log[r].key = log[i].key
                        /\ \A j \in DOMAIN log :
                             log[j].key = log[i].key =>
                               FitsDefinition(log[j], log[r].seen)
    BY DEF CodeIsOfOneDefinition
  <2>1. reflectionCache[log[i].key] # NotCached /\ log[i].key \in Keys
    BY EditFacts DEF AccountedFor
  <2>2. PICK r \in DOMAIN log : Reflects(log[r]) /\ log[r].key = log[i].key
    BY <2>1 DEF IInv, CacheExplainsLog
  <2>3. \A j \in DOMAIN log :
          log[j].key = log[i].key => FitsDefinition(log[j], log[r].seen)
    BY <2>2, EntryFits
  <2> QED
    BY <2>2, <2>3
<1> QED
  BY <1>1, Invariance, PTL

\* Adding a small integer to a size: what the width of a size makes of it.
LEMMA SumWraps ==
  ASSUME NEW M \in Nat \ {0}, NEW size \in 0 .. M - 1, NEW n \in Int,
         size + n < M, size - n < M
  PROVE  (size + n) % M < size <=> n < 0 /\ size + n >= 0
<1>1. CASE size + n >= 0
  <2>1. (size + n) % M = size + n
    BY <1>1
  <2> QED
    BY <1>1, <2>1
<1>2. CASE size + n < 0
  <2>1. size + n + M \in 0 .. M - 1
    BY <1>2
  <2>2. (size + n) % M = size + n + M
    BY <1>2, <2>1
  <2>3. size + n + M >= size
    BY <1>2
  <2> QED
    BY <1>2, <2>2, <2>3
<1> QED
  BY <1>1, <1>2

\* A storage falls short of its object exactly when the last padding shrinks
\* it, for every padding that the code accepts, negative ones included.
THEOREM ShortfallIsLastPadding == Spec => StorageShortfall
<1>1. ASSUME IInv, NEW a \in Annotations, NEW i \in DOMAIN log,
             InjectPimplStorage(a), log' # log,
             Reflects(log[i]), log[i].key = ImplOf(a).key
      PROVE  log'[Len(log')].output.size < log[i].seen.size
               <=> TakesAway(a, log[i].seen.size)
  <2> DEFINE info == reflectionCache[ImplOf(a).key]
             size == log[i].seen.size
             n == ExtraSizeBytes(a)
  <2>1. /\ NamesClass(a) /\ PaddingParses(a) /\ IsReflected(a)
        /\ ReplaceWith(a, Storage(info, a))
    BY <1>1 DEF InjectPimplStorage, CanInjectStorage, Die
  <2>2. info = Reflected(log[i].cls, log[i].seen)
    BY <1>1, EditFacts DEF AccountedFor
  <2>3. info \in ClassInfo /\ TypeOK
    BY <1>1, <2>1, ImplOfType DEF IsReflected, IInv, TypeOK
  <2>4. PICK e \in Edit : log' = Append(log, e) /\ e.output = Storage(info, a)
    BY <2>1, <2>3, StorageType, ReplaceWithEdit
  <2>5. log'[Len(log')].output.size = (info.size + n) % SizeModulus
    <3>1. Len(log') = Len(log) + 1 /\ log'[Len(log) + 1] = e
      BY <2>3, <2>4 DEF TypeOK
    <3> QED
      BY <2>4, <3>1 DEF Storage, TypeSize
  <2>6. info.size = size /\ size \in 0 .. SizeModulus - 1
    BY <1>1, <2>2, EditFacts DEF Reflected, Definition
  <2>7. n \in Int /\ size + n < SizeModulus /\ size - n < SizeModulus
    <3>1. CASE Given(a) = {}
      BY <2>1, <2>6, <3>1, ExtraSizeBytesType, BoundAssumption
    <3>2. CASE Given(a) # {}
      <4>1. PICK text \in DOMAIN IntOf : IntOf[text] # NoInt /\ n = IntOf[text]
        BY <2>1, <3>2, ExtraSizeBytesType
      <4>2. log[i].cls \in Classes /\ log[i].seen \in DefsOf[log[i].cls]
        BY <1>1, EditFacts
      <4> QED
        BY <2>1, <4>1, <4>2, ExtraSizeBytesType, WidthAssumption
    <3> QED
      BY <3>1, <3>2
  <2>8. (size + n) % SizeModulus < size <=> n < 0 /\ size + n >= 0
    <3> HIDE DEF n, size
    <3>1. SizeModulus \in Nat \ {0}
      BY BoundAssumption
    <3> QED
      BY <2>6, <2>7, <3>1, SumWraps
  <2>9. TakesAway(a, size) <=> n < 0 /\ size + n >= 0
    <3>1. CASE Given(a) = {}
      BY <2>1, <3>1, ExtraSizeBytesType DEF TakesAway
    <3>2. CASE Given(a) # {}
      <4>1. PICK k \in Given(a) : (\A j \in Given(a) : j <= k) /\ n = ValueAt(a, k)
        BY <2>1, <3>2, ExtraSizeBytesType
      <4>2. \A k1 \in Given(a) : (\A j \in Given(a) : j <= k1) => n = ValueAt(a, k1)
        BY <2>1, <3>2, ExtraSizeBytesType
      <4> HIDE DEF n, size
      <4> QED
        BY <4>1, <4>2 DEF TakesAway
    <3> QED
      BY <3>1, <3>2
  <2> QED
    BY <2>5, <2>6, <2>8, <2>9
<1>2. IInv /\ [Next]_vars =>
        [\A a \in Annotations, i \in DOMAIN log :
           /\ log' # log /\ Reflects(log[i])
           /\ InjectPimplStorage(a) /\ log[i].key = ImplOf(a).key
           => (log'[Len(log')].output.size < log[i].seen.size
                 <=> TakesAway(a, log[i].seen.size))]_vars
  BY <1>1
<1> QED
  BY <1>2, Invariance, PTL DEF Spec, StorageShortfall

-----------------------------------------------------------------------------
(* Refinement: the cache is the agreement, the wrappers are what is issued.*)

Agreed ==
  [k \in Keys |->
     IF reflectionCache[k] = NotCached
       THEN NotCached
       ELSE [methods |-> Wrapped(reflectionCache[k])]]

Issued ==
  {<<log[i].key, [methods |-> log[i].output.methods]>> :
     i \in {j \in DOMAIN log : Forwards(log[j])}}

\* An edit that is not a list of wrappers issues nothing new; one that is
\* issues its own list.
LEMMA IssuedGrows ==
  ASSUME TypeOK, NEW e \in Edit, log' = Append(log, e)
  PROVE  Issued' = Issued \cup (IF Forwards(e)
                                  THEN {<<e.key, [methods |-> e.output.methods]>>}
                                  ELSE {})
<1> DEFINE Piece(x) == <<x.key, [methods |-> x.output.methods]>>
           F == {j \in DOMAIN log : Forwards(log[j])}
           G == {j \in DOMAIN log' : Forwards(log'[j])}
           n == Len(log) + 1
<1>1. /\ \A j \in F : j \in G /\ log'[j] = log[j]
      /\ \A j \in G : j \in F \/ j = n
      /\ n \in G <=> Forwards(e)
      /\ log'[n] = e
  BY LogGrows
<1>2. /\ Issued = {Piece(log[j]) : j \in F}
      /\ Issued' = {Piece(log'[j]) : j \in G}
  BY DEF Issued
<1> HIDE DEF Piece, F, G, n
<1>3. {Piece(log'[j]) : j \in G} =
        {Piece(log[j]) : j \in F} \cup (IF Forwards(e) THEN {Piece(e)} ELSE {})
  <2>1. CASE Forwards(e)
    BY <1>1, <2>1
  <2>2. CASE ~Forwards(e)
    <3>1. G = F
      BY <1>1, <2>2
    <3> QED
      BY <1>1, <2>2, <3>1
  <2> QED
    BY <2>1, <2>2
<1> QED
  BY <1>2, <1>3 DEF Piece

\* A reflection is an agreement of the contract.
LEMMA ReflectAgrees ==
  ASSUME IInv, NEW a \in Annotations, ReflectForPimpl(a), CanReflect(a)
  PROVE  Contract!Agree(ImplOf(a).key)
<1> DEFINE c == ImplOf(a).cls
           k == ImplOf(a).key
           info == Reflected(c, visible[c])
<1>1. NamesClass(a) /\ c \in Classes /\ k \in Keys /\ TypeOK
  BY ImplOfType DEF CanReflect, IInv
<1>2. /\ reflectionCache' = [reflectionCache EXCEPT ![k] = info]
      /\ reflectionCache[k] = NotCached
      /\ ReplaceWith(a, Nothing)
      /\ a.rule = "reflect_for_pimpl"
  BY DEF ReflectForPimpl, CacheWith, CanReflect, Handles
<1>3. info \in ClassInfo /\ info # NotCached
  BY <1>1, DefinitionType, NotCachedAssumption
<1>4. Agreed[k] = NotCached
  BY <1>1, <1>2 DEF Agreed
<1>5. Agreed' = [Agreed EXCEPT ![k] = [methods |-> Wrapped(info)]]
  <2>1. reflectionCache'[k] = info
        /\ \A l \in Keys : l # k => reflectionCache'[l] = reflectionCache[l]
    BY <1>1, <1>2 DEF TypeOK
  <2> HIDE DEF k, info
  <2> QED
    BY <1>1, <1>3, <2>1 DEF Agreed
<1>6. Issued' = Issued
  <2>1. PICK e \in Edit : log' = Append(log, e) /\ e.rule = a.rule
    BY <1>1, <1>2, ReplaceWithEdit DEF Output
  <2> QED
    BY <1>1, <1>2, <2>1, IssuedGrows DEF Forwards
<1> QED
  BY <1>3, <1>4, <1>5, <1>6 DEF Contract!Agree, Agreed, Issued

\* An injection of wrappers issues the agreed list.
LEMMA MethodCallsIssue ==
  ASSUME IInv, NEW a \in Annotations, InjectPimplMethodCalls(a),
         CanInjectMethodCalls(a)
  PROVE  Contract!Issue(ImplOf(a).key)
<1> DEFINE k == ImplOf(a).key
           info == reflectionCache[k]
<1>1. NamesClass(a) /\ k \in Keys /\ TypeOK /\ info # NotCached
  BY ImplOfType DEF CanInjectMethodCalls, IsReflected, IInv
<1>2. info \in ClassInfo
  BY <1>1 DEF TypeOK
<1>3. /\ ReplaceWith(a, MethodCalls(info, a))
      /\ UNCHANGED reflectionCache
      /\ a.rule = "inject_pimpl_method_calls"
  BY DEF InjectPimplMethodCalls, Handles
<1>4. PICK e \in Edit : /\ log' = Append(log, e) /\ e.rule = a.rule
                        /\ e.key = k /\ e.output = MethodCalls(info, a)
  BY <1>1, <1>2, <1>3, MethodCallsType, ReplaceWithEdit
<1>5. Agreed[k] = [methods |-> Wrapped(info)]
  BY <1>1 DEF Agreed
<1>6. Agreed[k] # NotCached
  <2>1. [methods |-> Wrapped(info)] \in [methods : SUBSET Methods]
    BY <1>2, ClassInfoType DEF Wrapped
  <2> QED
    BY <1>5, <2>1, NotCachedAssumption
<1>7. Issued' = Issued \cup {<<k, Agreed[k]>>}
  <2>1. Forwards(e) /\ e.output.methods = Wrapped(info)
    BY <1>3, <1>4 DEF Forwards, MethodCalls
  <2> QED
    BY <1>1, <1>4, <1>5, <2>1, IssuedGrows
<1>8. Agreed' = Agreed
  BY <1>3 DEF Agreed
<1> QED
  BY <1>6, <1>7, <1>8 DEF Contract!Issue, Agreed, Issued

\* Every step is a step of the contract or leaves its state alone.
LEMMA ContractStep ==
  ASSUME IInv, [Next]_vars
  PROVE  [Contract!Next]_(Contract!vars)
<1>1. ASSUME UNCHANGED <<reflectionCache, log>> PROVE UNCHANGED Contract!vars
  BY <1>1 DEF Contract!vars
<1>2. ASSUME NEW a \in Annotations, NamesClass(a) PROVE ImplOf(a).key \in Keys
  BY <1>2, ImplOfType
<1>3. ASSUME NEW a \in Annotations, ReflectForPimpl(a)
      PROVE  [Contract!Next]_(Contract!vars)
  <2>1. CASE CanReflect(a)
    BY <1>2, <1>3, <2>1, ReflectAgrees DEF Contract!Next, CanReflect
  <2>2. CASE Die(a)
    BY <1>1, <2>2 DEF Die
  <2> QED
    BY <1>3, <2>1, <2>2 DEF ReflectForPimpl
<1>4. ASSUME NEW a \in Annotations, InjectPimplStorage(a)
      PROVE  [Contract!Next]_(Contract!vars)
  <2>1. CASE CanInjectStorage(a)
    <3>1. /\ NamesClass(a) /\ IsReflected(a) /\ PaddingParses(a) /\ TypeOK
          /\ ReplaceWith(a, Storage(reflectionCache[ImplOf(a).key], a))
          /\ UNCHANGED reflectionCache
          /\ a.rule = "inject_pimpl_storage"
      BY <1>4, <2>1 DEF CanInjectStorage, InjectPimplStorage, Handles, IInv
    <3>2. reflectionCache[ImplOf(a).key] \in ClassInfo
      BY <1>2, <3>1 DEF IsReflected, TypeOK
    <3>3. PICK e \in Edit : log' = Append(log, e) /\ e.rule = a.rule
      BY <3>1, <3>2, StorageType, ReplaceWithEdit
    <3>4. Issued' = Issued /\ Agreed' = Agreed
      BY <3>1, <3>3, IssuedGrows DEF Forwards, Agreed
    <3> QED
      BY <3>4 DEF Contract!vars, Agreed, Issued
  <2>2. CASE Die(a)
    BY <1>1, <2>2 DEF Die
  <2> QED
    BY <1>4, <2>1, <2>2 DEF InjectPimplStorage
<1>5. ASSUME NEW a \in Annotations, InjectPimplMethodCalls(a)
      PROVE  [Contract!Next]_(Contract!vars)
  <2>1. CASE CanInjectMethodCalls(a)
    BY <1>2, <1>5, <2>1, MethodCallsIssue DEF Contract!Next, CanInjectMethodCalls
  <2>2. CASE Die(a)
    BY <1>1, <2>2 DEF Die
  <2> QED
    BY <1>5, <2>1, <2>2 DEF InjectPimplMethodCalls
<1>6. CASE NextUnit \/ Finish \/ UNCHANGED vars
  BY <1>1, <1>6 DEF NextUnit, Finish, vars
<1> QED
  BY <1>3, <1>4, <1>5, <1>6 DEF Next

\* The handlers implement the contract: what is wrapped for a name is agreed
\* on once, and all the generated code lists exactly that.
THEOREM Implements == Spec => ImplementsContract
<1>1. Init => Contract!Init
  BY DEF Init, Contract!Init
<1>2. IInv /\ [Next]_vars => [Contract!Next]_(Contract!vars)
  BY ContractStep
<1> QED
  BY <1>1, <1>2, Invariance, PTL DEF Spec, ImplementsContract, Contract!Spec

=============================================================================
