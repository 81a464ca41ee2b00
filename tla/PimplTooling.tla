---------------------------- MODULE PimplTooling ----------------------------
(***************************************************************************)
(* The annotation handlers of class pimplTooling (src/src/Tooling.cc) and  *)
(* the reflection cache they share.                                        *)
(*                                                                         *)
(* flextool parses translation units one after another.  For every        *)
(* annotated class template it meets it runs one of three handlers:        *)
(*   reflect_for_pimpl         remembers the methods, size and alignment   *)
(*                             of an implementation class,                 *)
(*   inject_pimpl_storage      replaces the template by a FastPimpl field, *)
(*   inject_pimpl_method_calls replaces it by wrappers of the methods.     *)
(* A handler runs to its end before the next one starts, so each is one    *)
(* action.  A failed CHECK (and, when DcheckOn, a failed DCHECK) ends the  *)
(* process.                                                                *)
(*                                                                         *)
(* A list of methods is the set of its elements: a method carries its      *)
(* position in the class, and the handlers only ever filter the list, so   *)
(* the set determines the vector.                                          *)
(***************************************************************************)
EXTENDS Integers, Sequences, FiniteSetsExt

CONSTANTS
  Classes,      \* implementation classes (clang::CXXRecordDecl)
  Keys,         \* type names as clang prints them, the keys of the cache
  DefsOf,       \* class |-> the definitions a translation unit may show of it
  Methods,      \* reflected methods (reflection::MethodInfo)
  Annotations,  \* annotated class templates the translation units contain
  IntOf,        \* base::StringToInt: text |-> integer, or NoInt
  SizeModulus,  \* 2^64: typeSize is a uint64_t
  DcheckOn,     \* TRUE in a debug build
  NoClass,      \* "class" of a type that is not a CXXRecordDecl
  NoInterface,  \* the template has no parameter named interface
  NoInt,        \* the text is not an int
  NotCached,    \* the cache has no entry
  MaxUnits,     \* bound: translation units of one run of the tool
  MaxEdits      \* bound: source transformations of one run of the tool

-----------------------------------------------------------------------------
(* Data.                                                                   *)

Traits == {"implicit", "operator", "ctor", "dtor", "template"}

\* The texts of __attribute__((annotate(...))), up to what the code compares:
\* "skip_pimpl" stands for every text that starts with it.
MethodInfo ==
  [ position : Nat,
    traits : SUBSET Traits,
    annotations : Seq({"skip_pimpl", "other"}),
    hasDecl : BOOLEAN ]

\* What a translation unit shows of a class; an incomplete one has no methods.
Definition ==
  [ methods : SUBSET Methods,
    size : 0 .. SizeModulus - 1,
    alignment : Nat,
    nonVirtualAlignment : Nat ]

Type == [ cls : Classes \cup {NoClass}, key : Keys ]

\* A template parameter; wellFormed: a typename, not a pack, with a default.
Param == [ name : STRING, wellFormed : BOOLEAN, type : Type ]

Arg == [ name : STRING, value : DOMAIN IntOf ]

Rules ==
  {"reflect_for_pimpl", "inject_pimpl_storage", "inject_pimpl_method_calls"}

Annotation ==
  [ rule : Rules,
    isTemplate : BOOLEAN,
    params : SUBSET Param,
    args : Seq(Arg) ]

SentinelsDiffer ==
  /\ NoClass \notin Classes
  /\ NoInterface \notin Keys
  /\ NoInt \notin Int

ASSUME SentinelAssumption == SentinelsDiffer

BoundsHold ==
  /\ SizeModulus \in Nat \ {0}
  /\ MaxUnits \in Nat \ {0}
  /\ MaxEdits \in Nat
  /\ DcheckOn \in BOOLEAN

ASSUME BoundAssumption == BoundsHold

DataTyped ==
  /\ Methods \subseteq MethodInfo
  /\ \A m, n \in Methods : m.position = n.position => m = n
  /\ DefsOf \in [Classes -> SUBSET Definition]
  /\ Annotations \subseteq Annotation
  /\ IntOf \in [DOMAIN IntOf -> Int \cup {NoInt}]

ASSUME DataAssumption == DataTyped

\* The sum of a size and an int fits a uint64_t, as widths go: a size is less
\* than 2^63, an int has 32 bits.
WidthsHold ==
  \A text \in DOMAIN IntOf : \A c \in Classes : \A d \in DefsOf[c] :
    IntOf[text] # NoInt =>
      d.size + IntOf[text] < SizeModulus /\ d.size - IntOf[text] < SizeModulus

ASSUME WidthAssumption == WidthsHold

\* C++ forbids two template parameters of one name.
ParamNamesDiffer ==
  \A a \in Annotations : \A p, q \in a.params : p.name = q.name => p = q

ASSUME ParamsAreDistinct == ParamNamesDiffer

-----------------------------------------------------------------------------
(* getReflectForPimplSettings.                                             *)

ParsesSettings(a) ==
  /\ a.isTemplate
  /\ a.params # {}
  /\ \A p \in a.params : p.wellFormed /\ p.name \in {"impl", "interface"}

NamesImpl(a) == \E p \in a.params : p.name = "impl"

\* implArgQualType and implParameterQualType
ImplOf(a) == (CHOOSE p \in a.params : p.name = "impl").type

\* Mutant of InterfaceOf: the class instead of its printed name.
InterfaceClassOf(a) ==
  IF \E p \in a.params : p.name = "interface"
    THEN (CHOOSE p \in a.params : p.name = "interface").type.cls
    ELSE NoInterface

\* interfaceParameterQualType, printed before every method name
InterfaceOf(a) ==
  IF \E p \in a.params : p.name = "interface"
    THEN (CHOOSE p \in a.params : p.name = "interface").type.key
    ELSE NoInterface

NamesClass(a) ==
  /\ ParsesSettings(a)
  /\ NamesImpl(a)
  /\ ImplOf(a).cls \in Classes

-----------------------------------------------------------------------------
(* Arguments of an annotation: positions of those that are not empty.      *)

Given(a) ==
  {i \in DOMAIN a.args : a.args[i].name # "" \/ a.args[i].value # ""}

ValueAt(a, i) == IntOf[a.args[i].value]

\* DCHECK(extra_size_bytes == 0) sees the value of the argument before.
PaddingParses(a) ==
  /\ \A i \in Given(a) : a.args[i].name = "sizePadding" /\ ValueAt(a, i) # NoInt
  /\ DcheckOn => \A i, j \in Given(a) : i < j => ValueAt(a, i) = 0

\* Mutant of ExtraSizeBytes: the first padding counts, not the last.
ExtraSizeBytesFirst(a) ==
  IF Given(a) = {} THEN 0 ELSE ValueAt(a, Min(Given(a)))

ExtraSizeBytes(a) ==
  IF Given(a) = {} THEN 0 ELSE ValueAt(a, Max(Given(a)))

BodyFlagParses(a) ==
  /\ \A i \in Given(a) : a.args[i].value = "without_method_body"
  /\ DcheckOn => \A i, j \in Given(a) : i = j

WithoutMethodBody(a) == Given(a) # {}

-----------------------------------------------------------------------------
(* Reflection and code generation.                                         *)

\* getAttr<clang::AnnotateAttr>() looks at the first annotation only.
IsSkipped(m) ==
  /\ m.annotations # <<>>
  /\ m.annotations[1] = "skip_pimpl"

\* Mutant of Reflected: cleaned_methods is computed but not assigned.
ReflectedUncleaned(c, d) ==
  [ cls |-> c,
    methods |-> d.methods,
    size |-> d.size,
    nonVirtualAlignment |-> d.nonVirtualAlignment ]

\* The ClassInfo that reflectForPimpl stores for definition d of class c.
Reflected(c, d) ==
  [ cls |-> c,
    methods |-> {m \in d.methods : m.hasDecl /\ ~IsSkipped(m)},
    size |-> d.size,
    nonVirtualAlignment |-> d.nonVirtualAlignment ]

IsPimplMethod(m) == m.traits \cap {"implicit", "operator", "ctor", "dtor"} = {}

\* Mutant of Wrapped: every reflected method gets a wrapper.
WrappedAll(info) == info.methods

\* The methods of ClassInfo info that get a wrapper.
Wrapped(info) == {m \in info.methods : IsPimplMethod(m)}

\* Mutant of TypeSize: sizePadding replaces the size of the record.
TypeSizeOverridden(info, a) ==
  (IF Given(a) = {} THEN info.size ELSE ExtraSizeBytes(a)) % SizeModulus

\* typeSize: an int is added to the size of the record, as a uint64_t.
TypeSize(info, a) == (info.size + ExtraSizeBytes(a)) % SizeModulus

\* The field basis::FastPimpl<impl, size, alignment>.
Storage(info, a) ==
  [ size |-> TypeSize(info, a), alignment |-> info.nonVirtualAlignment ]

\* Mutant of MethodCalls: only definitions leave out constructors and such.
MethodCallsUnlike(info, a) ==
  [ interface |-> InterfaceOf(a),
    hasBody |-> ~WithoutMethodBody(a),
    methods |-> IF WithoutMethodBody(a) THEN info.methods ELSE Wrapped(info) ]

\* The wrappers; hasBody distinguishes a definition from a declaration.
MethodCalls(info, a) ==
  [ interface |-> InterfaceOf(a),
    hasBody |-> ~WithoutMethodBody(a),
    methods |-> Wrapped(info) ]

\* The annotation is replaced by the empty string.
Nothing == [ printed |-> "" ]

-----------------------------------------------------------------------------
(* State.                                                                  *)

VARIABLES
  status,           \* of the process
  unit,             \* number of the translation unit being transformed
  visible,          \* class |-> the definition this unit shows
  reflectionCache,  \* key |-> ClassInfo or NotCached; outlives a unit
  log               \* history: the transformations done, oldest first

vars == <<status, unit, visible, reflectionCache, log>>

ClassInfo ==
  {Reflected(c, d) : c \in Classes, d \in UNION {DefsOf[k] : k \in Classes}}

MissIsNoInfo ==
  /\ NotCached \notin ClassInfo
  /\ NotCached \notin [methods : SUBSET Methods]

ASSUME NotCachedAssumption == MissIsNoInfo

Output ==
  {Nothing}
    \cup [size : 0 .. SizeModulus - 1, alignment : Nat]
    \cup [ interface : Keys \cup {NoInterface},
           hasBody : BOOLEAN,
           methods : SUBSET Methods ]

\* One transformation: the rule that ran, where, for which class, what the
\* unit showed of that class, and what the annotation was replaced by.
Edit ==
  [ unit : 1 .. MaxUnits,
    rule : Rules,
    key : Keys,
    cls : Classes,
    seen : UNION {DefsOf[c] : c \in Classes},
    output : Output ]

View == {f \in [Classes -> UNION {DefsOf[c] : c \in Classes}] :
            \A c \in Classes : f[c] \in DefsOf[c]}

TypeOK ==
  /\ status \in {"running", "finished", "aborted", "crashed"}
  /\ unit \in 1 .. MaxUnits
  /\ visible \in View
  /\ reflectionCache \in [Keys -> ClassInfo \cup {NotCached}]
  /\ log \in Seq(Edit)

Init ==
  /\ status = "running"
  /\ unit = 1
  /\ visible \in View
  /\ reflectionCache = [k \in Keys |-> NotCached]
  /\ log = <<>>

-----------------------------------------------------------------------------
(* The handlers.                                                           *)

Handles(rule, a) ==
  /\ status = "running"
  /\ Len(log) < MaxEdits
  /\ a.rule = rule

\* A failed CHECK aborts.  With no parameter named impl nothing is checked:
\* the handler dereferences a null QualType.
Death(a) ==
  IF ParsesSettings(a) /\ ~NamesImpl(a) THEN "crashed" ELSE "aborted"

Die(a) ==
  /\ status' = Death(a)
  /\ UNCHANGED <<unit, visible, reflectionCache, log>>

Replaced(a, output) ==
  Append(log,
    [ unit |-> unit, rule |-> a.rule, key |-> ImplOf(a).key,
      cls |-> ImplOf(a).cls, seen |-> visible[ImplOf(a).cls],
      output |-> output ])

\* clang_utils::replaceWith
ReplaceWith(a, output) == log' = Replaced(a, output)

\* Mutant of CanReflect: a second reflection overwrites the first.
CanReflectAgain(a) ==
  /\ NamesClass(a)
  /\ visible[ImplOf(a).cls].methods # {}

CanReflect(a) ==
  /\ NamesClass(a)
  /\ visible[ImplOf(a).cls].methods # {}
  /\ reflectionCache[ImplOf(a).key] = NotCached

\* reflectionCache_.emplace
CacheWith(a) ==
  [reflectionCache EXCEPT ![ImplOf(a).key] =
    Reflected(ImplOf(a).cls, visible[ImplOf(a).cls])]

ReflectForPimpl(a) ==
  /\ Handles("reflect_for_pimpl", a)
  /\ \/ /\ CanReflect(a)
        /\ reflectionCache' = CacheWith(a)
        /\ ReplaceWith(a, Nothing)
        /\ UNCHANGED <<status, unit, visible>>
     \/ ~CanReflect(a) /\ Die(a)

\* reflectFromCache succeeds and the cached class kept some method.
IsReflected(a) ==
  /\ reflectionCache[ImplOf(a).key] # NotCached
  /\ reflectionCache[ImplOf(a).key].methods # {}

CanInjectStorage(a) == NamesClass(a) /\ IsReflected(a) /\ PaddingParses(a)

\* Mutant of InjectPimplStorage: reflectFromCache moves the entry out of the
\* cache instead of sharing it.
InjectPimplStorageMoves(a) ==
  /\ Handles("inject_pimpl_storage", a)
  /\ \/ /\ CanInjectStorage(a)
        /\ ReplaceWith(a, Storage(reflectionCache[ImplOf(a).key], a))
        /\ reflectionCache' = [reflectionCache EXCEPT ![ImplOf(a).key] = NotCached]
        /\ UNCHANGED <<status, unit, visible>>
     \/ ~CanInjectStorage(a) /\ Die(a)

\* Mutant of InjectPimplStorage: the size is that of the class as the unit at
\* hand shows it, not that of the reflection.
InjectPimplStorageFresh(a) ==
  /\ Handles("inject_pimpl_storage", a)
  /\ \/ /\ CanInjectStorage(a)
        /\ LET shown == visible[ImplOf(a).cls]
           IN ReplaceWith(a, Storage(IF shown.methods # {}
                                       THEN shown
                                       ELSE reflectionCache[ImplOf(a).key], a))
        /\ UNCHANGED <<status, unit, visible, reflectionCache>>
     \/ ~CanInjectStorage(a) /\ Die(a)

InjectPimplStorage(a) ==
  /\ Handles("inject_pimpl_storage", a)
  /\ \/ /\ CanInjectStorage(a)
        /\ ReplaceWith(a, Storage(reflectionCache[ImplOf(a).key], a))
        /\ UNCHANGED <<status, unit, visible, reflectionCache>>
     \/ ~CanInjectStorage(a) /\ Die(a)

CanInjectMethodCalls(a) ==
  NamesClass(a) /\ IsReflected(a) /\ BodyFlagParses(a)

\* Mutant of InjectPimplMethodCalls: a class that the unit shows is reflected
\* anew, as in the unused reflectOrGetFromCache.
InjectPimplMethodCallsFresh(a) ==
  /\ Handles("inject_pimpl_method_calls", a)
  /\ \/ /\ CanInjectMethodCalls(a)
        /\ LET c == ImplOf(a).cls
               info == IF visible[c].methods # {}
                         THEN Reflected(c, visible[c])
                         ELSE reflectionCache[ImplOf(a).key]
           IN ReplaceWith(a, MethodCalls(info, a))
        /\ UNCHANGED <<status, unit, visible, reflectionCache>>
     \/ ~CanInjectMethodCalls(a) /\ Die(a)

InjectPimplMethodCalls(a) ==
  /\ Handles("inject_pimpl_method_calls", a)
  /\ \/ /\ CanInjectMethodCalls(a)
        /\ ReplaceWith(a, MethodCalls(reflectionCache[ImplOf(a).key], a))
        /\ UNCHANGED <<status, unit, visible, reflectionCache>>
     \/ ~CanInjectMethodCalls(a) /\ Die(a)

\* flextool goes on to the next file; the cache stays.
NextUnit ==
  /\ status = "running"
  /\ unit < MaxUnits
  /\ unit' = unit + 1
  /\ visible' \in View
  /\ UNCHANGED <<status, reflectionCache, log>>

\* flextool is done with its input files.
Finish ==
  /\ status = "running"
  /\ status' = "finished"
  /\ UNCHANGED <<unit, visible, reflectionCache, log>>

Next ==
  \/ \E a \in Annotations :
       \/ ReflectForPimpl(a)
       \/ InjectPimplStorage(a)
       \/ InjectPimplMethodCalls(a)
  \/ NextUnit
  \/ Finish

Spec == Init /\ [][Next]_vars

-----------------------------------------------------------------------------
(* Properties.                                                             *)

Reflects(e) == e.rule = "reflect_for_pimpl"
Stores(e) == e.rule = "inject_pimpl_storage"
Forwards(e) == e.rule = "inject_pimpl_method_calls"

\* The methods of definition d that users of the interface class may call:
\* ordinary member functions that are declared and not marked skip_pimpl.
Callable(d) ==
  {m \in d.methods :
     /\ m.hasDecl
     /\ m.annotations # <<>> => Head(m.annotations) # "skip_pimpl"
     /\ m.traits \subseteq {"template"}}

\* "You must reflect the PImpl implementation before using it": whatever the
\* order of the annotations and of the units, every injection comes after
\* the one reflection of its key (reflectFromCache and the CHECK
\* "already in cache" of reflectForPimpl).
ReflectedOnceBeforeUse ==
  /\ \A i, j \in DOMAIN log :
       Reflects(log[i]) /\ Reflects(log[j]) /\ log[i].key = log[j].key => i = j
  /\ \A i \in DOMAIN log :
       ~Reflects(log[i]) =>
         \E j \in 1 .. i - 1 : Reflects(log[j]) /\ log[j].key = log[i].key

\* The wrappers are those of the definition the reflecting unit showed, all
\* of them and no other, even when a later unit shows another definition or
\* none (the list is filtered at two places, in reflectForPimpl and in
\* injectPimplMethodCalls).
WrappersMirrorReflection ==
  \A i, j \in DOMAIN log :
    Reflects(log[i]) /\ Forwards(log[j]) /\ log[i].key = log[j].key =>
      log[j].output.methods = Callable(log[i].seen)

\* The declarations injected into a header and the definitions injected into
\* a source file, in whatever unit, list the same methods of a key.
DeclarationsMatchDefinitions ==
  \A i, j \in DOMAIN log :
    Forwards(log[i]) /\ Forwards(log[j]) /\ log[i].key = log[j].key =>
      log[i].output.methods = log[j].output.methods

\* The storage injected for a key holds the object that was reflected:
\* "sizePadding adds extra bytes" (typeSize in injectPimplStorage).
StorageHoldsImpl ==
  \A i, j \in DOMAIN log :
    Reflects(log[i]) /\ Stores(log[j]) /\ log[i].key = log[j].key =>
      log[j].output.size >= log[i].seen.size

\* "You can annotate methods with skip_pimpl" to keep them out of the
\* interface: no wrapper calls a method that carries the annotation (the
\* loop over methods in reflectForPimpl).
SkippedStayHidden ==
  \A i \in DOMAIN log :
    Forwards(log[i]) =>
      \A m \in log[i].output.methods :
        \A n \in DOMAIN m.annotations : m.annotations[n] # "skip_pimpl"

\* The alignment printed is the one the comment names, alignof(Foo::FooImpl).
StorageIsAlignedAsImpl ==
  \A i, j \in DOMAIN log :
    Reflects(log[i]) /\ Stores(log[j]) /\ log[i].key = log[j].key =>
      log[j].output.alignment = log[i].seen.alignment

\* Edit e was generated from definition d: it lists the callable methods of d,
\* and it is d's storage with the padding of an annotation for its key.
FitsDefinition(e, d) ==
  /\ Forwards(e) => e.output.methods = Callable(d)
  /\ Stores(e) =>
       \E a \in Annotations :
         /\ Stores(a) /\ NamesClass(a) /\ ImplOf(a).key = e.key
         /\ PaddingParses(a)
         /\ e.output = Storage(d, a)

\* All the code ever generated for a name, storage and wrappers alike, is of
\* one definition of one class, although the units in between show the class
\* in other versions or not at all, and although two classes may print alike:
\* the size of one version never meets the methods of another
\* (reflectionCache_ is keyed by the printed name and outlives a unit).
CodeIsOfOneDefinition ==
  \A i \in DOMAIN log :
    \E r \in DOMAIN log :
      /\ Reflects(log[r]) /\ log[r].key = log[i].key
      /\ \A j \in DOMAIN log :
           log[j].key = log[i].key => FitsDefinition(log[j], log[r].seen)

\* The last padding that annotation a gives takes away one byte or more of an
\* object of that size, but not more than all.
TakesAway(a, size) ==
  \E i \in Given(a) :
    /\ \A j \in Given(a) : j <= i
    /\ ValueAt(a, i) < 0 /\ size + ValueAt(a, i) >= 0

\* A storage is too small for the object that was reflected, in whatever unit,
\* exactly if the last of the paddings given takes bytes away: an earlier
\* padding neither helps nor hurts, and one that takes away more than there is
\* wraps around to a storage that is too large (an int is added to a uint64_t,
\* and a release build accepts several paddings).
StorageShortfall ==
  [][\A a \in Annotations, i \in DOMAIN log :
       /\ log' # log /\ Reflects(log[i])
       /\ InjectPimplStorage(a) /\ log[i].key = ImplOf(a).key
       => (log'[Len(log')].output.size < log[i].seen.size
             <=> TakesAway(a, log[i].seen.size))]_vars

\* Edit e is what the entry that the cache has for its key accounts for.
AccountedFor(e, cache) ==
  /\ \E a \in Annotations :
       /\ a.rule = e.rule
       /\ NamesClass(a)
       /\ ImplOf(a).key = e.key /\ ImplOf(a).cls = e.cls
       /\ Stores(e) =>
            PaddingParses(a) /\ e.output = Storage(cache[e.key], a)
  /\ e.seen \in DefsOf[e.cls]
  /\ cache[e.key] # NotCached
  /\ Reflects(e) =>
       /\ e.seen.methods # {}
       /\ cache[e.key] = Reflected(e.cls, e.seen)
  /\ Forwards(e) => e.output.methods = Wrapped(cache[e.key])

\* The cache and the generated code never drift apart: every transformation
\* ever done still agrees with the entry cached for its key now, and every
\* entry was put there by a reflection that was done (reflectionCache_).
CacheExplainsLog ==
  /\ \A i \in DOMAIN log : AccountedFor(log[i], reflectionCache)
  /\ \A k \in Keys :
       reflectionCache[k] # NotCached =>
         \E i \in DOMAIN log : Reflects(log[i]) /\ log[i].key = k

\* A cached reflection is never replaced or dropped while the tool runs.
CacheIsFrozen ==
  [][\A k \in Keys :
       reflectionCache[k] # NotCached =>
         reflectionCache'[k] = reflectionCache[k]]_vars

\* The handlers implement the contract of PimplContract.
Contract ==
  INSTANCE PimplContract WITH
    Names <- Keys,
    Lists <- {[methods |-> Wrapped(info)] : info \in ClassInfo},
    Undecided <- NotCached,
    agreed <- [k \in Keys |->
                 IF reflectionCache[k] = NotCached
                   THEN NotCached
                   ELSE [methods |-> Wrapped(reflectionCache[k])]],
    issued <- {<<log[i].key, [methods |-> log[i].output.methods]>> :
                 i \in {j \in DOMAIN log : Forwards(log[j])}}

ImplementsContract == Contract!Spec

=============================================================================
