# A TLA+ model of flex_pimpl_plugin

flex_pimpl_plugin is a plugin of the C++ source-to-source tool flextool. It
reads annotated class templates and replaces them by the code of a "fast
pimpl": a field that stores the implementation object in place, declarations
of wrapper methods in the header and their definitions in the source file.
This directory models the plugin in TLA+, checks the models with TLC on small
instances, and proves their main properties with TLAPS.

## Inventory

| Part | Source | State | Operations | Talks to |
| --- | --- | --- | --- | --- |
| Annotation handlers | `src/src/Tooling.cc` | `reflectionCache_` (printed type name -> `ClassInfo`) | `reflectForPimpl`, `injectPimplStorage`, `injectPimplMethodCalls`, with `getReflectForPimplSettings` and `reflectFromCache` | called by flextool through `sourceTransformRules`; rewrite source through `clang_utils::replaceWith` |
| Constructor of `pimplTooling` | `src/src/Tooling.cc:181` | `settings_`, `outDir_`, `dir_exe_`, `sourceTransformRules_` | load settings through Cling, find or create the output directory | Cling interpreter, file system |
| Event handler | `src/src/EventHandler.cc` | `tooling_`, `clingInterpreter_`, sequence checker | `Init`, `StringCommand`, `RegisterClingInterpreter`, `RegisterAnnotationMethods` | creates the tooling, binds the rules to it with raw pointers |
| Plugin entry | `src/src/plugin_main.cc` | `eventHandler_`, sequence checker | `title`, `author`, `description`, `load`, `unload`, `connect_to_dispatcher`, `disconnect_dispatcher` | the host and its `entt::dispatcher` |
| Code generator helpers | `src/src/CodeGenerator.cc` | none | `isPimplMethod`, `expandTemplateNames`, `methodParamDecls` | called by `injectPimplMethodCalls` |
| Generating build | `src/tests/CMakeLists.txt:47-163` | generated files and their timestamps | remove, run flextool, rerun on change | flextool |
| Tests, packaging, licences | `src/tests`, `src/cmake`, `src/conanfile.py`, ... | none at run time | | |

What is hard here, and what makes each part correct:

- *Order and repetition of annotations.* flextool runs a handler for each
  annotation it meets, file after file. An injection needs an earlier
  reflection; a class must be reflected once; declarations and definitions
  are produced at different times and must list the same methods.
- *A cache that outlives what it describes.* It is keyed by a printed name and
  survives a translation unit, while the next unit may show the class
  differently or not at all.
- *Arithmetic and parsing of arguments.* A user-supplied `int` is added to a
  record size as `uint64_t`; DCHECKs that reject repeated arguments are gone in
  a release build.
- *Lifetime.* Rules and listeners hold raw pointers; a second registration
  destroys the tooling the rules point to before it rebinds them one by one; the
  destructor of the plugin disconnects nothing.
- *Threads.* Every object has a sequence checker that binds on first use and
  stops a debug build when another sequence comes.
- *Replacement.* A second registration brings a tooling with an empty cache, in
  the middle of the translation units of one run.
- *Set-up and build.* The output directory is tested, created and resolved in
  three steps, by several processes; the build removes its outputs before it
  regenerates them, while sources are edited and builds are interrupted.
- *Printing.* Separators depend on a counter compared with the size of a list.

`PROJECT.json` lists these hazards at their lines with the properties that
would catch them.

## Modules

| Module | What it is |
| --- | --- |
| `PimplTooling` | the three handlers and the cache they share |
| `PimplContract` | abstract specification: a list of methods is agreed on once per class, and all code issued for the class lists it |
| `PimplToolingProofs`, `PimplContractProofs` | theorems about them |
| `MCPimplTooling` | a small world of classes and annotations for TLC |
| `PluginLifecycle` | plugin object, event handler, ownership of the tooling, bindings of the rules, sequence checkers |
| `PluginLifecycleProofs` | theorems about it |
| `MCPluginLifecycle` | a small instance for TLC |
| `PimplSystem` | composition: a `PluginLifecycle` with one `PimplTooling` per registration |
| `PimplSystemProofs`, `MCPimplSystem` | the refinements and what follows; a small instance |
| `ToolingSetup` | the constructor of `pimplTooling` system call by system call, several processes at once |
| `ToolingSetupProofs`, `MCToolingSetup` | theorems about it; a small instance |
| `CodeGenerator` | the loops that print the wrappers, and a reader of the text |
| `CodeReaderProofs` | lemmas: the reader gets out of the text of a wrapper what was put into it |
| `CodeGeneratorProofs`, `MCCodeGenerator` | theorems about the loops; a small instance |
| `GenerateBuild` | the custom command of `src/tests/CMakeLists.txt` and the build tool that reruns it |
| `GenerateBuildProofs`, `MCGenerateBuild` | theorems about it; a small instance |

### PimplTooling

| Model | Code |
| --- | --- |
| `reflectionCache` | `pimplTooling::reflectionCache_`; `NotCached` for an absent key |
| `visible`, `unit` | what the AST of the current translation unit shows of each class; an incomplete class has no methods |
| `log` | history: every `replaceWith` done, with the class, what the unit showed and what was printed |
| `status` | `aborted` after a failed CHECK or DCHECK, `crashed` after the null `QualType` of a template without parameter `impl` |
| `ReflectForPimpl`, `InjectPimplStorage`, `InjectPimplMethodCalls` | the handlers; `CanReflect`, `CanInjectStorage`, `CanInjectMethodCalls` are the conjunction of their CHECKs |
| `ParsesSettings`, `NamesImpl`, `ImplOf`, `InterfaceOf`, `NamesClass` | `getReflectForPimplSettings` and the check for a `CXXRecordDecl` |
| `PaddingParses`, `ExtraSizeBytes`, `BodyFlagParses`, `WithoutMethodBody` | the loops over the annotation's arguments |
| `Reflected`, `IsSkipped`, `IsPimplMethod`, `Wrapped` | the two filters on methods |
| `TypeSize`, `Storage`, `MethodCalls` | what is printed |
| `NextUnit`, `Finish` | flextool, outside the repository |

A handler runs to its end before another starts (flextool calls them one after
another from its AST matcher), so each handler is one action. A handler that
fails a check ends the process before it changes anything that outlives it, so the order of checks
within a handler is visible only in how the process ends: a missing parameter `impl` is a null dereference, all the
other failures are aborts.

A list of methods is a set: methods carry their position and the code only
filters the list. The text of a wrapper is abstracted to the method it calls,
the qualifier printed before its name and whether it has a body. An annotation
on a method is `skip_pimpl` or `other`; the former stands for every text with
that prefix, as `starts_with` is what the code uses. `typeSize` is computed
modulo `SizeModulus`, which stands for 2^64. A `sizePadding` argument is a
text that `IntOf` maps to an integer or to `NoInt`, as `base::StringToInt`
does; a repeated one is an abort in a debug build only when the value parsed
before is not zero, as the DCHECK compares with zero. `WidthsHold` says that the
sum of a size and an `int` fits: a size is less than 2^63 and an `int` has 32
bits. A negative padding may still take the sum below zero, where it wraps.

### PluginLifecycle

| Model | Code |
| --- | --- |
| `plugin`, `attached`, `connected` | the `Flexpimpl` object; whether the host holds it connected; the listeners bound to `&eventHandler_` (a set: entt connects a listener at most once) |
| `clingInterpreter` | `clingInterpreter_`: `unset` until the first assignment, since no constructor initialises it; reading it then yields null or garbage (`InterpreterRead`) |
| `tooling`, `created` | `tooling_` and the toolings made so far; the others are freed |
| `registration` | the `RegisterAnnotationMethods` at work, if any: its sequence, its pipeline and how many rules it has bound |
| `pipeline`, `rules` | the pipeline registered last, and the rules of every pipeline with the tooling they are bound to |
| `boundTo`, `callers` | the sequence each checker is bound to; history of the sequences that got through to each object |
| `RegisterAnnotationMethods`, `Register` | the handler down to `EventHandler.cc:90`: its checks in the order of the code, then construct a tooling, replace and thereby destroy the old one |
| `BindRule`, `Bind` | the rest of the handler, one rule at a time (lines 109, 120, 131) |
| `Destroy` | the implicit destructor: the handler, then its tooling |
| `CallPlugin`, `HandleQuietEvent` | operations that only check their sequence and log |
| `InvokeRule` | entry of a handler of `Tooling.cc`, which accepts the annotation or ends the process (`rejected`); what it does there is `PimplTooling` |

A registration is four steps, and other sequences may act between any two: the
sequence at work is inside the handler and calls nothing else (`Calls`). In a
debug build the checkers stop most of them: the plugin's own methods have a
checker of their own, and a rule that is bound already leads to the new tooling,
whose checker is not bound yet. In a release build nothing stops them. A rule bound to a freed
tooling, a rule looked up in a map that is being written (`Overlaps`), and a
second registration or a destructor during the first are undefined behaviour,
modelled as a choice: a rule does what it would do otherwise, or the outcome
is `undefined` and the model stops. The race of two registrations, or of a
registration and a destructor, for `tooling_` always ends in `undefined`.

`DcheckOn` selects a debug or a release build. Of the host, which is not part
of the repository, the model assumes that it disconnects a plugin before
destroying it, calls nothing of a destroyed plugin, and runs only the rules of
the pipeline it registered last. Without the last assumption the rules of an
older pipeline are used after their tooling is freed; the code does nothing
against that. The model assumes `CLING_IS_ON`, without which the constructor's
initialiser of `clingInterpreter_` does not compile. The constructor of the
tooling is reduced to what the plugin sees of it: in a debug build it may
abort (the output directory cannot be made); its steps are `ToolingSetup`.

### PimplSystem

`L` is an instance of `PluginLifecycle` on the system's own variables, `T(t)`
an instance of `PimplTooling` for tooling `t`, whose `reflectionCache`, `log`
and `status` are `caches[t]`, `logs[t]` and `handled[t]`; `unit` and `visible`
belong to flextool and are shared. `HostStep` is any step of the lifecycle
other than a rule. `RunRule(s, a)` is the rule of annotation `a` run on
sequence `s`: the pipeline leads to a tooling, the tooling checks the sequence
and then accepts the annotation (`Accept`: cache, log) or rejects it (`Reject`:
the process ends). `NextUnit` may come between any two of them.

The composition decides what neither component can: whether what a handler
does is invisible to the lifecycle, whether toolings share anything, and what a
registration between header and source of one class does to the generated code.

### ToolingSetup

| Model | Code |
| --- | --- |
| `pc` | the next step of each constructor: `load` (Cling), `choose` (`PathService`, settings), `test` (`PathExists`), `create`, `resolve` (`MakeAbsoluteFilePath`) |
| `loaded`, `settings` | outcome of `loadSettings` and `settings_.outDir`; a script that fails may have written it, one that does not return void is `misused` |
| `exeFound`, `outDir` | success of `PathService::Get`, `outDir_` |
| `fs`, `disturbed` | what is at each location; history of those that other programs changed |
| `LocationOf` | what `realpath` makes of a name; two names may reach one location |
| `DebugBuilds` | the processes in which DCHECKs are compiled in |

Each system call is an action, so that other constructors and other programs
(`Disturb`) act between any two. `PathExists` is content with a regular file,
as in the code; a directory of this name then never appears, which is why the
properties speak of locations nobody disturbed (a file is such a disturbance).

### CodeGenerator

| Model | Code |
| --- | --- |
| `methods`, `current` | `reflectedClass->methods` and the range-for over it |
| `pc` | where the body of the loop stands: at a method, inside `expandTemplateNames`, at the signature, inside `methodParamDecls` |
| `item` | position of the range-for of the two inner functions, which are one loop in the model (`ItemsOf` is their argument) |
| `paramIter`, `out` | locals of the two inner functions; the counter decides only about separators |
| `Injections`, `call` | the annotations of the class and the one at work |
| `Kind` | the two conditions of an annotation, independent of each other: `interfaceParameterQualType` is not empty, `without_method_body` |
| `replacer` | the text, as a sequence of tokens, of each annotation |

Tokens are what `printMethodForwarding`, `printMethodTrailing` and
`forwardMethodParamNames` of flexlib deliver in one piece, and punctuation;
white space is left out. `FunctionAt` is written from the grammar and not from
the printer: it looks for the next parenthesis, brace or semicolon. A text reads
as a class when it can be cut behind semicolons and closing braces (`Cuts`) into
one function per ordinary method, each ending where the next begins
(`ReadsAs`). `Declarator`, `Listed` and `Body` are the pieces of a wrapper that
`injectPimplMethodCalls` appends without a loop of its own.

### GenerateBuild

| Model | Code |
| --- | --- |
| `source`, `gen` | versions of the three inputs, the plugin and the header they include; each generated file with the versions it was made from |
| `outdated` | a file of `DEPENDS` is newer than the output: the comparison of timestamps by the build tool |
| `StartBuild`, `RemoveOutput` | the build tool starts the command; `cmake -E remove`, file by file |
| `LoadPlugin`, `Parse`, `Write` | flextool: load the plugin, then per input parse, run the rules and write the output |
| `used` | what this flextool process has read; a reflection lives no longer than the process |
| `Fails` | a CHECK fails: the input is not acceptable (`Broken`), its class was not reflected in this process, or a generated header is missing |
| `Edit`, `Interrupt` | somebody edits a source or rebuilds the plugin; a build is stopped or flextool crashes, at any step |

An output appears at once: that a crash leaves half of one is not modelled.

## Runs

| Run | Shows |
| --- | --- |
| `tooling_debug` | all properties of `PimplTooling`, and that it implements `PimplContract`, in a debug build |
| `tooling_release` | without DCHECKs several paddings are accepted: which of them decides about the size, and when the storage gets too small |
| `negative_padding` | finding: a negative `sizePadding` shrinks the storage |
| `twice_annotated` | finding: `skip_pimpl` as second annotation of a method has no effect |
| `virtual_base` | finding: the alignment printed is not `alignof` for a class with a virtual base |
| `lifecycle_debug` | all properties of `PluginLifecycle` in a debug build |
| `lifecycle_release` | without sequence checkers the window of a registration is the only place where a freed tooling is entered; listeners do not dangle |
| `unset_interpreter` | finding: `DCHECK(clingInterpreter_)` does not stop an early registration |
| `system` | the composed system implements `PluginLifecycle` and, for every tooling, `PimplTooling`; generated code agrees across registrations |
| `tooling_setup` | constructors that run at the same time do not harm each other, failures have a cause, a failed script has no effect in a debug build, and every constructor ends |
| `code_generator` | the texts of all kinds of annotations read back as the functions they were printed from |
| `generate_build` | under edits, aborts and interruptions the outputs fit together, are current when the build is quiet, a run that nothing stops makes all of them, and the build comes to rest |

*Bounds of the tooling runs.* Three implementation classes: `FooImpl`, which a
unit may see incomplete, as the example of `src/tests` defines it, or as other
macros would make it; `BarImpl`, whose methods are all skipped or which has
a virtual base; and `LocalImpl`, of another unit's unnamed namespace, which
prints as `FooImpl` does. `FooImpl` is also known under a second spelling. The
annotations are those of the example for both classes, repeated, unknown and
unreadable arguments, and templates with wrong parameters. `MaxUnits = 2`: the
properties relate at most a reflecting and an injecting unit.
`MaxEdits = 4`: a reflection, a storage, a declaration and a definition, or the
same for two keys halfway. `SizeModulus = 64`: large enough for every size of
the world without padding to wrap, small enough that a negative sum would.
The release run has paddings that take away fewer bytes than an object has or
more, alone and together with others in both orders.
A run of the tool may end or abort, so deadlock is not checked.

*Bounds of the lifecycle runs.* Two sequences, so that a second one can
interfere; two pipelines and two toolings, so that one registration can replace
another, on the same pipeline or on a different one. `Toolings` bounds the
number of registrations; the other state is finite.

*Bounds of the system run.* Two sequences, two pipelines and two toolings as
before; one class that a unit shows in two versions or not at all; the four
annotations of the example and one that is rejected. `MaxUnits = 2` and
`MaxEdits = 2` per tooling: each can reflect the class and inject wrappers,
which is what agreement across a registration takes.

*Bounds of the set-up run.* A debug and a release process; three names for two
locations, one of which cannot be created. Every content of the file system is
an initial state and other programs change it without limit. A constructor
does at most one step of each kind, so a third process adds no new pair of
racing steps; the theorems cover any number.

*Bounds of the printing run.* Four annotations, one of each kind. Classes of one or two methods (the first method
and what follows it), each a function with none to three parameters, a template
with none to two names, or a constructor; two methods suffice for one to leak
into the next.

*Bounds of the build run.* `MaxEdits = 3`: one edit that breaks the class, one
that repairs it, and one in a race; `MaxInterrupts = 2`: an interrupted
build, and an interrupted repair of it.

*Fairness.* The handlers, the events and the composed system are calls from a
host that may stop making them, so none is assumed there and no liveness is
stated; none is stated of the printing either, whose loops are range-fors over
finite lists and end by their form. Two modules state weak fairness:
`ToolingSetup`, of every constructor, which is straight-line code in a process
of its own; and `GenerateBuild`, of `Command`, i.e. a command that was started goes on and the
build is started again while the build tool sees a reason to. Edits,
interruptions and other programs get no fairness.

### Properties

`PimplTooling`

- `ReflectedOnceBeforeUse`: each key is reflected at most once, and every
  injection comes after that.
- `WrappersMirrorReflection`: the wrappers are exactly the callable methods of
  the definition that was reflected.
- `DeclarationsMatchDefinitions`: any two injections of method calls for a key
  list the same methods.
- `StorageHoldsImpl`: the storage is at least as large as the reflected object
  (with the paddings of `tooling_debug`; run `negative_padding` violates it).
- `StorageShortfall`: what is true of every padding the code accepts. The storage
  is too small exactly if the last of them takes bytes away, but not more than
  there are; an earlier one has no say.
- `CodeIsOfOneDefinition`: for every printed name there is one reflection such
  that all code ever generated for the name, storage and wrappers, fits its
  definition: not the size of one version with the methods of another, and not
  half of one class and half of its namesake.
- `CacheExplainsLog`: every transformation ever done still agrees with the
  cached entry of its key, and every entry stems from a reflection.
- `CacheIsFrozen`: no entry is changed or dropped.
- `ImplementsContract`: refinement of `PimplContract`.
- `SkippedStayHidden`, `StorageIsAlignedAsImpl`: stated by the documentation
  and a comment, and violated (findings).

`PluginLifecycle`

- `NoDanglingListener`: a destroyed plugin has no listener left.
- `LatestRulesAreLive`: while no registration is at work the rules of the last
  pipeline are bound to the living tooling, all three to the same one.
- `OnlyOverlapsAreUndefined`: without checkers and with any sequence calling
  anything at any time, a step becomes undefined only while a registration is
  between freeing the old tooling and binding the last rule.
- `ObjectsStayOnOneSequence`, `ToolingDiesWhereItWasUsed`,
  `ToolingHasInterpreter`: what the checks of a debug build guarantee.
- `InterpreterIsChecked`: what `DCHECK(clingInterpreter_)` intends, and does
  not achieve (finding).

`PimplSystem`

- `ImplementsLifecycle`: refinement of `PluginLifecycle`; a rule behaves for
  the host as `InvokeRule`, whatever its handler does.
- `ImplementsToolings`: every tooling is a `PimplTooling`, so all that is
  proved of that module holds of each.
- `OnlyOwnToolingEdits`: no replaced or freed tooling edits the source; in a
  debug build not even during a registration.
- `WrappersAgreeAcrossRegistrations`: the wrappers of a class agree even when
  header and source were generated by two toolings, provided both reflected
  the same definition.

`ToolingSetup`

- `RacesAreHarmless`: a constructor that ends has the absolute path of the
  directory it asked for, and the directory is there, unless another program
  than a constructor interfered.
- `AbortsHaveACause`: another constructor is never the cause of an abort.
- `FailedScriptMeansDefault`: in a debug build what a failed script wrote has
  no effect.
- `SetupEnds`: every constructor ends.

`CodeGenerator`

- `TextReadsBack`: every text can be cut into one function per ordinary method,
  which reads as the wrapper of that method with its own parts, and each
  body forwards to its namesake.
- `ListsAlternate`: loop invariant of the inner loops; the separators, which the
  counter decides, fit the items, which the range-for visits.

`GenerateBuild`

- `OutputsFitTogether`: outputs that lie together were made from the same
  versions, and `Foo.cc`'s from the generated headers that lie beside it.
- `QuietMeansCurrent`: no reason to rebuild means no file of `DEPENDS` is newer
  than what was used, but for `raced` (an edit after a file was read and before
  the first output was written escapes the comparison of timestamps; without
  the exception the property is false). `pimpl_annotations.hpp`
  is not in `DEPENDS`, so nothing is promised about it.
- `RunsDeliver`: a run of the command that ends without an interruption, with
  sources that flextool accepts, leaves all outputs: nothing it needs is missing
  when a file's turn comes, however earlier runs ended.
- `BuildComesToRest`: when edits and interruptions are over and the sources are
  acceptable, all outputs are there and no reason to rebuild is left.

Definitions whose comment begins with "Mutant of" are plausible bugs of the
definition they name; `PROJECT.json` pairs each with a property that detects it.

## Proofs

All theorems hold for every value of the constants that satisfies the named
assumptions of the modules.

*PimplToolingProofs.* The inductive invariant `IInv` is `TypeOK`,
`CacheExplainsLog` and `ReflectedOnceBeforeUse`. The properties about pairs of
log entries are not inductive: a new entry must agree with entries long past,
and the only thing the code keeps of these is the cache. `CacheExplainsLog`
ties every entry of the log to the cached entry of its key, so that two entries
agree because both agree with the cache; it is preserved because a cached entry
never changes (`AccountedForStays`). From `IInv` follow
`WrappersMirrorReflection` (with the lemma `WrappedIsCallable` that the two
filters of the code amount to the one of the property),
`DeclarationsMatchDefinitions`, `CacheIsFrozen`, and the refinement
(`Implements`: a reflection is an `Agree` step, an injection of method calls an
`Issue` step, all else a stutter). `CodeHasOneSource` names the reflection that
the cached entry of a key stems from as the one that all code of the key fits
(`EntryFits`); it assumes neither that names determine classes nor that
definitions agree. `ShortfallIsLastPadding` follows from the arithmetic of one
sum modulo `SizeModulus` (`SumWraps`) with `WidthsHold`, and from the cache for
the size that was reflected, perhaps in another unit. `StorageHoldsImpl` is not
a theorem: it is false of some paddings the code accepts.

*PimplContractProofs.* `ContractIsConsistent`: what implements the contract
issues one list per name.

*PluginLifecycleProofs.* `IInv` strengthens the listed properties by
`ListenersFollowHost` (listeners exist only while the host holds the plugin
connected), `RegistrationHolds` (a registration at work has bound the rules
before its position to the tooling the handler owns, so that the last step leaves
all three bound to it), `CheckersRemember` (in a debug build the callers of an object are
the sequence its checker is bound to) and `DeadToolingsAgree` (a freed tooling
was used by the sequence of the handler only, which is still its only caller).
In a debug build a rule that gets past the checkers leads to the living tooling
even during a registration (`RulesStayOut`), because the freed one is bound to
the sequence at work. In a release build it may not, and
`UndefinedOnlyInOverlaps` says that it comes to harm only there: outside,
`LatestRulesAreLive` leads every rule to the living tooling.

*ToolingSetupProofs.* The invariant adds to the types what each constructor
knows at each step: up to `resolve` it has the name that settings and
`PathService` ask for, afterwards the location of that name (`OutDirIsTarget`);
a file appears only by a disturbance (`FilesAreForeign`); and from `resolve` on
an undisturbed target is a directory, since the only step of the constructors
that changes the file system turns nothing into a directory. This stability is
why their races are harmless.

*CodeReaderProofs* and *CodeGeneratorProofs.* `ListsAlternate` is inductive
together with the types and with `CounterInStep` (the counter agrees with the
position of the range-for): each `PrintItem` appends an item and, unless it was
the last, a separator. `TextReadsBack` rests on two facts. The first concerns the
reader (`CodeReaderProofs`): wherever a text holds the text of a wrapper
(`Holds`), `FunctionAt` finds its parentheses, braces and semicolon at computed
positions (`Layout`), because no word is punctuation, and so returns the method
it was printed for. The second concerns the printer: at every step the text at
work holds the wrappers of the methods before `current`, one behind the other,
then the part of the present one that `pc` stands for, and nothing else
(`Holding`, `TextsPrinted`). The part is complete when the inner loop ends,
because its result is then the whole list (`ListsAlternate` at the last item).
The assumption that punctuation and words differ is what makes C++ readable
without its white space; the theorem needs no bound on classes or lists.

*GenerateBuildProofs.* The invariant says how far the process at work has come
(`Progress`: outputs are removed and made in turn) and relates three
generations (`MadeFromUsed`, `ReadIsCurrent`): what lies in the directory was
written by the process at work or, when none is, by the last one
(`RemoveOutput` erases all others before flextool starts), so that outputs
agree because each agrees with `used`; what the process has read is current
unless an output is outdated by the edit or the edit is recorded in `raced`.
`RunsMakeAllOutputs` adds `ReadInTurn`: the process at work has read every file
whose turn is over. With it none of the three reasons of `Fails` is left when
the sources are acceptable (`NothingIsMissing`), so a run ends with its last
output.

*PimplSystemProofs.* `SystemIsLifecycle` needs no invariant: `RunRule` is an
`InvokeRule` in each of its outcomes. The system then inherits the invariant
of `PluginLifecycleProofs` (`LifecycleInvariance`), which says that the rules
lead to the tooling the handler owns. With the facts that every tooling has
its own cache, log and status and that a handler that ended has ended the
process, `StepShapes` reduces every step to: nothing, the next unit, or one
tooling touched. `SystemIsToolings` (`OwnStep` for that tooling, `OthersStand`
for the rest) and `OnlyTheOwnedToolingEdits` follow. `WrappersAgree` needs more:
`CInv` says that a tooling's log is accounted for by its cache (`Traced`) and
that whatever is cached was reflected by the same tooling (`Evidence`). Two
edits of different toolings then agree because each goes back to a reflection
in its own log, and the premise of the property makes these two see the same
definition.

TLAPS cannot cite the theorems of `T(t)`, an instance with a parameter. What is
needed of `PimplTooling` is therefore taken from `D`, an instance of
`PimplToolingProofs` without one: the operators on annotations and definitions
read no variable, so that `D` and every `T(t)` agree on them (`SameData`), and
its lemmas type what a rule prints and caches. `ToolingAssumption` says of the
constants what `PimplTooling` assumes of its own (`NoTooling` serves as the
parameter, which none of them mentions). `TypeCorrect` then types the caches and
logs of all toolings; it needs that a handler that ended has ended the process.
`EveryToolingMirrors` carries the two main properties of `PimplTooling` over to
each tooling of the system, from `Traced`.

*Progress.* Liveness itself is out of the prover's reach, but the part of it
that speaks of single steps is proved: `ConstructorsMoveOn` and `RunsAreShort`
show that each step of a constructor and of a run of the command goes forward
in a bounded order, and that neither other programs nor edits set it back. What remains for TLC is that such a step is
enabled in every state before the end and, under fairness, taken.

*Only model-checked.* Liveness (`SetupEnds`, `BuildComesToRest`), which is out
of the prover's reach; `StorageHoldsImpl`, which holds of the paddings of its run
only; and the violated properties, shown by their runs. Every other invariant
and action property of a passing run is a theorem.

## Not modelled, and the plan

Not modelled:

- `reflectOrGetFromCache`: no code calls it.
- The texts that flexlib's printers return and white space.
- What a cached `ClassInfo` points to once clang has freed the AST of its unit:
  which of it the printers read is not in the repository.
- Half-written outputs of the build, and the clock of the file system:
  `outdated` is exact.
- The flextool command of the root `CMakeLists.txt` (the same pattern for
  another example), packaging, licences, version constants.

Next:

1. `ToolingSetup` inside `PimplSystem`, so that a registration may fail at each
   step of the constructor while the old tooling is still bound.
2. An abstract specification of the build (outputs of one generation, replaced
   as a whole) and the refinement from `GenerateBuild`.
