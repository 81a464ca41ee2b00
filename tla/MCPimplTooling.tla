--------------------------- MODULE MCPimplTooling ---------------------------
(***************************************************************************)
(* A small world for PimplTooling: the implementation classes FooImpl, in  *)
(* two versions, BarImpl and LocalImpl, of another unit's unnamed          *)
(* namespace, which prints as FooImpl does; the annotations of the example *)
(* in src/tests and the ways in which users get them wrong.                *)
(***************************************************************************)
EXTENDS PimplTooling, TLC

CONSTANTS FooImpl, BarImpl, LocalImpl

MCClasses == {FooImpl, BarImpl, LocalImpl}

Method(pos, traits, annotations) ==
  [ position |-> pos, traits |-> traits, annotations |-> annotations,
    hasDecl |-> TRUE ]

Ctor == Method(1, {"ctor"}, <<>>)
Foo == Method(2, {}, <<>>)
Baz == Method(3, {"template"}, <<"other">>)
Bar == Method(4, {}, <<"skip_pimpl">>)
\* Marked with two annotations, the other one first.
Qux == Method(5, {}, <<"other", "skip_pimpl">>)
Undeclared == [Method(6, {"implicit"}, <<>>) EXCEPT !.hasDecl = FALSE]

MCMethods == {Ctor, Foo, Baz, Bar, Qux, Undeclared}

Def(methods, size, alignment, nonVirtualAlignment) ==
  [ methods |-> methods, size |-> size, alignment |-> alignment,
    nonVirtualAlignment |-> nonVirtualAlignment ]

Incomplete == Def({}, 0, 1, 1)
FooDef == Def({Ctor, Foo, Baz, Bar}, 8, 4, 4)
\* The same class compiled with other macros: a smaller interface.
FooOtherDef == Def({Foo, Bar, Undeclared}, 12, 4, 4)
\* Every method is marked skip_pimpl.
BarDef == Def({Bar}, 4, 4, 4)
\* BarImpl derives virtually from a class of larger alignment.
BarVirtualDef == Def({Ctor, Foo}, 16, 8, 4)
LocalDef == Def({Foo, Baz}, 24, 8, 8)

MCDefsOf ==
  FooImpl :> {Incomplete, FooDef, FooOtherDef}
    @@ BarImpl :> {BarDef, BarVirtualDef}
    @@ LocalImpl :> {LocalDef}

MCKeys == {"FooImpl", "ns::FooImpl", "BarImpl", "int", "Foo"}

T(cls, key) == [cls |-> cls, key |-> key]

FooType == T(FooImpl, "ns::FooImpl")
BarType == T(BarImpl, "BarImpl")
LocalType == T(LocalImpl, "ns::FooImpl")

P(name, type) == [name |-> name, wellFormed |-> TRUE, type |-> type]
A(name, value) == [name |-> name, value |-> value]

Impl(type) == {P("impl", type)}
ImplAndInterface(type) == Impl(type) \cup {P("interface", T(NoClass, "Foo"))}

Note(rule, params, args) ==
  [rule |-> rule, isTemplate |-> TRUE, params |-> params, args |-> args]

Reflect(type) == Note("reflect_for_pimpl", Impl(type), <<>>)
Store(type, args) == Note("inject_pimpl_storage", Impl(type), args)
Declare(type) ==
  Note("inject_pimpl_method_calls", Impl(type), <<A("", "without_method_body")>>)
Define(type) ==
  Note("inject_pimpl_method_calls", ImplAndInterface(type), <<A("", "")>>)

Padding(n) == A("sizePadding", n)

MCIntOf ==
  "8" :> 8 @@ "4" :> 4 @@ "0" :> 0 @@ "-6" :> -6 @@ "-20" :> -20 @@ "" :> NoInt @@ "many" :> NoInt
    @@ "without_method_body" :> NoInt

\* The annotations of src/tests, for both classes.
Proper ==
  UNION {{Reflect(t), Declare(t), Define(t), Store(t, <<Padding("8")>>)} :
           t \in {FooType, BarType}}

\* The same class under the name a relative qualifier or an alias gives it.
Aliased == {Declare(T(FooImpl, "FooImpl")), Reflect(T(FooImpl, "FooImpl"))}

\* Another class that clang prints under the same name.
Namesakes == {Reflect(LocalType), Declare(LocalType), Store(LocalType, <<Padding("8")>>)}

\* Annotations with repeated, unknown or unreadable arguments.
OddArguments ==
  { Store(FooType, <<>>),
    Store(FooType, <<Padding("0"), Padding("8")>>),
    Store(FooType, <<Padding("8"), A("", ""), Padding("4")>>),
    Store(FooType, <<Padding("many")>>),
    Store(FooType, <<A("padding", "8")>>),
    Note("inject_pimpl_method_calls", Impl(FooType),
         <<A("x", "without_method_body"), A("", "without_method_body")>>),
    Note("inject_pimpl_method_calls", Impl(FooType), <<A("", "many")>>) }

\* Annotated classes whose template parameters are not those expected.
OddParameters ==
  { [Reflect(FooType) EXCEPT !.isTemplate = FALSE],
    Note("reflect_for_pimpl", {}, <<>>),
    Note("reflect_for_pimpl", {P("interface", FooType)}, <<>>),
    Note("inject_pimpl_storage", {P("Impl", FooType)}, <<>>),
    Note("inject_pimpl_method_calls",
         {[P("impl", FooType) EXCEPT !.wellFormed = FALSE]}, <<>>),
    Reflect(T(NoClass, "int")) }

MCAnnotations ==
  Proper \cup Aliased \cup Namesakes \cup OddArguments \cup OddParameters

\* Paddings that take bytes away, alone and among others: fewer bytes than the
\* object has, or more.
Shrinking ==
  { Store(t, pads) :
      t \in {FooType, BarType},
      pads \in { <<Padding("-6")>>, <<Padding("-20")>>,
                 <<Padding("-6"), Padding("8")>>, <<Padding("8"), Padding("-6")>> } }

ReleaseAnnotations ==
  {Reflect(FooType), Reflect(BarType)} \cup OddArguments \cup Shrinking

-----------------------------------------------------------------------------
(* Worlds of the runs that disagree with the documentation.                *)

\* A sizePadding that base::StringToInt accepts and that is negative.
NegativePaddings == Proper \cup {Store(FooType, <<Padding("-6")>>)}

\* A method with two annotations, skip_pimpl being the second.
TwiceAnnotatedDefsOf ==
  [MCDefsOf EXCEPT ![FooImpl] = {Incomplete, Def({Ctor, Foo, Qux}, 8, 4, 4)}]

=============================================================================
