---------------------------- MODULE MCPimplSystem ----------------------------
(***************************************************************************)
(* One class that units show in two versions or not at all, the annotations*)
(* of the example and one that is rejected, two sequences and two          *)
(* registrations: enough for the second tooling to find another cache,     *)
(* another unit and another sequence than the first.                       *)
(***************************************************************************)
EXTENDS PimplSystem, TLC

CONSTANTS s1, s2, p1, p2, t1, t2, FooImpl

MCSequences == {s1, s2}
MCPipelines == {p1, p2}
MCToolings == {t1, t2}
MCClasses == {FooImpl}
MCKeys == {"FooImpl"}

Method(position, traits, annotations) ==
  [ position |-> position, traits |-> traits, annotations |-> annotations,
    hasDecl |-> TRUE ]

Ctor == Method(1, {"ctor"}, <<>>)
Foo == Method(2, {}, <<>>)
Bar == Method(3, {}, <<"skip_pimpl">>)

MCMethods == {Ctor, Foo, Bar}

Def(methods, size) ==
  [ methods |-> methods, size |-> size, alignment |-> 4,
    nonVirtualAlignment |-> 4 ]

MCDefsOf == FooImpl :> {Def({}, 0), Def(MCMethods, 8), Def({Foo}, 4)}

Note(rule, args) ==
  [ rule |-> rule, isTemplate |-> TRUE, args |-> args,
    params |-> {[ name |-> "impl", wellFormed |-> TRUE,
                  type |-> [cls |-> FooImpl, key |-> "FooImpl"] ]} ]

MCIntOf == "8" :> 8 @@ "" :> NoInt @@ "without_method_body" :> NoInt

MCAnnotations ==
  { Note("reflect_for_pimpl", <<>>),
    Note("inject_pimpl_storage", <<[name |-> "sizePadding", value |-> "8"]>>),
    Note("inject_pimpl_method_calls",
         <<[name |-> "", value |-> "without_method_body"]>>),
    Note("inject_pimpl_method_calls", <<[name |-> "", value |-> ""]>>),
    [Note("reflect_for_pimpl", <<>>) EXCEPT !.params = {
       [name |-> "interface", wellFormed |-> TRUE,
        type |-> [cls |-> FooImpl, key |-> "FooImpl"]]}] }

=============================================================================
