-------------------------- MODULE MCCodeGenerator --------------------------
(***************************************************************************)
(* Classes of up to two methods, among them constructors, templates and    *)
(* functions with no, one, two and three parameters; a function template   *)
(* may have fewer or more template parameters than parameters.             *)
(***************************************************************************)
EXTENDS CodeGenerator

MCItems == {"int a", "T b", "C c", "typename T", "a", "b", "c"}
MCNameOf ==
  [i \in MCItems |->
     CASE i = "int a" -> "a"
       [] i = "T b" -> "b"
       [] i = "C c" -> "c"
       [] OTHER -> i]
MCMethodNames == {"foo", "bar", "Foo"}
MCQualifiers == {"void", "const", "noexcept"}

ParamLists == {<<>>, <<"int a">>, <<"int a", "T b">>, <<"C c", "T b", "int a">>}
TplLists == {<<>>, <<"typename T">>, <<"typename T", "C c">>}

Plain ==
  {[ name |-> n, isPimplMethod |-> TRUE, isTemplate |-> FALSE,
     tplParams |-> <<>>, params |-> p, forwarding |-> "void", trailing |-> q ] :
     n \in {"foo", "bar"}, p \in ParamLists,
     q \in {<<>>, <<"const", "noexcept">>}}

Templates ==
  {[ name |-> "foo", isPimplMethod |-> TRUE, isTemplate |-> TRUE,
     tplParams |-> t, params |-> p, forwarding |-> "void",
     trailing |-> <<"const">> ] : t \in TplLists, p \in ParamLists}

Constructor ==
  [ name |-> "Foo", isPimplMethod |-> FALSE, isTemplate |-> FALSE,
    tplParams |-> <<>>, params |-> <<"int a", "T b">>, forwarding |-> "void",
    trailing |-> <<>> ]

Candidates == Plain \cup Templates \cup {Constructor}

\* All combinations of interface and body; the first two are the example's.
MCInjections ==
  << [interface |-> FALSE, withoutMethodBody |-> TRUE],
     [interface |-> TRUE, withoutMethodBody |-> FALSE],
     [interface |-> FALSE, withoutMethodBody |-> FALSE],
     [interface |-> TRUE, withoutMethodBody |-> TRUE] >>

\* A class with no reflected method does not get as far as the printing.
MCMethodLists ==
  {<<m>> : m \in Candidates} \cup {<<m, n>> : m, n \in Candidates}

=============================================================================
